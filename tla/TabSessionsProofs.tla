-------------------------- MODULE TabSessionsProofs --------------------------
(***************************************************************************)
(* Proofs about the tabs of one browser, for any number of tabs, calls,    *)
(* sign-ins and sign-outs: a sign-out is final, nobody is thrown out of a  *)
(* session that lives, a sign-in through the provider keeps its flow, no   *)
(* write is refused for its token, and the pages show the session that     *)
(* the cookies hold.                                                       *)
(***************************************************************************)
EXTENDS TabSessions, SignOn, SessionTokensProofs, SequenceTheorems

Rows == 0 .. Len(tokens)
Cookies == [access : Rows, refresh : Rows]

Signing == Refreshes \cup {"login"}
Signed(m) == m.status = "ok" /\ m.what \in Signing

(***************************************************************************)
(* A message refers to rows.  One that is about to sign the browser in     *)
(* bears a token of a session that was not ended; one that clears the      *)
(* cookies bears none, and when nobody waits for it, it counts as lost.    *)
(***************************************************************************)
MessageOK(m) ==
  /\ m \in Message /\ m.cookie \in Rows /\ m.set \in Rows
  /\ Signed(m) => m.set # 0 /\ tokens[m.set].session \notin gone
  /\ m.what = "logout" => m.set = 0 /\ (m.orphan => lost)

\* All tokens of an ended session are revoked.
Ended ==
  /\ gone \subseteq 1 .. Len(tokens)
  /\ \A i \in DOMAIN tokens : tokens[i].session \in gone => tokens[i].revoked

Clears(m) == m.what = "logout" /\ m.status = "ok" /\ ~ m.orphan

\* A cookie of an ended session is on its way out.
JarInv ==
  jar.access # 0 /\ tokens[jar.access].session \in gone => lost \/ \E m \in wire : Clears(m)

TabInv ==
  /\ TokenInv /\ \A i \in DOMAIN tokens : tokens[i].user = Me
  /\ jar \in Cookies
  /\ \A m \in wire : MessageOK(m)
  /\ Ended
  /\ JarInv

LEMMA TokensAreRows ==
  ASSUME TabInv
  PROVE  /\ Len(tokens) \in Nat /\ DOMAIN tokens = 1 .. Len(tokens)
         /\ \A i \in DOMAIN tokens : tokens[i] \in Row
<1>1. tokens \in Seq(Row)
  BY DEF TabInv, TokenInv, Sound
<1> QED
  BY <1>1

LEMMA TabInit == Init => TabInv
<1> SUFFICES ASSUME Init PROVE TabInv
  OBVIOUS
<1> DEFINE row == [user |-> Me, session |-> 1, revoked |-> FALSE, cred |-> 1,
                   late |-> FALSE, by |-> Nobody]
<1>1. tokens = <<row>> /\ jar = [access |-> 1, refresh |-> 1] /\ wire = {} /\ gone = {}
  BY DEF Init
<1>2. row \in Row /\ row.session = 1 /\ row.user = Me
  BY TabAssumption DEF Row
<1> HIDE DEF row
<1>3. tokens \in Seq(Row) /\ Len(tokens) = 1 /\ DOMAIN tokens = {1} /\ tokens[1] = row
  BY <1>1, <1>2
<1>4. TokenInv
  BY <1>2, <1>3 DEF TokenInv, Sound
<1>5. jar \in Cookies
  BY <1>1, <1>3 DEF Cookies, Rows
<1> QED
  BY <1>1, <1>2, <1>3, <1>4, <1>5 DEF TabInv, Ended, JarInv

\* What a page sends.
LEMMA Asks ==
  ASSUME TabInv, NEW t \in Tab, NEW what \in What, NEW held \in Cookies
  PROVE  LET m == Request(t, what, held) IN
           MessageOK(m) /\ ~ Signed(m) /\ ~ m.orphan /\ m.status = "asked"
<1> DEFINE m == Request(t, what, held)
<1>1. held.access \in Rows /\ held.refresh \in Rows /\ 0 \in Rows /\ Rows \subseteq Nat
  BY TokensAreRows DEF Cookies, Rows
<1>2. m.what = what /\ m.status = "asked" /\ m.set = 0 /\ ~ m.orphan /\ m.cookie \in Rows
  BY <1>1 DEF Request
<1>3. m \in Message
  BY <1>1 DEF Request, Message
<1> QED
  BY <1>1, <1>2, <1>3 DEF MessageOK, Signed

-----------------------------------------------------------------------------
(***************************************************************************)
(* A step that leaves the tokens alone: messages are old ones, asked ones, *)
(* or such that sign nobody in; and the answers to a sign-out stay until   *)
(* the browser takes them, unless they are lost.                           *)
(***************************************************************************)
Harmless(m) ==
  /\ m \in Message /\ m.cookie \in Rows /\ m.set \in Rows /\ ~ Signed(m)
  /\ m.what = "logout" => m.set = 0 /\ (m.orphan => lost')

LEMMA Frame ==
  ASSUME TabInv, UNCHANGED <<tokens, gone>>, lost => lost', jar' \in Cookies,
         \A m \in wire' : m \in wire \/ Harmless(m),
         \/ jar'.access = 0
         \/ tokens[jar'.access].session \notin gone
         \/ jar'.access = jar.access /\ \A m \in wire : Clears(m) => m \in wire' \/ lost'
  PROVE  TabInv'
<1>1. TokenInv' /\ (\A i \in DOMAIN tokens : tokens[i].user = Me)' /\ Ended'
  BY DEF TabInv, TokenInv, Ended
<1>2. jar' \in Cookies'
  BY DEF Cookies, Rows
<1>3. \A m \in wire' : MessageOK(m)'
  BY DEF TabInv, MessageOK, Harmless, Rows
<1>4. JarInv'
  BY DEF TabInv, JarInv
<1> QED
  BY <1>1, <1>2, <1>3, <1>4 DEF TabInv

\* What a page sends is harmless.
LEMMA AsksHarmless ==
  ASSUME TabInv, NEW t \in Tab, NEW what \in What, NEW held \in Cookies
  PROVE  Harmless(Request(t, what, held))
BY Asks DEF Harmless, MessageOK

\* Nothing but the wire and what the pages show.
LEMMA FrameWire ==
  ASSUME TabInv, UNCHANGED <<tokens, gone, jar>>, lost => lost',
         \A m \in wire' : m \in wire \/ Harmless(m),
         \A m \in wire : Clears(m) => m \in wire' \/ lost'
  PROVE  TabInv'
<1>1. jar' \in Cookies /\ jar'.access = jar.access
  BY DEF TabInv
<1> QED
  BY <1>1, Frame

\* An answer is taken, which may set cookies; the page goes on.
LEMMA FrameArrival ==
  ASSUME TabInv, NEW m \in wire, ~ m.orphan, SetCookies(m), UNCHANGED <<tokens, gone>>,
         lost => lost',
         \A n \in wire' : n \in wire \/ Harmless(n),
         \A n \in wire \ {m} : Clears(n) => n \in wire' \/ lost'
  PROVE  TabInv'
<1>1. MessageOK(m) /\ jar \in Cookies
  BY DEF TabInv
<1>2. CASE m.status = "ok" /\ m.what \in Refreshes \cup {"login", "logout"}
  <2>1. jar' = [access |-> m.set, refresh |-> m.set]
    BY <1>2 DEF SetCookies
  <2>2. jar' \in Cookies /\ jar'.access = m.set
    BY <1>1, <2>1 DEF MessageOK, Cookies
  <2>3. m.set = 0 \/ tokens[m.set].session \notin gone
    BY <1>1, <1>2 DEF MessageOK, Signed, Signing
  <2> QED
    BY <2>2, <2>3, Frame
<1>3. CASE ~ (m.status = "ok" /\ m.what \in Refreshes \cup {"login", "logout"})
  <2>1. jar' = jar /\ ~ Clears(m)
    BY <1>3 DEF SetCookies, Clears
  <2>2. \A n \in wire : Clears(n) => n \in wire' \/ lost'
    BY <2>1
  <2> QED
    BY <1>1, <2>1, <2>2, FrameWire
<1> QED
  BY <1>2, <1>3

LEMMA JarOfArrival ==
  ASSUME TabInv, NEW m \in wire, SetCookies(m)
  PROVE  jar' \in Cookies
<1>1. MessageOK(m) /\ jar \in Cookies
  BY DEF TabInv
<1>2. m.set \in Rows
  BY <1>1 DEF MessageOK
<1>3. [access |-> m.set, refresh |-> m.set] \in Cookies
  BY <1>2 DEF Cookies
<1> QED
  BY <1>1, <1>3 DEF SetCookies

-----------------------------------------------------------------------------
(***************************************************************************)
(* What the pages do.                                                      *)
(***************************************************************************)
LEMMA ExpireKeeps == TabInv /\ Expire => TabInv'
<1> SUFFICES ASSUME TabInv, Expire PROVE TabInv'
  OBVIOUS
<1>1. jar' = [jar EXCEPT !.access = 0] /\ UNCHANGED <<tokens, wire, lost, gone>>
  BY DEF Expire, history
<1>2. 0 \in Rows
  BY TokensAreRows DEF Rows
<1>3. jar' \in Cookies /\ jar'.access = 0
  BY <1>1, <1>2 DEF TabInv, Cookies
<1> QED
  BY <1>1, <1>3, Frame

LEMMA PageSends ==
  ASSUME TabInv, NEW t \in Tab,
         Login(t) \/ Logout(t) \/ \E c \in Call : Send(t, c) \/ Refresh(t, c)
  PROVE  TabInv'
<1>1. UNCHANGED <<tokens, jar, lost, gone>> /\ jar \in Cookies
  BY DEF Login, Logout, Send, Refresh, history, TabInv
<1>2. \E what \in What : wire' = wire \cup {Request(t, what, jar)} \/ wire' = wire
  BY DEF Login, Logout, Send, Refresh, What
<1>3. \A m \in wire' : m \in wire \/ Harmless(m)
  BY <1>1, <1>2, AsksHarmless
<1> QED
  BY <1>1, <1>2, <1>3, FrameWire

\* The page is left: what it waited for is lost, when that matters.
LEMMA SignedOutKeeps ==
  ASSUME TabInv, NEW m \in wire, ~ m.orphan, SetCookies(m), UNCHANGED <<tokens, gone>>,
         SignedOut(m.tab, wire \ {m})
  PROVE  TabInv'
<1> DEFINE t == m.tab
           rest == wire \ {m}
<1>1. jar' \in Cookies /\ t \in Tab
  BY JarOfArrival DEF TabInv, MessageOK, Message
<1>2. CASE view[t] = "login"
  BY <1>2, FrameArrival DEF SignedOut
<1>3. CASE view[t] # "login"
  <2>1. wire' = {n \in rest : n.tab # t \/ n.orphan}
                  \cup {[n EXCEPT !.orphan = TRUE] : n \in
                          {n \in rest : n.tab = t /\ n.status = "asked" /\ ~ n.orphan}}
                  \cup {Request(t, "me", jar')}
    BY <1>3 DEF SignedOut
  <2>2. /\ lost => lost'
        /\ (\E n \in rest : n.tab = t /\ n.what \in Refreshes \cup {"logout"}
                            /\ n.status # "refused") => lost'
    BY <1>3 DEF SignedOut
  <2>3. Harmless(Request(t, "me", jar'))
    BY <1>1, AsksHarmless DEF What, Loading
  <2>4. ASSUME NEW n \in rest, n.tab = t, n.status = "asked"
        PROVE  Harmless([n EXCEPT !.orphan = TRUE])
    <3> DEFINE o == [n EXCEPT !.orphan = TRUE]
    <3>1. MessageOK(n)
      BY DEF TabInv
    <3>2. n \in Message /\ n.cookie \in Rows /\ n.set \in Rows /\ (n.what = "logout" => n.set = 0)
      BY <3>1 DEF MessageOK
    <3>3. /\ o \in Message /\ o.cookie = n.cookie /\ o.set = n.set /\ o.what = n.what
          /\ o.status = "asked"
      BY <2>4, <3>2 DEF Message
    <3>4. n.what = "logout" => lost'
      BY <2>2, <2>4
    <3> HIDE DEF o
    <3> QED
      BY <3>2, <3>3, <3>4 DEF Harmless, Signed, o
  <2>5. \A n \in wire' : n \in wire \/ Harmless(n)
    BY <2>1, <2>3, <2>4
  <2>6. \A n \in rest : Clears(n) => n \in wire' \/ lost'
    BY <2>1, <2>2 DEF Clears
  <2> QED
    BY <2>2, <2>5, <2>6, FrameArrival
<1> QED
  BY <1>2, <1>3

LEMMA PageTakes ==
  ASSUME TabInv, NEW m \in wire, Page(m)
  PROVE  TabInv'
<1>1. MessageOK(m) /\ m.tab \in Tab
  BY DEF TabInv, MessageOK, Message
<1>2. ~ m.orphan /\ SetCookies(m) /\ UNCHANGED <<tokens, gone>>
  BY DEF Page, CallArrives, RefreshArrives, LoadArrives, LoginArrives, LogoutArrives, Arrives, history
<1>3. jar' \in Cookies
  BY <1>2, JarOfArrival
<1>4. ASSUME NEW sent, wire' = (wire \ {m}) \cup sent, \A n \in sent : Harmless(n), UNCHANGED lost
      PROVE  TabInv'
  BY <1>2, <1>4, FrameArrival
<1>5. CASE SignedOut(m.tab, wire \ {m})
  BY <1>2, <1>5, SignedOutKeeps
<1>6. CASE CallArrives(m) /\ ~ SignedOut(m.tab, wire \ {m})
  <2>1. wire' = wire \ {m} /\ UNCHANGED lost
    BY <1>6 DEF CallArrives
  <2>2. \A n \in wire' : n \in wire \/ Harmless(n)
    BY <2>1
  <2> QED
    BY <1>2, <2>1, <2>2, FrameArrival
<1>7. CASE RefreshArrives(m) /\ ~ SignedOut(m.tab, wire \ {m})
  <2> DEFINE sent == {Request(m.tab, c, jar') : c \in {c \in Call : call[m.tab][c] = "waiting"}}
  <2>1. wire' = (wire \ {m}) \cup sent /\ UNCHANGED lost
    BY <1>7 DEF RefreshArrives
  <2>2. \A n \in sent : Harmless(n)
    <3>1. \A c \in Call : c \in What
      BY DEF What
    <3>2. \A c \in Call : Harmless(Request(m.tab, c, jar'))
      BY <1>1, <1>3, <3>1, AsksHarmless
    <3> QED
      BY <3>2
  <2> HIDE DEF sent
  <2> QED
    BY <1>4, <2>1, <2>2
<1>8. CASE LoadArrives(m)
  <2> DEFINE sent == CASE m.status = "ok" /\ m.what = "meRefresh" -> {Request(m.tab, "meAgain", jar')}
                       [] m.status # "ok" /\ m.what = "me" -> {Request(m.tab, "meRefresh", jar')}
                       [] OTHER -> {}
  <2>1. wire' = (wire \ {m}) \cup sent /\ UNCHANGED lost
    BY <1>8 DEF LoadArrives, history
  <2>2. /\ Harmless(Request(m.tab, "meAgain", jar'))
        /\ Harmless(Request(m.tab, "meRefresh", jar'))
    BY <1>1, <1>3, AsksHarmless DEF What, Loading
  <2>3. sent \subseteq {Request(m.tab, "meAgain", jar'), Request(m.tab, "meRefresh", jar')}
    OBVIOUS
  <2>4. \A n \in sent : Harmless(n)
    BY <2>2, <2>3
  <2> HIDE DEF sent
  <2> QED
    BY <1>4, <2>1, <2>4
<1>9. CASE LoginArrives(m) \/ LogoutArrives(m)
  <2>1. wire' = wire \ {m} /\ UNCHANGED lost
    BY <1>9 DEF LoginArrives, LogoutArrives, history
  <2>2. \A n \in wire' : n \in wire \/ Harmless(n)
    BY <2>1
  <2> QED
    BY <1>2, <2>1, <2>2, FrameArrival
<1> QED
  BY <1>5, <1>6, <1>7, <1>8, <1>9 DEF Page

-----------------------------------------------------------------------------
(***************************************************************************)
(* What the server answers, and what is lost.                              *)
(***************************************************************************)
\* The messages after an answer.
LEMMA Answered ==
  ASSUME TabInv, NEW m \in wire, m.status = "asked", NEW status \in {"ok", "refused"},
         NEW set \in Nat, Answers(m, status, set)
  PROVE  \A n \in wire' :
           \/ n \in wire \ {m}
           \/ /\ n \in Message /\ n.cookie = m.cookie /\ n.set = set
              /\ n.what = m.what /\ n.status = status /\ ~ n.orphan
<1>1. MessageOK(m)
  BY DEF TabInv
<1>2. m \in Message
  BY <1>1 DEF MessageOK
<1> DEFINE o == [m EXCEPT !.status = status, !.set = set]
<1>3. /\ o \in Message /\ o.cookie = m.cookie /\ o.set = set /\ o.what = m.what
      /\ o.status = status /\ o.orphan = m.orphan
  BY <1>2 DEF Message
<1>4. wire' = (wire \ {m}) \cup IF m.orphan THEN {} ELSE {o}
  BY DEF Answers
<1> HIDE DEF o
<1> QED
  BY <1>3, <1>4

\* An answer that concerns no tokens.
LEMMA AnswerCallKeeps ==
  ASSUME TabInv, NEW m \in wire, AnswerCall(m)
  PROVE  TabInv'
<1> DEFINE status == IF m.cookie # 0 THEN "ok" ELSE "refused"
<1>1. /\ MessageOK(m) /\ m.status = "asked" /\ Answers(m, status, 0)
      /\ m.what \notin Signing \cup {"logout"} /\ UNCHANGED <<tokens, jar, lost, gone>>
  BY TabAssumption DEF TabInv, AnswerCall, Signing, Refreshes, history
<1>2. status \in {"ok", "refused"} /\ 0 \in Nat /\ 0 \in Rows
  BY TokensAreRows DEF Rows
<1> HIDE DEF status
<1>3. \A n \in wire' : n \in wire \/ Harmless(n)
  BY <1>1, <1>2, Answered DEF Harmless, Signed, MessageOK
<1>4. \A n \in wire : Clears(n) => n \in wire'
  <2>1. wire \ {m} \subseteq wire' /\ ~ Clears(m)
    BY <1>1 DEF Answers, Clears
  <2> QED
    BY <2>1
<1> QED
  BY <1>1, <1>3, <1>4, FrameWire

LEMMA LoseKeeps ==
  ASSUME TabInv, NEW m \in wire, Lose(m)
  PROVE  TabInv'
<1> DEFINE o == [m EXCEPT !.status = "failed"]
<1>1. MessageOK(m) /\ lost' /\ UNCHANGED <<tokens, jar, gone>> /\ wire' = (wire \ {m}) \cup {o}
  BY DEF TabInv, Lose
<1>2. /\ m \in Message /\ m.cookie \in Rows /\ m.set \in Rows
      /\ m.what = "logout" => m.set = 0
  BY <1>1 DEF MessageOK
<1>3. /\ o \in Message /\ o.cookie = m.cookie /\ o.set = m.set /\ o.what = m.what
      /\ o.status = "failed"
  BY <1>2 DEF Message
<1> HIDE DEF o
<1>4. Harmless(o)
  BY <1>1, <1>2, <1>3 DEF Harmless, Signed
<1> QED
  BY <1>1, <1>4, FrameWire

\* The table grows by a token of a session that was not ended.
LEMMA GrowthKeeps ==
  ASSUME TabInv, NEW m \in wire, m.status = "asked", m.what \in Signing, TokenInv',
         Len(tokens') = Len(tokens) + 1, tokens'[Len(tokens')].user = Me,
         tokens'[Len(tokens')].session \notin gone,
         \A i \in DOMAIN tokens : /\ tokens'[i].user = Me
                                  /\ tokens'[i].session = tokens[i].session
                                  /\ tokens[i].revoked => tokens'[i].revoked,
         Answers(m, "ok", Len(tokens')), UNCHANGED <<jar, lost, gone>>
  PROVE  TabInv'
<1> DEFINE n == Len(tokens')
<1>1. /\ Len(tokens) \in Nat /\ DOMAIN tokens = 1 .. Len(tokens) /\ n = Len(tokens) + 1
      /\ tokens' \in Seq(Row)
  BY TokensAreRows DEF TokenInv, Sound
<1>2. DOMAIN tokens' = DOMAIN tokens \cup {n} /\ Rows \subseteq Rows' /\ n \in Rows' /\ n # 0
      /\ n \in Nat
  BY <1>1 DEF Rows
<1>3. (\A i \in DOMAIN tokens : tokens[i].user = Me)'
  BY <1>2
<1>4. jar' \in Cookies' /\ Ended'
  BY <1>1, <1>2 DEF TabInv, Cookies, Ended
<1>5. \A i \in Rows : i # 0 => i \in DOMAIN tokens
  BY <1>1 DEF Rows
<1>6. \A o \in wire' : MessageOK(o)'
  <2>1. ASSUME NEW o \in wire PROVE MessageOK(o)'
    <3>1. MessageOK(o)
      BY DEF TabInv
    <3> QED
      BY <1>2, <1>5, <3>1 DEF MessageOK, Signed
  <2>2. ASSUME NEW o \in Message, o.cookie = m.cookie, o.set = n, o.what = m.what, ~ o.orphan
        PROVE  MessageOK(o)'
    <3>1. MessageOK(m) /\ m.what # "logout"
      BY DEF TabInv, Signing, Refreshes
    <3> QED
      BY <1>2, <2>2, <3>1 DEF MessageOK, Signed
  <2> QED
    BY <1>2, <2>1, <2>2, Answered
<1>7. JarInv'
  <2>1. jar.access \in Rows
    BY DEF TabInv, Cookies
  <2>2. wire \ {m} \subseteq wire' /\ ~ Clears(m)
    BY DEF Answers, Clears
  <2>3. JarInv
    BY DEF TabInv
  <2> QED
    BY <1>5, <2>1, <2>2, <2>3 DEF JarInv, Clears
<1> QED
  BY <1>3, <1>4, <1>6, <1>7 DEF TabInv

\* A refusal to sign in or to refresh.
LEMMA RefusalKeeps ==
  ASSUME TabInv, NEW m \in wire, m.status = "asked", m.what \in Signing,
         Answers(m, "refused", 0), UNCHANGED <<tokens, jar, lost, gone>>
  PROVE  TabInv'
<1>1. MessageOK(m) /\ m.what # "logout" /\ 0 \in Rows
  BY TokensAreRows DEF TabInv, Signing, Refreshes, Rows
<1>2. \A n \in wire' : n \in wire \/ Harmless(n)
  BY <1>1, Answered DEF Harmless, Signed, MessageOK
<1>3. \A n \in wire : Clears(n) => n \in wire'
  <2>1. wire \ {m} \subseteq wire' /\ ~ Clears(m)
    BY DEF Answers, Clears
  <2> QED
    BY <2>1
<1> QED
  BY <1>2, <1>3, FrameWire

LEMMA AnswerRefreshKeeps ==
  ASSUME TabInv, NEW m \in wire, AnswerRefresh(m)
  PROVE  TabInv'
<1>1. /\ m.status = "asked" /\ m.what \in Signing /\ m.cookie \in Rows
      /\ UNCHANGED <<jar, lost, gone>>
  BY DEF AnswerRefresh, Signing, TabInv, MessageOK
<1>2. CASE Alive(m.cookie)
  <2> DEFINE i == m.cookie
  <2>1. i \in DOMAIN tokens /\ Live(i)
    BY <1>1, <1>2, TokensAreRows DEF Alive, Rows
  <2>2. tokens' = Rotated(i) /\ Answers(m, "ok", Len(tokens'))
    BY <1>2 DEF AnswerRefresh, Alive
  <2>3. TokenInv /\ tokens[i].user = Me /\ tokens[i].session \notin gone
    BY <2>1 DEF TabInv, Ended, Live
  <2>4. /\ TokenInv' /\ Len(tokens') = Len(tokens) + 1
        /\ tokens'[Len(tokens')].session = tokens[i].session
        /\ tokens'[Len(tokens')].user = tokens[i].user
        /\ \A j \in DOMAIN tokens : /\ tokens'[j].session = tokens[j].session
                                    /\ tokens'[j].user = tokens[j].user
                                    /\ tokens[j].revoked => tokens'[j].revoked
    BY <2>1, <2>2, <2>3, RotatedKeeps
  <2>5. \A j \in DOMAIN tokens : tokens'[j].user = Me
    BY <2>4 DEF TabInv
  <2> QED
    BY <1>1, <2>2, <2>3, <2>4, <2>5, GrowthKeeps
<1>3. CASE ~ Alive(m.cookie)
  <2>1. UNCHANGED tokens /\ Answers(m, "refused", 0)
    BY <1>3 DEF AnswerRefresh, Alive, Rotated
  <2> QED
    BY <1>1, <2>1, RefusalKeeps
<1> QED
  BY <1>2, <1>3

LEMMA AnswerLoginKeeps ==
  ASSUME TabInv, NEW m \in wire, AnswerLogin(m)
  PROVE  TabInv'
<1>1. /\ m.status = "asked" /\ m.what \in Signing /\ tokens' = Issued(Me, 1, FALSE, Nobody)
      /\ Answers(m, "ok", Len(tokens')) /\ UNCHANGED <<jar, lost, gone>> /\ TokenInv
  BY DEF AnswerLogin, Signing, history, TabInv
<1>2. /\ TokenInv' /\ Len(tokens') = Len(tokens) + 1
      /\ tokens'[Len(tokens')].user = Me /\ tokens'[Len(tokens')].session = Len(tokens) + 1
      /\ \A i \in DOMAIN tokens : tokens'[i] = tokens[i]
  BY <1>1, IssuedBegins, TabAssumption
<1>3. Len(tokens) + 1 \notin gone
  BY TokensAreRows DEF TabInv, Ended
<1>4. \A i \in DOMAIN tokens : tokens'[i].user = Me
  BY <1>2 DEF TabInv
<1> QED
  BY <1>1, <1>2, <1>3, <1>4, GrowthKeeps

LEMMA AnswerLogoutKeeps ==
  ASSUME TabInv, NEW m \in wire, AnswerLogout(m)
  PROVE  TabInv'
<1> DEFINE i == m.cookie
<1>1. /\ m.status = "asked" /\ m.what = "logout" /\ i \in Rows /\ m.set = 0
      /\ Answers(m, "ok", 0) /\ UNCHANGED <<jar, lost>>
      /\ (m.orphan => lost)
  BY DEF AnswerLogout, TabInv, MessageOK
<1>2. 0 \in Rows /\ "logout" \notin Signing
  BY TokensAreRows DEF Rows, Signing, Refreshes
<1>3. CASE i = 0
  <2>1. UNCHANGED <<tokens, gone>>
    BY <1>3 DEF AnswerLogout
  <2>2. \A n \in wire' : n \in wire \/ Harmless(n)
    BY <1>1, <1>2, Answered DEF Harmless, Signed
  <2>3. \A n \in wire : Clears(n) => n \in wire'
    BY <1>1 DEF Answers, Clears
  <2> QED
    BY <1>1, <2>1, <2>2, <2>3, FrameWire
<1>4. CASE i # 0
  <2>1. /\ TokenInv /\ Len(tokens) \in Nat /\ DOMAIN tokens = 1 .. Len(tokens)
        /\ i \in DOMAIN tokens /\ tokens[i] \in Row /\ tokens[i].session <= Len(tokens)
    BY <1>1, <1>4, TokensAreRows DEF TabInv, TokenInv, Sound, Rows
  <2>2. tokens' = RevokedAll(Me)
    BY <1>4 DEF AnswerLogout
  <2>3. /\ TokenInv' /\ Len(tokens') = Len(tokens)
        /\ \A j \in DOMAIN tokens : /\ tokens'[j].session = tokens[j].session
                                    /\ tokens'[j].user = tokens[j].user
                                    /\ tokens[j].user = Me => tokens'[j].revoked
    BY <2>1, <2>2, RevokedAllEnds
  <2>4. DOMAIN tokens' = DOMAIN tokens
    BY <2>2 DEF RevokedAll
  <2>5. /\ (\A j \in DOMAIN tokens : tokens[j].user = Me)'
        /\ \A j \in DOMAIN tokens' : tokens'[j].revoked
    BY <2>3, <2>4 DEF TabInv
  <2>6. Rows' = Rows /\ jar' \in Cookies'
    BY <1>1, <2>3 DEF TabInv, Cookies, Rows
  <2>7. tokens[i].session \in 1 .. Len(tokens)
    BY <2>1 DEF Row
  <2>8. \/ gone' = gone
        \/ /\ gone' = gone \cup {tokens[i].session}
           /\ \A n \in wire : n.what \notin Signing
    BY <1>4 DEF AnswerLogout, Signing
  <2>9. Ended'
    BY <2>3, <2>5, <2>7, <2>8 DEF TabInv, Ended
  <2>10. \A n \in wire' : MessageOK(n)'
    <3>1. ASSUME NEW n \in wire PROVE MessageOK(n)'
      <4>1. MessageOK(n) /\ (Signed(n) => n.what \in Signing)
        BY DEF TabInv, Signed
      <4>2. n.set \in Rows /\ (n.set # 0 => n.set \in DOMAIN tokens)
        BY <2>1, <4>1 DEF MessageOK, Rows
      <4> QED
        BY <1>1, <2>3, <2>6, <2>8, <4>1, <4>2 DEF MessageOK, Signed
    <3>2. ASSUME NEW n \in Message, n.cookie = i, n.set = 0, n.what = "logout", ~ n.orphan
          PROVE  MessageOK(n)'
      BY <1>1, <1>2, <2>6, <3>2 DEF MessageOK, Signed
    <3> QED
      BY <1>1, <3>1, <3>2, Answered
  <2>11. JarInv'
    <3>1. CASE m.orphan
      BY <1>1, <3>1 DEF JarInv
    <3>2. CASE ~ m.orphan
      <4> DEFINE o == [m EXCEPT !.status = "ok", !.set = 0]
      <4>1. o \in wire'
        BY <1>1, <3>2 DEF Answers
      <4>2. m \in Message
        BY DEF TabInv, MessageOK
      <4>3. o.what = "logout" /\ o.status = "ok" /\ ~ o.orphan
        BY <1>1, <3>2, <4>2 DEF Message
      <4> HIDE DEF o
      <4> QED
        BY <4>1, <4>3 DEF JarInv, Clears
    <3> QED
      BY <3>1, <3>2
  <2> QED
    BY <2>3, <2>5, <2>6, <2>9, <2>10, <2>11 DEF TabInv
<1> QED
  BY <1>3, <1>4

-----------------------------------------------------------------------------
LEMMA TabStep == TabInv /\ [Next]_vars => TabInv'
<1> SUFFICES ASSUME TabInv, [Next]_vars PROVE TabInv'
  OBVIOUS
<1>1. ASSUME NEW m \in wire, Server(m) \/ Page(m) \/ Lose(m) PROVE TabInv'
  BY <1>1, AnswerCallKeeps, AnswerRefreshKeeps, AnswerLoginKeeps, AnswerLogoutKeeps,
     PageTakes, LoseKeeps DEF Server
<1>2. CASE UNCHANGED vars
  <2>1. UNCHANGED <<tokens, jar, wire, lost, gone>>
    BY <1>2 DEF vars
  <2> QED
    BY <2>1, FrameWire
<1> QED
  BY <1>1, <1>2, ExpireKeeps, PageSends DEF Next

(***************************************************************************)
(* A sign-out ends the session for all tabs: no token of it works, and     *)
(* once nothing is under way no cookie is left of it, unless something was *)
(* lost or a refresh was under way (coreRoutes.ts, AuthContext.tsx).       *)
(***************************************************************************)
THEOREM SignOutIsFinal == Spec => []LogoutIsFinal
<1>1. TabInv => LogoutIsFinal
  BY DEF TabInv, Ended, JarInv, LogoutIsFinal, LiveOf, RowsOf, Live, Quiet
<1> QED
  BY <1>1, TabInit, TabStep, PTL DEF Spec

-----------------------------------------------------------------------------
(***************************************************************************)
(* The first session goes on, and nothing has happened that the code does  *)
(* not guard against.  Then a tab that refreshes either holds the token    *)
(* that works, or another tab has spent it first, which is seen when the   *)
(* server answers.                                                         *)
(***************************************************************************)
Going == LiveOf(1) # {} /\ ~ (raced \/ lost \/ anonymous)

Beaten(i, t) == \E o \in Tab \ {t} : <<i, o>> \in spent

\* A call that went again bears a cookie, and is not refused.
CallOK(m) ==
  /\ call[m.tab][m.what] \in {"sent", "resent"}
  /\ call[m.tab][m.what] = "resent" => m.cookie # 0 /\ m.status # "refused"

\* The token of an answered refresh works, and nobody has it yet.
RefreshOK(m) ==
  /\ m.tab \in refreshing /\ m.status \in {"asked", "ok"}
  /\ m.status = "asked" => m.cookie # 0 /\ (Live(m.cookie) \/ Beaten(m.cookie, m.tab))
  /\ m.status = "ok" =>
       /\ Alive(m.set) /\ jar.refresh # m.set /\ <<jar.refresh, m.tab>> \in spent
       /\ \A n \in wire : n.what = "refresh" /\ n # m => n.status = "asked" /\ n.cookie # m.set

OnItsWay(m) == m.what = "refresh" /\ m.status = "ok"

Progress == {"idle", "sent", "probing", "waiting", "resent", "done"}

StayInv ==
  /\ \A t \in Tab : view[t] = "app"
  /\ call \in [Tab -> [Call -> Progress]]
  /\ \A i \in DOMAIN tokens : tokens[i].session = 1
  /\ \A m, n \in wire : m.tab = n.tab /\ m.what = n.what => m = n
  /\ \A m \in wire : /\ ~ m.orphan /\ m.what \in Call \cup {"refresh"}
                     /\ m.what \in Call => CallOK(m)
                     /\ m.what = "refresh" => RefreshOK(m)
  /\ jar.refresh # 0
  /\ Live(jar.refresh) \/ \E m \in wire : OnItsWay(m)

\* A sign-out that was asked for ends the session when it is answered.
Waits == \A m \in wire : m.what = "logout" => m.status = "asked"

SessionInv ==
  /\ TabInv /\ Len(tokens) >= 1
  /\ Going => Waits
  /\ Going /\ ~ SigningOut => StayInv

LEMMA SessionInit == Init => SessionInv
<1> SUFFICES ASSUME Init PROVE SessionInv
  OBVIOUS
<1> DEFINE row == [user |-> Me, session |-> 1, revoked |-> FALSE, cred |-> 1,
                   late |-> FALSE, by |-> Nobody]
<1>1. /\ tokens = <<row>> /\ jar = [access |-> 1, refresh |-> 1] /\ wire = {}
      /\ view = [t \in Tab |-> "app"] /\ call = [t \in Tab |-> [c \in Call |-> "idle"]]
  BY DEF Init
<1>2. row.session = 1 /\ ~ row.revoked
  OBVIOUS
<1> HIDE DEF row
<1>3. Len(tokens) = 1 /\ DOMAIN tokens = {1} /\ tokens[1] = row
  BY <1>1
<1>4. TabInv
  BY TabInit
<1> QED
  BY <1>1, <1>2, <1>3, <1>4 DEF SessionInv, StayInv, Waits, Live, Progress

\* What has happened stays so.
Grows == (raced => raced') /\ (lost => lost') /\ (anonymous => anonymous')

\* The first session does not come back.
LEMMA NotAgain ==
  ASSUME TabInv, Len(tokens) >= 1, [Next]_vars
  PROVE  Len(tokens') >= 1 /\ (Going' => Going)
<1>1. TabInv' /\ TokenInv /\ TokenInv'
  BY TabStep DEF TabInv
<1>2. (LiveOf(1) # {} <=> 1 \in OpenSessions) /\ (LiveOf(1) # {} <=> 1 \in OpenSessions)'
  BY <1>1, TheSessions DEF Working, LiveOf, RowsOf, Live
<1>3. Grows
  <2>1. ASSUME NEW m, AnswerRefresh(m) PROVE Grows
    <3>1. (raced => raced') /\ UNCHANGED <<lost, anonymous>>
      BY <2>1, Zenon DEF AnswerRefresh
    <3> QED
      BY <3>1 DEF Grows
  <2>2. ASSUME NEW m, AnswerLogout(m) PROVE Grows
    <3>1. (anonymous => anonymous') /\ UNCHANGED <<lost, raced>>
      BY <2>2, Zenon DEF AnswerLogout
    <3> QED
      BY <3>1 DEF Grows
  <2>3. ASSUME NEW m, Page(m) PROVE Grows
    <3>1. ASSUME NEW t, NEW rest, SignedOut(t, rest) PROVE lost => lost'
      BY <3>1, Zenon DEF SignedOut
    <3>2. UNCHANGED <<raced, anonymous>> /\ (lost' = lost \/ \E t, rest : SignedOut(t, rest))
      BY <2>3 DEF Page, CallArrives, RefreshArrives, LoadArrives, LoginArrives, LogoutArrives, history
    <3> QED
      BY <3>1, <3>2 DEF Grows
  <2>4. ASSUME NEW m, Lose(m) PROVE Grows
    BY <2>4 DEF Lose, Grows
  <2>5. ASSUME UNCHANGED <<raced, lost, anonymous>> PROVE Grows
    BY <2>5 DEF Grows
  <2>6. ASSUME NEW m, AnswerCall(m) \/ AnswerLogin(m) PROVE Grows
    BY <2>5, <2>6 DEF AnswerCall, AnswerLogin, history
  <2>7. ASSUME NEW t, Login(t) \/ Logout(t) \/ \E c \in Call : Send(t, c) \/ Refresh(t, c) PROVE Grows
    BY <2>5, <2>7 DEF Login, Logout, Send, Refresh, history
  <2>8. CASE Expire \/ UNCHANGED vars
    BY <2>5, <2>8 DEF Expire, vars, history
  <2>9. CASE \E m \in wire : Server(m) \/ Page(m) \/ Lose(m)
    BY <2>1, <2>2, <2>3, <2>4, <2>6, <2>9 DEF Server
  <2>10. CASE \E t \in Tab : Login(t) \/ Logout(t) \/ \E c \in Call : Send(t, c) \/ Refresh(t, c)
    BY <2>7, <2>10
  <2> QED
    BY <2>8, <2>9, <2>10 DEF Next
<1>4. Len(tokens) \in Nat /\ DOMAIN tokens = 1 .. Len(tokens)
  BY TokensAreRows
<1>5. \/ UNCHANGED tokens
      \/ \E i \in DOMAIN tokens : tokens' = Rotated(i)
      \/ tokens' = Issued(Me, 1, FALSE, Nobody)
      \/ tokens' = RevokedAll(Me)
  <2>1. ASSUME NEW m \in wire, AnswerRefresh(m), m.cookie # 0 PROVE m.cookie \in DOMAIN tokens
    BY <1>4, <2>1 DEF TabInv, MessageOK, Rows
  <2>2. ASSUME NEW m \in wire, AnswerRefresh(m)
        PROVE  UNCHANGED tokens \/ \E i \in DOMAIN tokens : tokens' = Rotated(i)
    BY <2>1, <2>2 DEF AnswerRefresh
  <2>3. ASSUME NEW m, Page(m) \/ Lose(m) PROVE UNCHANGED tokens
    BY <2>3 DEF Page, Lose, CallArrives, RefreshArrives, LoadArrives, LoginArrives, LogoutArrives
  <2>4. ASSUME NEW m, AnswerCall(m) \/ AnswerLogin(m) \/ AnswerLogout(m)
        PROVE  tokens' \in {tokens, Issued(Me, 1, FALSE, Nobody), RevokedAll(Me)}
    BY <2>4 DEF AnswerCall, AnswerLogin, AnswerLogout
  <2> QED
    BY <2>2, <2>3, <2>4 DEF Next, Server, vars, Expire, Login, Logout, Send, Refresh
<1>6. Len(tokens') >= 1 /\ (1 \in OpenSessions' => 1 \in OpenSessions)
  <2>1. CASE UNCHANGED tokens
    BY <1>2, <2>1 DEF LiveOf, RowsOf, Live
  <2>2. CASE \E i \in DOMAIN tokens : tokens' = Rotated(i)
    <3>1. PICK i \in DOMAIN tokens : tokens' = Rotated(i)
      BY <2>2
    <3>2. Len(tokens') \in {Len(tokens), Len(tokens) + 1} /\ OpenSessions' = OpenSessions
      BY <1>1, <3>1, RotatedKeeps
    <3> QED
      BY <1>4, <3>2
  <2>3. CASE tokens' = Issued(Me, 1, FALSE, Nobody)
    <3>1. 1 \in Nat /\ FALSE \in BOOLEAN /\ Me \in User /\ Nobody \in User \cup {Nobody}
      BY TabAssumption
    <3>2. Len(tokens') = Len(tokens) + 1 /\ OpenSessions' = OpenSessions \cup {Len(tokens) + 1}
      BY <1>1, <2>3, <3>1, IssuedBegins
    <3>3. Len(tokens) + 1 # 1 /\ Len(tokens) + 1 >= 1
      BY <1>4
    <3> QED
      BY <3>2, <3>3
  <2>4. CASE tokens' = RevokedAll(Me)
    BY <1>1, <1>4, <2>4, RevokedAllEnds
  <2> QED
    BY <1>5, <2>1, <2>2, <2>3, <2>4
<1> QED
  BY <1>2, <1>3, <1>6 DEF Going, Grows

\* A sign-out that was asked for is answered, which ends the session.
KeepsOut == Waits' /\ (SigningOut => SigningOut')

LEMMA FrameOut ==
  ASSUME Waits, \A n \in wire' : n \in wire \/ n.status = "asked",
         \A n \in wire : n.what = "logout" /\ n.status = "asked" => \E o \in wire' : o.what = "logout"
  PROVE  KeepsOut
BY DEF KeepsOut, Waits, SigningOut

LEMMA SignedOutWaits ==
  ASSUME TabInv, Waits, NEW m \in wire, m.status # "asked", NEW t, SignedOut(t, wire \ {m})
  PROVE  KeepsOut
<1> DEFINE rest == wire \ {m}
<1>1. CASE view[t] = "login"
  <2>1. wire' = rest
    BY <1>1 DEF SignedOut
  <2> QED
    BY <2>1, FrameOut
<1>2. CASE view[t] # "login"
  <2>1. wire' = {n \in rest : n.tab # t \/ n.orphan}
                  \cup {[n EXCEPT !.orphan = TRUE] : n \in
                          {n \in rest : n.tab = t /\ n.status = "asked" /\ ~ n.orphan}}
                  \cup {Request(t, "me", jar')}
    BY <1>2 DEF SignedOut
  <2>2. ASSUME NEW n \in rest
        PROVE  /\ [n EXCEPT !.orphan = TRUE].status = n.status
               /\ [n EXCEPT !.orphan = TRUE].what = n.what
    <3>1. n \in Message
      BY DEF TabInv, MessageOK
    <3> QED
      BY <3>1 DEF Message
  <2>3. Request(t, "me", jar').status = "asked"
    BY DEF Request
  <2>4. \A n \in wire' : n \in wire \/ n.status = "asked"
    BY <2>1, <2>2, <2>3
  <2>5. ASSUME NEW n \in wire, n.what = "logout", n.status = "asked"
        PROVE  \E o \in wire' : o.what = "logout"
    <3>1. n \in rest
      BY <2>5
    <3>2. n \in wire' \/ [n EXCEPT !.orphan = TRUE] \in wire'
      BY <2>1, <2>5, <3>1
    <3> QED
      BY <2>2, <2>5, <3>1, <3>2
  <2> QED
    BY <2>4, <2>5, FrameOut
<1> QED
  BY <1>1, <1>2

LEMMA PageWaits ==
  ASSUME TabInv, Waits, NEW m \in wire, Page(m)
  PROVE  KeepsOut
<1>1. m.status # "asked"
  BY DEF Page, CallArrives, RefreshArrives, LoadArrives, LoginArrives, LogoutArrives, Arrives
<1>2. ASSUME NEW sent, wire' = (wire \ {m}) \cup sent, \A n \in sent : n.status = "asked"
      PROVE  KeepsOut
  <2>1. \A n \in wire' : n \in wire \/ n.status = "asked"
    BY <1>2
  <2>2. \A n \in wire : n.status = "asked" => n \in wire'
    BY <1>1, <1>2
  <2> QED
    BY <2>1, <2>2, FrameOut
<1>0. wire' = wire \ {m} => KeepsOut
  BY <1>1, FrameOut
<1>3. \A what, t : Request(t, what, jar').status = "asked"
  BY DEF Request
<1>4. CASE SignedOut(m.tab, wire \ {m})
  BY <1>1, <1>4, SignedOutWaits
<1>5. CASE CallArrives(m) /\ ~ SignedOut(m.tab, wire \ {m})
  <2>1. wire' = wire \ {m}
    BY <1>5 DEF CallArrives
  <2> QED
    BY <1>0, <2>1
<1>6. CASE RefreshArrives(m) /\ ~ SignedOut(m.tab, wire \ {m})
  <2> DEFINE sent == {Request(m.tab, c, jar') : c \in {c \in Call : call[m.tab][c] = "waiting"}}
  <2>1. wire' = (wire \ {m}) \cup sent
    BY <1>6 DEF RefreshArrives
  <2>2. \A n \in sent : n.status = "asked"
    BY <1>3
  <2> HIDE DEF sent
  <2> QED
    BY <1>2, <2>1, <2>2
<1>7. CASE LoadArrives(m)
  <2> DEFINE sent == CASE m.status = "ok" /\ m.what = "meRefresh" -> {Request(m.tab, "meAgain", jar')}
                       [] m.status # "ok" /\ m.what = "me" -> {Request(m.tab, "meRefresh", jar')}
                       [] OTHER -> {}
  <2>1. wire' = (wire \ {m}) \cup sent
    BY <1>7 DEF LoadArrives
  <2>2. sent \subseteq {Request(m.tab, "meAgain", jar'), Request(m.tab, "meRefresh", jar')}
    OBVIOUS
  <2>3. \A n \in sent : n.status = "asked"
    BY <1>3, <2>2
  <2> HIDE DEF sent
  <2> QED
    BY <1>2, <2>1, <2>3
<1>8. CASE LoginArrives(m) \/ LogoutArrives(m)
  <2>1. wire' = wire \ {m}
    BY <1>8 DEF LoginArrives, LogoutArrives
  <2> QED
    BY <1>0, <2>1
<1> QED
  BY <1>4, <1>5, <1>6, <1>7, <1>8 DEF Page

\* The server's answer to a sign-out, and to anything else.
LEMMA ServerWaits ==
  ASSUME TabInv, Waits, NEW m \in wire, Server(m), Going'
  PROVE  KeepsOut
<1>1. CASE AnswerLogout(m)
  <2>1. CASE m.cookie = 0
    <3>1. anonymous' = (anonymous \/ m.cookie = 0)
      BY <1>1 DEF AnswerLogout
    <3> QED
      BY <2>1, <3>1 DEF Going
  <2>2. CASE m.cookie # 0
    <3>1. tokens' = RevokedAll(Me) /\ TokenInv
      BY <1>1, <2>2 DEF AnswerLogout, TabInv
    <3>2. \A i \in DOMAIN tokens : tokens[i].user = Me => tokens'[i].revoked
      BY <3>1, RevokedAllEnds
    <3>3. DOMAIN tokens' = DOMAIN tokens
      BY <3>1 DEF RevokedAll
    <3>4. \A i \in DOMAIN tokens' : tokens'[i].revoked
      BY <3>2, <3>3 DEF TabInv
    <3> QED
      BY <3>4 DEF Going, LiveOf, RowsOf, Live
  <2> QED
    BY <2>1, <2>2
<1>2. CASE AnswerCall(m) \/ AnswerRefresh(m) \/ AnswerLogin(m)
  <2>1. m.what # "logout" /\ m.status = "asked"
    BY <1>2, TabAssumption DEF AnswerCall, AnswerRefresh, AnswerLogin, Refreshes
  <2>2. PICK status \in {"ok", "refused"}, set \in Nat : Answers(m, status, set)
    <3>1. 0 \in Nat /\ Len(tokens') \in Nat
      BY TabStep, TokensAreRows DEF Next, TabInv, TokenInv, Sound
    <3> QED
      BY <1>2, <3>1 DEF AnswerCall, AnswerRefresh, AnswerLogin
  <2>3. \A n \in wire' : n \in wire \/ n.what = m.what
    BY <2>1, <2>2, Answered
  <2>4. \A n \in wire : n.what = "logout" => n \in wire'
    BY <2>1, <2>2 DEF Answers
  <2> QED
    BY <2>1, <2>3, <2>4 DEF KeepsOut, Waits, SigningOut
<1> QED
  BY <1>1, <1>2 DEF Server

LEMMA StillWaits ==
  ASSUME TabInv, Going', Waits, [Next]_vars
  PROVE  KeepsOut
<1>1. CASE Expire \/ UNCHANGED vars
  <2>1. UNCHANGED wire
    BY <1>1 DEF Expire, vars
  <2> QED
    BY <2>1, FrameOut
<1>2. ASSUME NEW m \in wire, Lose(m) PROVE KeepsOut
  BY <1>2 DEF Lose, Going
<1>3. CASE \E t \in Tab : Login(t) \/ Logout(t) \/ \E c \in Call : Send(t, c) \/ Refresh(t, c)
  <2>1. PICK t \in Tab, what \in What : wire' = wire \cup {Request(t, what, jar)} \/ wire' = wire
    BY <1>3 DEF Login, Logout, Send, Refresh, What
  <2>2. Request(t, what, jar).status = "asked"
    BY DEF Request
  <2> QED
    BY <2>1, <2>2, FrameOut
<1>4. CASE \E m \in wire : Server(m) \/ Page(m) \/ Lose(m)
  BY <1>2, <1>4, ServerWaits, PageWaits
<1> QED
  BY <1>1, <1>3, <1>4 DEF Next

-----------------------------------------------------------------------------
(***************************************************************************)
(* The first session goes on.                                              *)
(***************************************************************************)
\* All tokens are of one session, of which one works.
LEMMA OneWorks ==
  ASSUME TabInv, StayInv, NEW i \in DOMAIN tokens, NEW j \in DOMAIN tokens, Live(i), Live(j)
  PROVE  i = j
BY DEF TabInv, TokenInv, Sound, StayInv, Live

LEMMA WireRows ==
  ASSUME TabInv
  PROVE  /\ \A m \in wire : m \in Message /\ m.tab \in Tab /\ m.cookie \in Rows /\ m.set \in Rows
         /\ jar.refresh \in Rows /\ jar.access \in Rows
         /\ \A i \in Rows : i \in Nat /\ (i # 0 => i \in DOMAIN tokens) /\ i # Len(tokens) + 1
<1>1. \A m \in wire : m \in Message /\ m.cookie \in Rows /\ m.set \in Rows
  BY DEF TabInv, MessageOK
<1>2. \A m \in wire : m.tab \in Tab
  BY <1>1 DEF Message
<1>3. jar.refresh \in Rows /\ jar.access \in Rows
  BY DEF TabInv, Cookies
<1>4. \A i \in Rows : i \in Nat /\ (i # 0 => i \in DOMAIN tokens) /\ i # Len(tokens) + 1
  BY TokensAreRows DEF Rows
<1> QED
  BY <1>1, <1>2, <1>3, <1>4

\* A page sends a call.
LEMMA SendStays ==
  ASSUME TabInv, StayInv, NEW t \in Tab, NEW c \in Call, Send(t, c)
  PROVE  StayInv'
<1> DEFINE new == Request(t, c, jar)
<1>1. /\ call[t][c] = "idle" /\ call' = [call EXCEPT ![t][c] = "sent"]
      /\ wire' = wire \cup {new} /\ UNCHANGED <<tokens, jar, view, refreshing, spent>>
  BY DEF Send, history
<1>2. new.tab = t /\ new.what = c /\ ~ new.orphan /\ new.status = "asked"
  BY DEF Request
<1>3. call' \in [Tab -> [Call -> Progress]] /\ call'[t][c] = "sent"
      /\ \A s \in Tab, d \in Call : s # t \/ d # c => call'[s][d] = call[s][d]
  BY <1>1 DEF StayInv, Progress
<1>4. c # "refresh"
  BY TabAssumption
<1> HIDE DEF new
<1>5. \A m \in wire : m.tab # t \/ m.what # c
  BY <1>1 DEF StayInv, CallOK
<1>6. \A m, n \in wire' : m.tab = n.tab /\ m.what = n.what => m = n
  BY <1>1, <1>2, <1>5 DEF StayInv
<1>7. \A m \in wire : m.tab \in Tab
  BY WireRows
<1>8. \A m \in wire' : m.what \in Call => CallOK(m)'
  BY <1>1, <1>2, <1>3, <1>5, <1>7 DEF StayInv, CallOK
<1>9. \A m \in wire' : m.what = "refresh" => RefreshOK(m)'
  <2>1. ASSUME NEW m \in wire, m.what = "refresh" PROVE RefreshOK(m)'
    <3>1. RefreshOK(m)
      BY <2>1 DEF StayInv
    <3> QED
      BY <1>1, <1>2, <1>4, <3>1 DEF RefreshOK, Live, Alive, Beaten
  <2> QED
    BY <1>1, <1>2, <1>4, <2>1
<1> QED
  BY <1>1, <1>2, <1>3, <1>6, <1>8, <1>9 DEF StayInv, Live, OnItsWay

\* A page asks for a refresh, or joins the one under way.
LEMMA RefreshStays ==
  ASSUME TabInv, StayInv, NEW t \in Tab, NEW c \in Call, Refresh(t, c)
  PROVE  StayInv'
<1> DEFINE new == Request(t, "refresh", jar)
<1>1. /\ call[t][c] = "probing" /\ call' = [call EXCEPT ![t][c] = "waiting"]
      /\ refreshing' = refreshing \cup {t}
      /\ UNCHANGED <<tokens, jar, view, spent>>
      /\ wire' = wire \/ (t \notin refreshing /\ wire' = wire \cup {new})
  BY DEF Refresh, history
<1>2. /\ new.tab = t /\ new.what = "refresh" /\ ~ new.orphan /\ new.status = "asked"
      /\ new.cookie = jar.refresh
  BY DEF Request, Refreshes
<1>3. call' \in [Tab -> [Call -> Progress]]
      /\ \A s \in Tab, d \in Call : s # t \/ d # c => call'[s][d] = call[s][d]
  BY <1>1 DEF StayInv, Progress
<1>4. "refresh" \notin Call
  BY TabAssumption
<1> HIDE DEF new
<1>5. \A m \in wire : (m.tab # t \/ m.what # c) /\ (t \notin refreshing => m.tab # t \/ m.what # "refresh")
  <2>1. ASSUME NEW m \in wire, m.tab = t, m.what = c PROVE FALSE
    BY <1>1, <2>1 DEF StayInv, CallOK
  <2>2. ASSUME NEW m \in wire, m.what = "refresh" PROVE m.tab \in refreshing
    BY <2>2 DEF StayInv, RefreshOK
  <2> QED
    BY <2>1, <2>2
<1>6. \A m, n \in wire' : m.tab = n.tab /\ m.what = n.what => m = n
  BY <1>1, <1>2, <1>5 DEF StayInv
<1>7. \A m \in wire : m.tab \in Tab
  BY WireRows
<1>8. \A m \in wire' : m.what \in Call => CallOK(m)'
  BY <1>1, <1>2, <1>3, <1>4, <1>5, <1>7 DEF StayInv, CallOK
<1>9. ASSUME NEW m \in wire, m.what = "refresh" PROVE RefreshOK(m)'
  <2>1. RefreshOK(m)
    BY <1>9 DEF StayInv
  <2> QED
    BY <1>1, <1>2, <2>1 DEF RefreshOK, Live, Alive, Beaten
<1>10. ASSUME t \notin refreshing, NEW m, m = new PROVE RefreshOK(m)'
  <2>1. jar.refresh # 0 /\ (Live(jar.refresh) \/ Beaten(jar.refresh, t))
    <3>1. ASSUME NEW n \in wire, OnItsWay(n) PROVE Beaten(jar.refresh, t)
      BY <1>5, <1>7, <1>10, <3>1 DEF StayInv, RefreshOK, OnItsWay, Beaten
    <3> QED
      BY <3>1 DEF StayInv
  <2> QED
    BY <1>1, <1>2, <1>10, <2>1 DEF RefreshOK, Live, Beaten
<1>11. \A m \in wire' : m.what = "refresh" => RefreshOK(m)'
  BY <1>1, <1>9, <1>10
<1> QED
  BY <1>1, <1>2, <1>3, <1>6, <1>8, <1>11 DEF StayInv, Live, OnItsWay

\* A call is answered.
LEMMA AnswerCallStays ==
  ASSUME TabInv, StayInv, NEW m \in wire, AnswerCall(m)
  PROVE  StayInv'
<1> DEFINE status == IF m.cookie # 0 THEN "ok" ELSE "refused"
           new == [m EXCEPT !.status = status, !.set = 0]
<1>1. /\ ~ m.orphan /\ m.what \in Call /\ CallOK(m) /\ m.what # "refresh"
      /\ UNCHANGED <<tokens, jar, view, call, refreshing, spent>>
      /\ Answers(m, status, 0)
  BY TabAssumption DEF AnswerCall, history, StayInv
<1>2. wire' = (wire \ {m}) \cup {new} /\ m \in Message
  BY <1>1, WireRows DEF Answers
<1>3. /\ new.tab = m.tab /\ new.what = m.what /\ ~ new.orphan /\ new.cookie = m.cookie
      /\ m.cookie # 0 => new.status = "ok"
  BY <1>1, <1>2 DEF Message
<1> HIDE DEF new
<1>4. \A n, o \in wire' : n.tab = o.tab /\ n.what = o.what => n = o
  BY <1>2, <1>3 DEF StayInv
<1>5. \A n \in wire' : n.what \in Call => CallOK(n)'
  BY <1>1, <1>2, <1>3 DEF StayInv, CallOK
<1>6. ASSUME NEW n \in wire', n.what = "refresh" PROVE RefreshOK(n)'
  <2>1. n \in wire /\ RefreshOK(n)
    BY <1>1, <1>2, <1>3, <1>6 DEF StayInv
  <2> QED
    BY <1>1, <1>2, <1>3, <2>1 DEF RefreshOK, Live, Alive, Beaten
<1>7. \A n \in wire : OnItsWay(n) => n \in wire'
  BY <1>1, <1>2 DEF OnItsWay
<1>8. (Live(jar.refresh) \/ \E n \in wire : OnItsWay(n))'
  BY <1>1, <1>7 DEF StayInv, Live, OnItsWay
<1> QED
  BY <1>1, <1>2, <1>3, <1>4, <1>5, <1>6, <1>8 DEF StayInv

\* The rows after a rotation.
LEMMA RotatedRows ==
  ASSUME TabInv, NEW i \in DOMAIN tokens, Live(i), tokens' = Rotated(i)
  PROVE  /\ Len(tokens') = Len(tokens) + 1 /\ DOMAIN tokens' = DOMAIN tokens \cup {Len(tokens')}
         /\ \A j \in DOMAIN tokens : /\ tokens'[j].session = tokens[j].session
                                     /\ tokens'[j].revoked <=> j = i \/ tokens[j].revoked
         /\ tokens'[Len(tokens')].session = tokens[i].session /\ ~ tokens'[Len(tokens')].revoked
<1> DEFINE spentOnce == [tokens EXCEPT ![i].revoked = TRUE]
<1>1. tokens \in Seq(Row) /\ Len(tokens) \in Nat /\ DOMAIN tokens = 1 .. Len(tokens)
      /\ \A j \in DOMAIN tokens : tokens[j] \in Row
  BY TokensAreRows DEF TabInv, TokenInv, Sound
<1>2. tokens' = Append(spentOnce, tokens[i]) /\ ~ tokens[i].revoked
  BY DEF Rotated, Live
<1>3. spentOnce \in Seq(Row) /\ Len(spentOnce) = Len(tokens) /\ DOMAIN spentOnce = DOMAIN tokens
  <2>1. [tokens[i] EXCEPT !.revoked = TRUE] \in Row
    BY <1>1 DEF Row
  <2> QED
    BY <1>1, <2>1
<1>4. \A j \in DOMAIN tokens : /\ spentOnce[j].session = tokens[j].session
                               /\ spentOnce[j].revoked <=> j = i \/ tokens[j].revoked
  BY <1>1 DEF Row
<1> HIDE DEF spentOnce
<1>5. /\ Len(tokens') = Len(tokens) + 1 /\ tokens'[Len(tokens) + 1] = tokens[i]
      /\ \A j \in DOMAIN tokens : tokens'[j] = spentOnce[j]
      /\ DOMAIN tokens' = 1 .. Len(tokens) + 1
  BY <1>1, <1>2, <1>3
<1> QED
  BY <1>1, <1>2, <1>4, <1>5

\* A refresh is answered: with a token, or it is seen that another tab was first.
LEMMA AnswerRefreshStays ==
  ASSUME TabInv, StayInv, NEW m \in wire, AnswerRefresh(m), Going'
  PROVE  StayInv'
<1> DEFINE i == m.cookie
           n == Len(tokens')
           new == [m EXCEPT !.status = "ok", !.set = n]
<1>1. /\ ~ m.orphan /\ m.status = "asked" /\ m.what = "refresh" /\ RefreshOK(m)
      /\ UNCHANGED <<jar, view, call, refreshing>>
  BY TabAssumption DEF AnswerRefresh, StayInv, Refreshes
<1>2. /\ i # 0 /\ (Live(i) \/ Beaten(i, m.tab)) /\ i \in DOMAIN tokens /\ m.tab \in Tab /\ m \in Message
      /\ m.tab \in refreshing
  BY <1>1, WireRows DEF RefreshOK
<1>3. Live(i)
  <2>1. raced' = (raced \/ \E t \in Tab \ {m.tab} : <<i, t>> \in spent)
    BY DEF AnswerRefresh
  <2>2. ~ raced'
    BY DEF Going
  <2>3. ~ Beaten(i, m.tab)
    BY <2>1, <2>2, Zenon DEF Beaten
  <2> QED
    BY <1>2, <2>3
<1>4. /\ tokens' = Rotated(i) /\ Answers(m, "ok", n) /\ spent' = spent \cup {<<i, m.tab>>}
  BY <1>2, <1>3 DEF AnswerRefresh, Alive
<1>5. /\ n = Len(tokens) + 1 /\ DOMAIN tokens' = DOMAIN tokens \cup {n} /\ n \in Nat /\ n # 0
      /\ \A j \in DOMAIN tokens : /\ tokens'[j].session = tokens[j].session
                                  /\ tokens'[j].revoked <=> j = i \/ tokens[j].revoked
      /\ tokens'[n].session = tokens[i].session /\ ~ tokens'[n].revoked
  <2>1. /\ Len(tokens') = Len(tokens) + 1 /\ DOMAIN tokens' = DOMAIN tokens \cup {Len(tokens')}
        /\ \A j \in DOMAIN tokens : /\ tokens'[j].session = tokens[j].session
                                    /\ tokens'[j].revoked <=> j = i \/ tokens[j].revoked
        /\ tokens'[Len(tokens')].session = tokens[i].session /\ ~ tokens'[Len(tokens')].revoked
    BY <1>2, <1>3, <1>4, RotatedRows
  <2>2. Len(tokens) \in Nat
    BY TokensAreRows
  <2>3. n \in Nat /\ n # 0
    BY <2>1, <2>2
  <2> QED
    BY <2>1, <2>3
<1>6. PICK o : o = new
  OBVIOUS
<1>7. wire' = (wire \ {m}) \cup {o}
  BY <1>1, <1>4, <1>6 DEF Answers
<1>8. /\ o.tab = m.tab /\ o.what = "refresh" /\ ~ o.orphan /\ o.status = "ok" /\ o.set = n
  BY <1>1, <1>2, <1>5, <1>6 DEF Message
<1> HIDE DEF new, n
<1>9. \A r \in wire : ~ OnItsWay(r)
  <2>1. ASSUME NEW r \in wire, OnItsWay(r) PROVE FALSE
    <3>1. RefreshOK(r) /\ r.what = "refresh" /\ r.status = "ok"
      BY <2>1 DEF StayInv, OnItsWay
    <3>2. Alive(r.set) /\ i # r.set
      BY <1>1, <3>1 DEF RefreshOK
    <3>3. r.set \in DOMAIN tokens /\ Live(r.set)
      BY <3>2, WireRows DEF Alive
    <3> QED
      BY <1>2, <1>3, <3>2, <3>3, OneWorks
  <2> QED
    BY <2>1
<1>10. jar.refresh = i
  <2>1. jar.refresh \in DOMAIN tokens /\ Live(jar.refresh)
    BY <1>9, WireRows DEF StayInv
  <2> QED
    BY <1>2, <1>3, <2>1, OneWorks
<1>11. \A s, r \in wire' : s.tab = r.tab /\ s.what = r.what => s = r
  BY <1>1, <1>7, <1>8 DEF StayInv
<1>12. \A r \in wire' : r.what \in Call => CallOK(r)'
  BY <1>1, <1>7, <1>8, TabAssumption DEF StayInv, CallOK
<1>13. ASSUME NEW r \in wire \ {m}, r.what = "refresh"
       PROVE  RefreshOK(r)' /\ r.status = "asked" /\ r.cookie # n
  <2>1. /\ RefreshOK(r) /\ r.status = "asked" /\ r.cookie # 0 /\ r.cookie \in DOMAIN tokens
        /\ r.tab # m.tab /\ r.cookie # n
    BY <1>1, <1>5, <1>9, <1>13, WireRows DEF StayInv, RefreshOK, OnItsWay
  <2>2. CASE Beaten(r.cookie, r.tab)
    BY <1>1, <1>4, <2>1, <2>2 DEF RefreshOK, Beaten
  <2>3. CASE Live(r.cookie)
    <3>1. r.cookie = i
      BY <1>2, <1>3, <2>1, <2>3, OneWorks
    <3>2. Beaten(r.cookie, r.tab)'
      BY <1>2, <1>4, <2>1, <3>1 DEF Beaten
    <3> QED
      BY <1>1, <2>1, <3>2 DEF RefreshOK
  <2> QED
    BY <2>1, <2>2, <2>3 DEF RefreshOK
<1>14. RefreshOK(o)'
  <2>1. Alive(o.set)'
    BY <1>5, <1>8 DEF Alive, Live
  <2>2. jar'.refresh # o.set /\ <<jar'.refresh, o.tab>> \in spent'
    BY <1>1, <1>4, <1>5, <1>8, <1>10, WireRows
  <2>3. \A r \in wire' : r.what = "refresh" /\ r # o => r.status = "asked" /\ r.cookie # o.set
    BY <1>7, <1>8, <1>13
  <2> QED
    BY <1>1, <1>2, <1>8, <2>1, <2>2, <2>3 DEF RefreshOK
<1>15. \A r \in wire' : /\ ~ r.orphan /\ r.what \in Call \cup {"refresh"}
                        /\ r.what = "refresh" => RefreshOK(r)'
  BY <1>7, <1>8, <1>13, <1>14 DEF StayInv
<1>16. \E r \in wire' : OnItsWay(r)
  BY <1>7, <1>8 DEF OnItsWay
<1>17. \A j \in DOMAIN tokens' : tokens'[j].session = 1
  BY <1>2, <1>5 DEF StayInv
<1>18. jar'.refresh # 0 /\ (\A t \in Tab : view'[t] = "app") /\ call' \in [Tab -> [Call -> Progress]]
  BY <1>1 DEF StayInv
<1> QED
  BY <1>11, <1>12, <1>15, <1>16, <1>17, <1>18 DEF StayInv, OnItsWay

\* An answer to a call arrives, which is not the second refusal.
LEMMA CallArrivesStays ==
  ASSUME TabInv, StayInv, NEW m \in wire, CallArrives(m)
  PROVE  StayInv'
<1> DEFINE t == m.tab
           c == m.what
<1>1. /\ c \in Call /\ c # "refresh" /\ CallOK(m) /\ t \in Tab /\ SetCookies(m)
      /\ UNCHANGED <<tokens, spent>>
  BY WireRows, TabAssumption DEF CallArrives, Arrives, StayInv
<1>2. UNCHANGED jar
  BY <1>1, TabAssumption DEF SetCookies, Refreshes
<1>3. ~ (m.status = "refused" /\ call[t][c] = "resent")
  BY <1>1 DEF CallOK
<1>4. /\ call' = [call EXCEPT ![t][c] = IF m.status = "refused" THEN "probing" ELSE "done"]
      /\ wire' = wire \ {m} /\ UNCHANGED <<view, refreshing>>
  BY <1>3 DEF CallArrives
<1>5. call' \in [Tab -> [Call -> Progress]]
      /\ \A s \in Tab, d \in Call : s # t \/ d # c => call'[s][d] = call[s][d]
  BY <1>1, <1>4 DEF StayInv, Progress
<1>6. ASSUME NEW n \in wire', n.what \in Call PROVE CallOK(n)'
  <2>1. CallOK(n) /\ n.tab \in Tab /\ (n.tab # t \/ n.what # c)
    BY <1>4, <1>6, WireRows DEF StayInv
  <2> QED
    BY <1>5, <1>6, <2>1 DEF CallOK
<1>7. ASSUME NEW n \in wire', n.what = "refresh" PROVE RefreshOK(n)'
  <2>1. RefreshOK(n)
    BY <1>4, <1>7 DEF StayInv
  <2> QED
    BY <1>1, <1>2, <1>4, <2>1 DEF RefreshOK, Live, Alive, Beaten
<1>8. \A n \in wire : OnItsWay(n) => n \in wire'
  BY <1>1, <1>4 DEF OnItsWay
<1>9. (Live(jar.refresh) \/ \E n \in wire : OnItsWay(n))'
  BY <1>1, <1>2, <1>8 DEF StayInv, Live, OnItsWay
<1> QED
  BY <1>1, <1>2, <1>4, <1>5, <1>6, <1>7, <1>9 DEF StayInv

\* The answer to a refresh arrives, and the calls that waited for it go again.
LEMMA RefreshArrivesStays ==
  ASSUME TabInv, StayInv, NEW m \in wire, RefreshArrives(m)
  PROVE  StayInv'
<1> DEFINE t == m.tab
<1>1. /\ RefreshOK(m) /\ t \in Tab /\ m.what = "refresh" /\ m.status = "ok" /\ SetCookies(m)
      /\ UNCHANGED <<tokens, spent>>
  BY WireRows DEF RefreshArrives, Arrives, StayInv, RefreshOK
<1>2. /\ Alive(m.set) /\ \A n \in wire : n.what = "refresh" /\ n # m => n.status = "asked"
  BY <1>1 DEF RefreshOK
<1>3. jar' = [access |-> m.set, refresh |-> m.set]
  BY <1>1 DEF SetCookies, Refreshes
<1>4. jar'.access = m.set /\ jar'.refresh = m.set /\ m.set # 0
  BY <1>2, <1>3 DEF Alive
<1>5. PICK waiting : waiting = {c \in Call : call[t][c] = "waiting"}
  OBVIOUS
<1>6. PICK sent : sent = {Request(t, c, jar') : c \in waiting}
  OBVIOUS
<1>7. /\ call' = [call EXCEPT ![t] = [c \in Call |-> IF c \in waiting THEN "resent" ELSE @[c]]]
      /\ wire' = (wire \ {m}) \cup sent /\ refreshing' = refreshing \ {t} /\ UNCHANGED view
  BY <1>1, <1>5, <1>6 DEF RefreshArrives
<1>8. /\ call' \in [Tab -> [Call -> Progress]]
      /\ \A s \in Tab, d \in Call :
           call'[s][d] = IF s = t /\ d \in waiting THEN "resent" ELSE call[s][d]
  BY <1>1, <1>5, <1>7 DEF StayInv, Progress
<1>9. \A n \in sent : /\ n.tab = t /\ n.what \in waiting /\ ~ n.orphan /\ n.status = "asked"
                      /\ n.cookie # 0 /\ n = Request(t, n.what, jar')
  <2>1. \A c \in waiting : c \notin Refreshes
    BY <1>5, TabAssumption DEF Refreshes
  <2>2. \A c \in waiting : LET n == Request(t, c, jar') IN
          /\ n.tab = t /\ n.what = c /\ ~ n.orphan /\ n.status = "asked" /\ n.cookie = m.set
    BY <1>4, <2>1 DEF Request
  <2> QED
    BY <1>4, <1>6, <2>2
<1>10. waiting \subseteq Call /\ "refresh" \notin Call
  BY <1>5, TabAssumption
<1>11. \A n \in wire : n.tab = t => n.what \notin waiting
  BY <1>5 DEF StayInv, CallOK
<1>12. ASSUME NEW n \in wire', NEW o \in wire', n.tab = o.tab, n.what = o.what PROVE n = o
  BY <1>7, <1>9, <1>11, <1>12 DEF StayInv
<1>13. ASSUME NEW n \in wire', n.what \in Call PROVE CallOK(n)'
  <2>1. CASE n \in sent
    BY <1>1, <1>8, <1>9, <1>10, <2>1 DEF CallOK
  <2>2. CASE n \in wire
    <3>1. CallOK(n) /\ n.tab \in Tab
      BY <1>13, <2>2, WireRows DEF StayInv
    <3>2. call'[n.tab][n.what] = call[n.tab][n.what]
      BY <1>8, <1>11, <1>13, <2>2, <3>1
    <3> QED
      BY <3>1, <3>2 DEF CallOK
  <2> QED
    BY <1>7, <2>1, <2>2
<1>14. ASSUME NEW n \in wire', n.what = "refresh" PROVE RefreshOK(n)'
  <2>1. n \in wire /\ n # m
    BY <1>7, <1>9, <1>10, <1>14
  <2>2. RefreshOK(n) /\ n.status = "asked" /\ n.tab # t
    BY <1>1, <1>2, <1>14, <2>1 DEF StayInv
  <2> QED
    BY <1>1, <1>7, <2>2 DEF RefreshOK, Live, Beaten
<1>15. Live(jar.refresh)'
  BY <1>1, <1>2, <1>4 DEF Alive, Live
<1>16. \A n \in wire' : ~ n.orphan /\ n.what \in Call \cup {"refresh"}
  BY <1>7, <1>9, <1>10 DEF StayInv
<1> QED
  BY <1>1, <1>4, <1>7, <1>8, <1>12, <1>13, <1>14, <1>15, <1>16 DEF StayInv

LEMMA SessionStep == SessionInv /\ [Next]_vars => SessionInv'
<1> SUFFICES ASSUME SessionInv, [Next]_vars PROVE SessionInv'
  OBVIOUS
<1>1. TabInv /\ TabInv' /\ Len(tokens') >= 1 /\ (Going' => Going)
  BY TabStep, NotAgain DEF SessionInv
<1>2. Going' => KeepsOut
  BY <1>1, StillWaits DEF SessionInv
<1>3. ASSUME Going', ~ SigningOut' PROVE StayInv'
  <2>1. StayInv /\ \A m \in wire : m.what # "logout"
    BY <1>1, <1>2, <1>3 DEF SessionInv, KeepsOut, SigningOut
  <2>2. \A m \in wire : m.what \in Call \cup {"refresh"}
    BY <2>1 DEF StayInv
  <2>3. ASSUME NEW m \in wire, Server(m) PROVE StayInv'
    <3>1. ~ AnswerLogin(m) /\ ~ AnswerLogout(m)
      BY <2>2, TabAssumption DEF AnswerLogin, AnswerLogout
    <3> QED
      BY <1>1, <1>3, <2>1, <2>3, <3>1, AnswerCallStays, AnswerRefreshStays DEF Server
  <2>4. ASSUME NEW m \in wire, Page(m) PROVE StayInv'
    <3>1. ~ LoadArrives(m) /\ ~ LoginArrives(m) /\ ~ LogoutArrives(m)
      BY <2>2, TabAssumption DEF LoadArrives, LoginArrives, LogoutArrives, Loading
    <3> QED
      BY <1>1, <2>1, <2>4, <3>1, CallArrivesStays, RefreshArrivesStays DEF Page
  <2>5. ASSUME NEW m \in wire, Lose(m) PROVE FALSE
    BY <1>3, <2>5 DEF Lose, Going
  <2>6. ASSUME NEW t \in Tab PROVE ~ Login(t) /\ ~ Logout(t)
    <3>1. ~ Login(t)
      BY <2>1 DEF StayInv, Login
    <3>2. ASSUME Logout(t) PROVE FALSE
      <4>1. Request(t, "logout", jar) \in wire'
        BY <3>2 DEF Logout
      <4>2. Request(t, "logout", jar).what = "logout"
        BY DEF Request
      <4> QED
        BY <1>3, <4>1, <4>2 DEF SigningOut
    <3> QED
      BY <3>1, <3>2
  <2>7. ASSUME NEW t \in Tab, NEW c \in Call, Send(t, c) \/ Refresh(t, c) PROVE StayInv'
    BY <1>1, <2>1, <2>7, SendStays, RefreshStays
  <2>8. CASE Expire \/ UNCHANGED vars
    <3>1. UNCHANGED <<tokens, view, call, refreshing, wire, spent>> /\ jar'.refresh = jar.refresh
      BY <1>1, <2>8 DEF Expire, vars, history, TabInv, Cookies
    <3>2. ASSUME NEW m \in wire, m.what = "refresh" PROVE RefreshOK(m)'
      <4>1. RefreshOK(m)
        BY <2>1, <3>2 DEF StayInv
      <4> QED
        BY <3>1, <4>1 DEF RefreshOK, Live, Alive, Beaten
    <3>3. \A m \in wire : m.what \in Call => CallOK(m)'
      BY <2>1, <3>1 DEF StayInv, CallOK
    <3> QED
      BY <2>1, <3>1, <3>2, <3>3 DEF StayInv, Live, OnItsWay
  <2> QED
    BY <2>3, <2>4, <2>5, <2>6, <2>7, <2>8 DEF Next
<1> QED
  BY <1>1, <1>2, <1>3 DEF SessionInv, KeepsOut

(***************************************************************************)
(* While the session lives, nobody signs out and nothing is lost, no tab   *)
(* is sent to the sign-in, and at rest the cookie holds the token that     *)
(* works: for any number of tabs and calls, however they expire, refresh   *)
(* and retry, unless two tabs refreshed with one token (api/auth.ts).      *)
(***************************************************************************)
THEOREM NobodyIsThrownOut == Spec => []StaysSignedIn
<1>1. SessionInv => StaysSignedIn
  BY DEF SessionInv, StayInv, StaysSignedIn, Going, Quiet, Alive
<1> QED
  BY <1>1, SessionInit, SessionStep, PTL DEF Spec

-----------------------------------------------------------------------------
(***************************************************************************)
(* The tokens of a request.  A write is under way once at most, and the    *)
(* request is the one that its state tells of: a token that was asked for  *)
(* again is asked for with the cookie there is, and a write that goes      *)
(* again bears what the server will accept.                                *)
(***************************************************************************)
PostOK(m) ==
  /\ DOMAIN m = {"tab", "for", "cookie", "token"}
  /\ m.tab \in Tabs /\ m.for \in Write \cup {"first"} /\ m.cookie \in Nat

TokenTypes ==
  /\ browser \in Nat /\ browsers \in Nat
  /\ \A m \in post : PostOK(m)
  /\ write \in [Tabs -> [Write -> WriteState]]

SentOnce ==
  \A m, n \in post : m.tab = n.tab /\ m.for = n.for /\ m.for \in Write => m = n

Unlucky(m) == <<m.tab, m.for>> \in unlucky

Carries(m) ==
  LET state == write[m.tab][m.for] IN
    /\ state \in {"sent", "renews", "resent"}
    /\ state = "renews" => m.cookie = browser \/ Unlucky(m)
    /\ state = "resent" => IsValidToken(m) \/ Unlucky(m)

WritesCarry == \A m \in post : m.for \in Write => Carries(m)

CsrfInv == TokenTypes /\ SentOnce /\ WritesCarry /\ WritesGetThrough

CsrfNext ==
  \/ CsrfStep
  \/ \E t \in Tabs : LeavePage(t) \/ \E w \in Write : BeginWrite(t, w)

\* No request is under way at first.
LEMMA CsrfBegins == CsrfInit => CsrfInv
BY DEF CsrfInit, CsrfInv, TokenTypes, SentOnce, WritesCarry, WritesGetThrough, WriteState

\* The cookie is a number, and writes that ask for a token when it changes are unlucky.
LEMMA TokenIssued ==
  ASSUME CsrfInv, NEW m \in post, Issue(m)
  PROVE  /\ browser' \in Nat /\ browsers' \in Nat /\ IssuedFor(m) \in Nat
         /\ m.cookie = 0 => browser' = IssuedFor(m) /\ browser' # 0
         /\ m.cookie # 0 => browser' = browser /\ IssuedFor(m) = m.cookie
         /\ unlucky \subseteq unlucky'
         /\ \A t \in Tabs, w \in Write :
              write[t][w] = "renews" /\ <<t, w>> # <<m.tab, m.for>> =>
                 browser' = browser \/ <<t, w>> \in unlucky'
BY DEF Issue, IssuedFor, Overtakes, CsrfInv, TokenTypes, PostOK

\* Each step of the tokens.
LEMMA CsrfKeeps ==
  ASSUME CsrfInv, CsrfNext
  PROVE  CsrfInv'
<1>0. TokenTypes /\ SentOnce /\ WritesCarry /\ WritesGetThrough
  BY DEF CsrfInv
<1>w. \A t \in Tabs : write[t] \in [Write -> WriteState]
  BY <1>0 DEF TokenTypes
<1>1. ASSUME NEW t \in Tabs, NEW w \in Write, BeginWrite(t, w)
      PROVE  CsrfInv'
  <2>0. /\ write' \in [Tabs -> [Write -> WriteState]]
        /\ \A s \in Tabs, v \in Write : <<s, v>> # <<t, w>> => write'[s][v] = write[s][v]
    BY <1>0, <1>1, <1>w DEF BeginWrite, TokenTypes, WriteState
  <2>1. CASE token[t] # 0
    <3>0. write'[t][w] = "sent" /\ post' = post \cup {Put(t, w, token[t])}
      BY <1>0, <1>1, <1>w, <2>1 DEF BeginWrite, TokenTypes
    <3>n. \A m \in post : ~ (m.tab = t /\ m.for = w)
      BY <1>0, <1>1 DEF BeginWrite, WritesCarry, Carries
    <3>1. TokenTypes'
      BY <1>0, <1>1, <2>0, <3>0 DEF BeginWrite, TokenTypes, PostOK, Put
    <3>2. SentOnce'
      BY <1>0, <3>0, <3>n DEF SentOnce, Put
    <3>3. WritesCarry'
      BY <1>0, <1>1, <2>0, <3>0, <3>n DEF BeginWrite, WritesCarry, Carries, Unlucky, IsValidToken,
           Put, TokenTypes, PostOK
    <3>4. WritesGetThrough'
      BY <1>0, <1>1, <2>0, <3>0 DEF BeginWrite, WritesGetThrough
    <3> QED BY <3>1, <3>2, <3>3, <3>4 DEF CsrfInv
  <2>2. CASE token[t] = 0
    <3>0. /\ write'[t][w] = "waits" /\ post \subseteq post'
          /\ \A m \in post' \ post : m = Ask(t, "first")
      BY <1>0, <1>1, <1>w, <2>2 DEF BeginWrite, TokenTypes
    <3>n. \A m \in post : ~ (m.tab = t /\ m.for = w)
      BY <1>0, <1>1 DEF BeginWrite, WritesCarry, Carries
    <3>1. TokenTypes'
      BY <1>0, <1>1, <2>0, <3>0 DEF BeginWrite, TokenTypes, PostOK, Ask
    <3>2. SentOnce'
      BY <1>0, <3>0, CsrfAssumption DEF SentOnce, Ask
    <3>3. WritesCarry'
      BY <1>0, <1>1, <2>0, <3>0, <3>n, CsrfAssumption DEF BeginWrite, WritesCarry, Carries,
           Unlucky, IsValidToken, Ask, TokenTypes, PostOK
    <3>4. WritesGetThrough'
      BY <1>0, <1>1, <2>0, <3>0 DEF BeginWrite, WritesGetThrough
    <3> QED BY <3>1, <3>2, <3>3, <3>4 DEF CsrfInv
  <2> QED BY <2>1, <2>2
<1>2. ASSUME NEW m \in post, FirstArrives(m)
      PROVE  CsrfInv'
  <2>0. m.tab \in Tabs /\ m.for = "first" /\ Issue(m)
    BY <1>0, <1>2 DEF FirstArrives, TokenTypes, PostOK
  <2>1. /\ browser' \in Nat /\ browsers' \in Nat /\ unlucky \subseteq unlucky'
        /\ \A t \in Tabs, w \in Write : write[t][w] = "renews" =>
             browser' = browser \/ <<t, w>> \in unlucky'
    BY <2>0, TokenIssued, CsrfAssumption
  <2>2. /\ write' \in [Tabs -> [Write -> WriteState]]
        /\ \A t \in Tabs, w \in Write :
             write'[t][w] = IF t = m.tab /\ write[t][w] = "waits" THEN "sent" ELSE write[t][w]
    BY <1>0, <1>2, <1>w, <2>0 DEF FirstArrives, TokenTypes, WriteState
  <2>3. /\ \A n \in post' : n \in post \/ (PostOK(n) /\ n.tab = m.tab /\ n.for \in Waiting(m.tab))
        /\ \A n, o \in post' \ post : n.for = o.for => n = o
    BY <1>2, <2>0, <2>1 DEF FirstArrives, PostOK, Waiting
  <2>n. \A n \in post : ~ (n.tab = m.tab /\ n.for \in Waiting(m.tab))
    BY <1>0 DEF WritesCarry, Carries, Waiting
  <2>4. TokenTypes'
    BY <1>0, <1>2, <2>1, <2>2, <2>3 DEF TokenTypes, PostOK
  <2>5. SentOnce'
    BY <1>0, <2>3, <2>n DEF SentOnce
  <2>6. WritesCarry'
    BY <1>0, <2>0, <2>1, <2>2, <2>3 DEF WritesCarry, Carries, Unlucky, IsValidToken, Waiting,
         TokenTypes, PostOK
  <2>7. WritesGetThrough'
    BY <1>0, <2>1, <2>2 DEF WritesGetThrough
  <2> QED BY <2>4, <2>5, <2>6, <2>7 DEF CsrfInv
<1>3. ASSUME NEW m \in post, Limited(m)
      PROVE  CsrfInv'
  <2> DEFINE failing == IF m.for = "first" THEN Waiting(m.tab) ELSE {m.for}
  <2>0. m.tab \in Tabs /\ UNCHANGED <<browser, browsers, unlucky>> /\ post' = post \ {m}
    BY <1>0, <1>3 DEF Limited, TokenTypes, PostOK
  <2>2. /\ write' \in [Tabs -> [Write -> WriteState]]
        /\ \A t \in Tabs, w \in Write :
             write'[t][w] = IF t = m.tab /\ w \in failing THEN "limited" ELSE write[t][w]
    BY <1>0, <1>3, <1>w, <2>0 DEF Limited, TokenTypes, WriteState
  <2>n. \A n \in post' : n.for \in Write => ~ (n.tab = m.tab /\ n.for \in failing)
    BY <1>0, <2>0 DEF WritesCarry, Carries, Waiting, SentOnce
  <2>4. TokenTypes'
    BY <1>0, <2>0, <2>2 DEF TokenTypes, PostOK
  <2>5. SentOnce'
    BY <1>0, <2>0 DEF SentOnce
  <2>6. WritesCarry'
    <3> HIDE DEF failing
    <3> QED BY <1>0, <2>0, <2>2, <2>n DEF WritesCarry, Carries, Unlucky, IsValidToken, TokenTypes,
         PostOK
  <2>7. WritesGetThrough'
    <3> HIDE DEF failing
    <3> QED BY <1>0, <2>0, <2>2 DEF WritesGetThrough
  <2> QED BY <2>4, <2>5, <2>6, <2>7 DEF CsrfInv
<1>4. ASSUME NEW m \in post, WriteArrives(m)
      PROVE  CsrfInv'
  <2> DEFINE again == write[m.tab][m.for] = "sent" /\ ~ IsValidToken(m)
  <2>0. /\ m.tab \in Tabs /\ m.for \in Write /\ UNCHANGED <<browser, browsers, unlucky>>
        /\ write[m.tab][m.for] \in {"sent", "resent"}
        /\ post' = (post \ {m}) \cup IF again THEN {Ask(m.tab, m.for)} ELSE {}
    BY <1>0, <1>4 DEF WriteArrives, TokenTypes, PostOK
  <2>2. /\ write' \in [Tabs -> [Write -> WriteState]]
        /\ \A t \in Tabs, w \in Write : <<t, w>> # <<m.tab, m.for>> => write'[t][w] = write[t][w]
        /\ write'[m.tab][m.for] =
             IF IsValidToken(m) THEN "done" ELSE IF again THEN "renews" ELSE "refused"
    BY <1>0, <1>4, <1>w, <2>0 DEF WriteArrives, TokenTypes, WriteState
  <2>3. ~ IsValidToken(m) /\ ~ again => Unlucky(m)
    BY <1>0, <2>0 DEF WritesCarry, Carries
  <2>n. \A n \in post \ {m} : ~ (n.tab = m.tab /\ n.for = m.for)
    BY <1>0, <2>0 DEF SentOnce
  <2>4. TokenTypes'
    BY <1>0, <2>0, <2>2 DEF TokenTypes, PostOK, Ask
  <2>5. SentOnce'
    BY <1>0, <2>0, <2>n DEF SentOnce, Ask
  <2>6. WritesCarry'
    BY <1>0, <2>0, <2>2, <2>n DEF WritesCarry, Carries, Unlucky, IsValidToken, TokenTypes, PostOK,
         Ask
  <2>7. WritesGetThrough'
    BY <1>0, <2>0, <2>2, <2>3 DEF WritesGetThrough, Unlucky
  <2> QED BY <2>4, <2>5, <2>6, <2>7 DEF CsrfInv
<1>5. ASSUME NEW m \in post, Renewed(m)
      PROVE  CsrfInv'
  <2> DEFINE sent == [tab |-> m.tab, for |-> m.for, cookie |-> browser', token |-> IssuedFor(m)]
  <2>0. /\ m.tab \in Tabs /\ m.for \in Write /\ Issue(m) /\ write[m.tab][m.for] = "renews"
        /\ post' = (post \ {m}) \cup {sent}
    BY <1>0, <1>5 DEF Renewed, TokenTypes, PostOK
  <2>1. /\ browser' \in Nat /\ browsers' \in Nat /\ unlucky \subseteq unlucky'
        /\ \A t \in Tabs, w \in Write :
             write[t][w] = "renews" /\ <<t, w>> # <<m.tab, m.for>> =>
                 browser' = browser \/ <<t, w>> \in unlucky'
        /\ m.cookie = 0 => browser' = IssuedFor(m) /\ browser' # 0
        /\ m.cookie # 0 => browser' = browser /\ IssuedFor(m) = m.cookie
    BY <2>0, TokenIssued
  <2>2. /\ write' \in [Tabs -> [Write -> WriteState]]
        /\ \A t \in Tabs, w \in Write : <<t, w>> # <<m.tab, m.for>> => write'[t][w] = write[t][w]
        /\ write'[m.tab][m.for] = "resent"
    BY <1>0, <1>5, <1>w, <2>0 DEF Renewed, TokenTypes, WriteState
  <2>3. IsValidToken(sent) \/ <<m.tab, m.for>> \in unlucky'
    BY <1>0, <2>0, <2>1 DEF WritesCarry, Carries, Unlucky, IsValidToken
  <2>n. \A n \in post \ {m} : ~ (n.tab = m.tab /\ n.for = m.for)
    BY <1>0, <2>0 DEF SentOnce
  <2>4. TokenTypes'
    BY <1>0, <2>0, <2>1, <2>2 DEF TokenTypes, PostOK
  <2>5. SentOnce'
    BY <1>0, <2>0, <2>n DEF SentOnce
  <2>6. WritesCarry'
    BY <1>0, <2>0, <2>1, <2>2, <2>3, <2>n DEF WritesCarry, Carries, Unlucky, IsValidToken,
         TokenTypes, PostOK
  <2>7. WritesGetThrough'
    BY <1>0, <2>0, <2>1, <2>2 DEF WritesGetThrough
  <2> QED BY <2>4, <2>5, <2>6, <2>7 DEF CsrfInv
<1>6. CASE CookieExpires
  <2>1. /\ browser' \in Nat /\ UNCHANGED <<browsers, post, write>> /\ unlucky \subseteq unlucky'
        /\ \A t \in Tabs, w \in Write : write[t][w] = "renews" =>
             browser' = browser \/ <<t, w>> \in unlucky'
    BY <1>6 DEF CookieExpires, Overtakes
  <2>4. TokenTypes' /\ SentOnce'
    BY <1>0, <2>1 DEF TokenTypes, PostOK, SentOnce
  <2>6. WritesCarry'
    BY <1>0, <2>1 DEF WritesCarry, Carries, Unlucky, IsValidToken, TokenTypes, PostOK
  <2>7. WritesGetThrough'
    BY <1>0, <2>1 DEF WritesGetThrough
  <2> QED BY <2>4, <2>6, <2>7 DEF CsrfInv
<1>7. ASSUME NEW t \in Tabs, LeavePage(t)
      PROVE  CsrfInv'
  <2>1. /\ UNCHANGED <<browser, browsers, unlucky>> /\ post' = {m \in post : m.tab # t}
        /\ write' \in [Tabs -> [Write -> WriteState]]
        /\ \A s \in Tabs, w \in Write : write'[s][w] = IF s = t THEN "idle" ELSE write[s][w]
    BY <1>0, <1>7, <1>w DEF LeavePage, TokenTypes, WriteState
  <2>4. TokenTypes' /\ SentOnce'
    BY <1>0, <2>1 DEF TokenTypes, PostOK, SentOnce
  <2>6. WritesCarry'
    BY <1>0, <2>1 DEF WritesCarry, Carries, Unlucky, IsValidToken, TokenTypes, PostOK
  <2>7. WritesGetThrough'
    BY <1>0, <2>1 DEF WritesGetThrough
  <2> QED BY <2>4, <2>6, <2>7 DEF CsrfInv
<1> QED
  BY <1>1, <1>2, <1>3, <1>4, <1>5, <1>6, <1>7 DEF CsrfNext, CsrfStep

-----------------------------------------------------------------------------
(***************************************************************************)
(* The flow cookie.  Who is at the provider has a flow of their own that   *)
(* no callback names yet, and it is the one in the cookie, unless it was   *)
(* spoiled; a callback left with the cookie of its flow, or its flow was   *)
(* spoiled.                                                                *)
(***************************************************************************)
PageOK(x) ==
  DOMAIN x = {"path", "load", "known", "user", "busy", "error", "flow"}

CallFields(m) ==
  /\ DOMAIN m = {"tab", "what", "who", "state", "session", "fresh", "flow", "orphan"}
  /\ m.tab \in Tabs

FlowTypes ==
  /\ DOMAIN cookies = {"session", "fresh", "flow"}
  /\ DOMAIN tab = Tabs /\ \A t \in Tabs : PageOK(tab[t])
  /\ \A m \in calls : CallFields(m)
  /\ flows \in Seq(Tabs)

AtProvider(t) == tab[t].path = "provider"
Callback(m) == m.what = "callback"

OwnFlows ==
  \A t \in Tabs : AtProvider(t) =>
    /\ tab[t].flow \in DOMAIN flows /\ flows[tab[t].flow] = t
    /\ cookies.flow = tab[t].flow \/ tab[t].flow \in spoiled
    /\ \A m \in calls : Callback(m) => m.state # tab[t].flow

CallbacksKeep ==
  \A m \in calls : Callback(m) =>
    /\ m.state \in DOMAIN flows
    /\ m.flow = m.state \/ m.state \in spoiled

FlowInv == FlowTypes /\ OwnFlows /\ CallbacksKeep /\ LastFlowSucceeds

(***************************************************************************)
(* What all steps but three do: pages keep their flow and their error, or  *)
(* are new ones that are not at the provider; the callbacks under way were *)
(* under way before.                                                       *)
(***************************************************************************)
KeepsFlow(x, y) ==
  /\ PageOK(y) /\ y.error = x.error /\ y.flow = x.flow
  /\ y.path = "provider" => x.path = "provider"

Goes(x, y) ==
  \/ KeepsFlow(x, y)
  \/ /\ PageOK(y) /\ y.path # "provider"
     /\ y.error \in {"missing_flow", "callback_failed"} => y.flow \in spoiled'

PagesGo == DOMAIN tab' = Tabs /\ \A t \in Tabs : Goes(tab[t], tab'[t])

CallsStay ==
  \A m \in calls' :
    /\ CallFields(m)
    /\ Callback(m) => \E n \in calls : Callback(n) /\ n.state = m.state /\ n.flow = m.flow

CookieStays ==
  /\ DOMAIN cookies' = {"session", "fresh", "flow"}
  /\ cookies'.flow = cookies.flow \/ \A t \in Tabs : AtProvider(t) => tab[t].flow \in spoiled'

FlowsStay == flows' = flows /\ spoiled \subseteq spoiled' /\ CookieStays /\ PagesGo /\ CallsStay

\* Such a step keeps the invariant.
LEMMA FlowsStayed ==
  ASSUME FlowInv, FlowsStay
  PROVE  FlowInv'
<1>0. FlowTypes /\ OwnFlows /\ CallbacksKeep /\ LastFlowSucceeds
  BY DEF FlowInv
<1>1. FlowTypes'
  BY <1>0 DEF FlowsStay, FlowTypes, CookieStays, PagesGo, Goes, KeepsFlow, CallsStay, CallFields,
       PageOK
<1>2. OwnFlows'
  <2> SUFFICES ASSUME NEW t \in Tabs, AtProvider(t)'
               PROVE  /\ tab'[t].flow \in DOMAIN flows' /\ flows'[tab'[t].flow] = t
                      /\ cookies'.flow = tab'[t].flow \/ tab'[t].flow \in spoiled'
                      /\ \A m \in calls' : Callback(m) => m.state # tab'[t].flow
    BY DEF OwnFlows, Callback
  <2>1. AtProvider(t) /\ tab'[t].flow = tab[t].flow
    BY DEF FlowsStay, PagesGo, Goes, KeepsFlow, AtProvider
  <2>2. /\ tab[t].flow \in DOMAIN flows /\ flows[tab[t].flow] = t
        /\ cookies.flow = tab[t].flow \/ tab[t].flow \in spoiled
        /\ \A m \in calls : Callback(m) => m.state # tab[t].flow
    BY <1>0, <2>1 DEF OwnFlows
  <2> QED
    BY <2>1, <2>2 DEF FlowsStay, CookieStays, CallsStay
<1>3. CallbacksKeep'
  BY <1>0 DEF FlowsStay, CallsStay, CallbacksKeep, Callback
<1>4. LastFlowSucceeds'
  BY <1>0 DEF FlowsStay, PagesGo, Goes, KeepsFlow, LastFlowSucceeds
<1> QED
  BY <1>1, <1>2, <1>3, <1>4 DEF FlowInv

\* A page that settles keeps what it knows, and does not go to the provider.
LEMMA SettledStays ==
  ASSUME NEW x, PageOK(x)
  PROVE  KeepsFlow(x, Settled(x))
<1> DEFINE y == [x EXCEPT !.path = Place(x)]
<1>1. \A z : Place(z) = "provider" => z.path = "provider"
  BY DEF Place
<1>2. PageOK(y) /\ y.error = x.error /\ y.flow = x.flow /\ y.path = Place(x)
  BY DEF PageOK
<1>3. Settled(x) = [y EXCEPT !.path = Place(y)]
  BY DEF Settled
<1> HIDE DEF y
<1>4. /\ PageOK(Settled(x)) /\ Settled(x).path = Place(y)
      /\ Settled(x).error = y.error /\ Settled(x).flow = y.flow
  BY <1>2, <1>3 DEF PageOK
<1> QED
  BY <1>1, <1>2, <1>4 DEF KeepsFlow

\* A request that is sent is no callback, but for the one of the provider.
LEMMA SentCall ==
  ASSUME NEW t \in Tabs, NEW what, NEW who, NEW box
  PROVE  /\ CallFields(CallOf(t, what, who, box))
         /\ what # "callback" => ~ Callback(CallOf(t, what, who, box))
BY DEF CallOf, CallFields, Callback

\* The requests that a page leaves behind were under way.
LEMMA AbandonedCalls ==
  ASSUME NEW t, NEW rest, \A n \in rest : CallFields(n), NEW m \in Abandoned(t, rest)
  PROVE  CallFields(m) /\ \E n \in rest : m.what = n.what /\ m.state = n.state /\ m.flow = n.flow
<1>1. CASE m \in rest
  BY <1>1
<1>2. CASE \E n \in rest : m = [n EXCEPT !.orphan = TRUE]
  <2>1. PICK n \in rest : m = [n EXCEPT !.orphan = TRUE]
    BY <1>2
  <2>2. CallFields(n)
    BY <2>1
  <2> QED
    BY <2>1, <2>2 DEF CallFields
<1> QED
  BY <1>1, <1>2 DEF Abandoned

\* Leaving a page, opening one, and going on in one.
LEMMA LeavesGo ==
  ASSUME FlowInv, NEW t \in Tabs, NEW x, Goes(tab[t], x),
         NEW rest, \A n \in rest : CallFields(n) /\ (Callback(n) => n \in calls),
         NEW next, CallFields(next), ~ Callback(next), Leaves(t, x, rest, next)
  PROVE  PagesGo /\ CallsStay
<1>0. FlowTypes
  BY DEF FlowInv
<1>1. PagesGo
  BY <1>0 DEF Leaves, PagesGo, Goes, KeepsFlow, FlowTypes
<1>2. \A m \in Abandoned(t, rest) :
        CallFields(m) /\ \E n \in rest : m.what = n.what /\ m.state = n.state /\ m.flow = n.flow
  BY <1>0, AbandonedCalls DEF FlowTypes
<1>3. CallsStay
  BY <1>2 DEF Leaves, CallsStay, Callback
<1> QED
  BY <1>1, <1>3

\* A new page has no flow.
LEMMA OpensGo ==
  ASSUME FlowInv, NEW t \in Tabs, NEW x, Goes(tab[t], x), NEW rest, rest \subseteq calls,
         NEW box, Opens(t, x, rest, box)
  PROVE  PagesGo /\ CallsStay
BY LeavesGo, SentCall DEF Opens, FlowInv, FlowTypes

\* A page that goes on settles, and may leave for the provider.
LEMMA ShowsGo ==
  ASSUME FlowInv, NEW t \in Tabs, NEW x, KeepsFlow(tab[t], x),
         NEW rest, rest \subseteq calls, NEW next, \A n \in next : CallFields(n) /\ ~ Callback(n),
         NEW box, Shows(t, x, rest, next, box)
  PROVE  PagesGo /\ CallsStay
<1> DEFINE y == Settled(x)
<1>0. FlowTypes /\ Goes(tab[t], y)
  BY SettledStays DEF FlowInv, Goes, KeepsFlow
<1>1. CASE y.path = "leaving"
  <2>1. Leaves(t, y, rest \cup next, CallOf(t, "start", NoOne, box))
    BY <1>1 DEF Shows
  <2> HIDE DEF y
  <2>2. \A n \in rest \cup next : CallFields(n) /\ (Callback(n) => n \in calls)
    BY <1>0 DEF FlowTypes
  <2> QED
    BY <1>0, <2>1, <2>2, LeavesGo, SentCall
<1>2. CASE y.path # "leaving"
  <2>1. /\ tab' = [tab EXCEPT ![t] = y]
        /\ \A m \in calls' : m \in rest \/ m \in next \/ m = CallOf(t, "verify", NoOne, box)
    BY <1>2 DEF Shows
  <2>2. PagesGo
    BY <1>0, <2>1 DEF PagesGo, Goes, KeepsFlow, FlowTypes
  <2>3. CallsStay
    BY <1>0, <2>1, SentCall DEF CallsStay, FlowTypes
  <2> QED
    BY <2>2, <2>3
<1> QED
  BY <1>1, <1>2

\* A page whose fields change in place stays; so does the cookie of an answer.
LEMMA TakesStay ==
  ASSUME FlowInv, NEW m, NEW takes, NEW box, DOMAIN box = {"session", "fresh", "flow"},
         box.flow = cookies.flow, Takes(m, box, takes)
  PROVE  CookieStays
BY DEF Takes, CookieStays, FlowInv, FlowTypes

IsOpened(x, path) == PageOK(x) /\ x.error = "none" /\ x.path = path

\* What holds of the pages and calls in every state.
LEMMA FlowFacts ==
  ASSUME FlowInv
  PROVE  /\ DOMAIN cookies = {"session", "fresh", "flow"} /\ DOMAIN tab = Tabs
         /\ \A t \in Tabs : PageOK(tab[t]) /\ Goes(tab[t], tab[t])
         /\ \A m \in calls : CallFields(m) /\ m.tab \in Tabs
         /\ UNCHANGED cookies => CookieStays
         /\ UNCHANGED tab => PagesGo
         /\ UNCHANGED calls => CallsStay
         /\ \A m : calls' = calls \ {m} => CallsStay
         /\ \A m : calls' = calls \cup {m} /\ CallFields(m) /\ ~ Callback(m) => CallsStay
         /\ \A t \in Tabs : \A x : tab' = [tab EXCEPT ![t] = x] /\ Goes(tab[t], x) => PagesGo
         /\ \A path : IsOpened(Opened(path), path)
<1> USE DEF FlowInv, FlowTypes
<1>1. \A path : IsOpened(Opened(path), path)
  BY DEF PageOK, Opened, IsOpened
<1>2. \A t \in Tabs : PageOK(tab[t]) /\ Goes(tab[t], tab[t])
  BY DEF Goes, KeepsFlow
<1>3. \A t \in Tabs : \A x : tab' = [tab EXCEPT ![t] = x] /\ Goes(tab[t], x) => PagesGo
  BY <1>2 DEF PagesGo, Goes, KeepsFlow
<1> QED
  BY <1>1, <1>2, <1>3 DEF CookieStays, PagesGo, Goes, KeepsFlow, CallsStay, CallFields

\* A form that is sent, and its answer.
LEMMA SubmitStays ==
  ASSUME FlowInv, NEW t \in Tabs, NEW what, NEW who, what # "callback", Submit(t, what, who)
  PROVE  FlowsStay
<1>1. PagesGo
  BY DEF Submit, FlowInv, FlowTypes, PagesGo, Goes, KeepsFlow, PageOK
<1>2. CallsStay
  BY SentCall, FlowFacts DEF Submit
<1>3. CookieStays
  BY FlowFacts DEF Submit
<1> QED
  BY <1>1, <1>2, <1>3 DEF Submit, FlowsStay

\* What the form shows when it is refused.
LEMMA RefusedStays ==
  ASSUME FlowInv, NEW m \in calls, Refused(m), UNCHANGED <<flows, spoiled>>
  PROVE  FlowsStay
<1>0. m.tab \in Tabs
  BY FlowFacts
<1>1. PagesGo
  BY <1>0 DEF Refused, FlowInv, FlowTypes, PagesGo, Goes, KeepsFlow, PageOK
<1>2. CallsStay
  BY FlowFacts DEF Refused
<1>3. CookieStays
  BY FlowFacts DEF Refused
<1> QED
  BY <1>1, <1>2, <1>3 DEF FlowsStay

\* A sign-in shows the app.
LEMMA SignedInStays ==
  ASSUME FlowInv, NEW m \in calls, NEW u, SignedIn(m, u)
  PROVE  PagesGo /\ CallsStay
<1> DEFINE x == [tab[m.tab] EXCEPT !.user = u, !.busy = FALSE, !.path = "app",
                   !.known = IF @ \in {"setup", "bootstrap"} THEN @ ELSE "on"]
<1>0. m.tab \in Tabs
  BY FlowFacts
<1>1. CASE m.orphan
  BY <1>1, FlowFacts DEF SignedIn
<1>2. CASE ~ m.orphan
  <2>1. KeepsFlow(tab[m.tab], x)
    BY <1>0, FlowFacts DEF PageOK, KeepsFlow
  <2>2. Shows(m.tab, x, calls \ {m}, {}, cookies')
    BY <1>2 DEF SignedIn
  <2> HIDE DEF x
  <2> QED
    BY <1>0, <2>1, <2>2, ShowsGo
<1> QED
  BY <1>1, <1>2

\* Each thing that the user does.
LEMMA DoesKeep ==
  ASSUME FlowInv, NEW t \in Tabs, Does(t)
  PROVE  FlowInv'
<1>f. /\ DOMAIN cookies = {"session", "fresh", "flow"} /\ DOMAIN tab = Tabs
      /\ PageOK(tab[t]) /\ \A path : IsOpened(Opened(path), path)
  BY FlowFacts
<1>1. ASSUME NEW path \in {"app", "login"}, Open(t, path)
      PROVE  FlowInv'
  <2>1. Goes(tab[t], Opened(path))
    BY <1>f DEF Goes, KeepsFlow, IsOpened
  <2>2. PagesGo /\ CallsStay
    BY <1>1, <2>1, OpensGo DEF Open
  <2> QED
    BY <1>1, <2>2, FlowFacts, FlowsStayed DEF Open, FlowsStay
<1>2. CASE Retry(t)
  <2>1. PagesGo
    BY <1>2, <1>f DEF Retry, FlowInv, FlowTypes, PagesGo, Goes, KeepsFlow, PageOK
  <2>2. CallsStay
    BY <1>2, SentCall, FlowFacts DEF Retry
  <2> QED
    BY <1>2, <2>1, <2>2, FlowFacts, FlowsStayed DEF Retry, FlowsStay
<1>3. CASE Register(t) \/ Stop(t)
  BY <1>3, SubmitStays, FlowsStayed DEF Register, Stop
<1>4. CASE ClickLogout(t)
  <2> DEFINE x == [tab[t] EXCEPT !.user = NoOne, !.path = "login"]
  <2>1. KeepsFlow(tab[t], x)
    BY <1>f DEF PageOK, KeepsFlow
  <2>2. Shows(t, x, calls, {CallOf(t, "logout", NoOne, cookies)}, cookies)
    BY <1>4 DEF ClickLogout
  <2> HIDE DEF x
  <2>3. PagesGo /\ CallsStay
    BY <2>1, <2>2, ShowsGo, SentCall
  <2> QED
    BY <1>4, <2>3, FlowFacts, FlowsStayed DEF ClickLogout, FlowsStay
<1>5. CASE StartOidcSignIn(t)
  <2> DEFINE x == [tab[t] EXCEPT !.path = "leaving"]
  <2>1. Goes(tab[t], x)
    BY <1>f DEF PageOK, Goes, KeepsFlow
  <2>2. Leaves(t, x, calls, CallOf(t, "start", NoOne, cookies))
    BY <1>5 DEF StartOidcSignIn
  <2> HIDE DEF x
  <2>3. PagesGo /\ CallsStay
    BY <2>1, <2>2, LeavesGo, SentCall, FlowFacts
  <2> QED
    BY <1>5, <2>3, FlowFacts, FlowsStayed DEF StartOidcSignIn, FlowsStay
<1>6. ASSUME NEW u, SubmitLogin(t, u) \/ Impersonate(t, u)
      PROVE  FlowInv'
  BY <1>6, SubmitStays, FlowsStayed DEF SubmitLogin, Impersonate
<1>7. ASSUME NEW who, Choose(t, who)
      PROVE  FlowInv'
  BY <1>7, SubmitStays, FlowsStayed DEF Choose
<1>8. ASSUME NEW who, Authorise(t, who)
      PROVE  FlowInv'
  <2> DEFINE sent == [CallOf(t, "callback", who, cookies) EXCEPT !.state = tab[t].flow]
  <2>0. FlowTypes /\ OwnFlows /\ CallbacksKeep /\ LastFlowSucceeds
    BY DEF FlowInv
  <2>1. /\ CallFields(sent) /\ Callback(sent)
        /\ sent.state = tab[t].flow /\ sent.flow = cookies.flow
        /\ calls' = calls \cup {sent}
    BY <1>8 DEF Authorise, CallOf, CallFields, Callback
  <2> HIDE DEF sent
  <2>2. /\ UNCHANGED <<cookies, flows, spoiled>> /\ AtProvider(t)
        /\ PageOK(tab'[t]) /\ tab'[t].path = "leaving"
        /\ tab'[t].error = tab[t].error /\ tab'[t].flow = tab[t].flow
        /\ DOMAIN tab' = Tabs /\ \A s \in Tabs : s # t => tab'[s] = tab[s]
    BY <1>8, <1>f DEF Authorise, AtProvider, PageOK
  <2>3. FlowTypes'
    BY <2>0, <2>1, <2>2 DEF FlowTypes, PageOK, CallFields
  <2>4. OwnFlows'
    BY <2>0, <2>1, <2>2 DEF OwnFlows, AtProvider, Callback
  <2>5. CallbacksKeep'
    BY <2>0, <2>1, <2>2 DEF OwnFlows, CallbacksKeep, Callback
  <2>6. LastFlowSucceeds'
    BY <2>0, <2>2 DEF LastFlowSucceeds
  <2> QED
    BY <2>3, <2>4, <2>5, <2>6 DEF FlowInv
<1>9. CASE UNCHANGED <<server, cookies, storage, tab, calls, flows, current, failed, spoiled>>
  BY <1>9, FlowFacts, FlowsStayed DEF FlowsStay
<1> QED
  BY <1>1, <1>2, <1>3, <1>4, <1>5, <1>6, <1>7, <1>8, <1>9 DEF Does

\* The answer of the provider: whoever is refused for the flow has one that was spoiled.
LEMMA CallbackKeeps ==
  ASSUME FlowInv, NEW m \in calls, NEW takes, NEW trusted, CallbackAnswered(m, takes, trusted)
  PROVE  FlowInv'
<1> DEFINE why  == Reason(m, trusted)
           box  == IF why = "none" THEN [Holding EXCEPT !.flow = 0] ELSE [cookies EXCEPT !.flow = 0]
           page == [Opened(IF why = "none" THEN "app" ELSE "login")
                      EXCEPT !.error = why, !.flow = m.state]
<1>0. FlowTypes /\ OwnFlows /\ CallbacksKeep /\ m.tab \in Tabs /\ Callback(m)
  BY FlowFacts DEF FlowInv, CallbackAnswered, Callback
<1>1. m.state \in DOMAIN flows /\ (m.flow = m.state \/ m.state \in spoiled)
  BY <1>0 DEF CallbacksKeep
<1>2. 0 \notin DOMAIN flows
  BY <1>0 DEF FlowTypes
<1>3. flows' = flows /\ spoiled' = spoiled \cup (DOMAIN flows \ {m.state})
  BY DEF CallbackAnswered, Started
<1>4. why \in {"missing_flow", "callback_failed"} => m.state \in spoiled
  BY <1>1, <1>2 DEF Reason
<1>5. DOMAIN box = {"session", "fresh", "flow"} /\ Takes(m, box, takes)
  BY <1>0 DEF CallbackAnswered, Holding, FlowTypes
<1>6. CookieStays
  <2>1. \A t \in Tabs : AtProvider(t) => tab[t].flow \in DOMAIN flows /\ tab[t].flow # m.state
    BY <1>0 DEF OwnFlows
  <2> QED
    BY <1>0, <1>3, <1>5, <2>1 DEF Takes, CookieStays, FlowTypes
<1>7. PagesGo /\ CallsStay
  <2>1. CASE m.orphan
    BY <2>1, FlowFacts DEF CallbackAnswered
  <2>2. CASE ~ m.orphan
    <3>1. PageOK(page) /\ page.path \in {"app", "login"} /\ page.error = why /\ page.flow = m.state
      BY DEF Opened, PageOK, IsOpened
    <3>2. Opens(m.tab, page, calls \ {m}, cookies')
      BY <2>2 DEF CallbackAnswered
    <3> HIDE DEF page, why
    <3>3. Goes(tab[m.tab], page)
      BY <1>3, <1>4, <3>1 DEF Goes, KeepsFlow
    <3> QED
      BY <1>0, <3>2, <3>3, OpensGo
  <2> QED
    BY <2>1, <2>2
<1> QED
  BY <1>3, <1>6, <1>7, FlowsStayed DEF FlowsStay

\* A flow that starts is the newest, and is the one in the cookie if it spoils the others.
LEMMA StartKeeps ==
  ASSUME FlowInv, NEW m \in calls, NEW takes, ~ takes => m.orphan, StartAnswered(m, takes)
  PROVE  FlowInv'
<1> DEFINE n    == Len(flows) + 1
           page == [Opened("provider") EXCEPT !.load = "idle", !.flow = n]
<1>0. FlowTypes /\ OwnFlows /\ CallbacksKeep /\ LastFlowSucceeds /\ m.tab \in Tabs
  BY FlowFacts DEF FlowInv
<1>1. /\ DOMAIN flows' = DOMAIN flows \cup {n} /\ n \notin DOMAIN flows /\ flows'[n] = m.tab
      /\ \A f \in DOMAIN flows : flows'[f] = flows[f]
      /\ flows' \in Seq(Tabs)
  BY <1>0, AppendProperties DEF StartAnswered, FlowTypes
<1>2. /\ DOMAIN cookies' = {"session", "fresh", "flow"}
      /\ m.orphan \/ cookies'.flow = n
      /\ cookies'.flow = cookies.flow \/ cookies'.flow = n
      /\ spoiled' = IF cookies'.flow = n THEN spoiled \cup DOMAIN flows ELSE spoiled
  BY <1>0 DEF StartAnswered, Takes, Started, FlowTypes
<1>3. PageOK(page) /\ page.path = "provider" /\ page.error = "none" /\ page.flow = n
  BY DEF Opened, PageOK, IsOpened
<1>4. calls' = calls \ {m} /\ tab' = IF m.orphan THEN tab ELSE [tab EXCEPT ![m.tab] = page]
  BY DEF StartAnswered
<1> HIDE DEF n, page
<1>5. FlowTypes'
  BY <1>0, <1>1, <1>2, <1>3, <1>4 DEF FlowTypes
<1>6. OwnFlows'
  <2> SUFFICES ASSUME NEW t \in Tabs, AtProvider(t)'
               PROVE  /\ tab'[t].flow \in DOMAIN flows' /\ flows'[tab'[t].flow] = t
                      /\ cookies'.flow = tab'[t].flow \/ tab'[t].flow \in spoiled'
                      /\ \A c \in calls' : Callback(c) => c.state # tab'[t].flow
    BY DEF OwnFlows, Callback
  <2>1. CASE t = m.tab /\ ~ m.orphan
    BY <1>0, <1>1, <1>2, <1>3, <1>4, <2>1 DEF FlowTypes, CallbacksKeep
  <2>2. CASE ~ (t = m.tab /\ ~ m.orphan)
    <3>1. tab'[t] = tab[t] /\ AtProvider(t)
      BY <1>0, <1>4, <2>2 DEF FlowTypes, AtProvider
    <3> QED
      BY <1>0, <1>1, <1>2, <1>4, <3>1 DEF OwnFlows
  <2> QED
    BY <2>1, <2>2
<1>7. CallbacksKeep'
  BY <1>0, <1>1, <1>2, <1>4 DEF CallbacksKeep, Callback
<1>8. LastFlowSucceeds'
  BY <1>0, <1>2, <1>3, <1>4 DEF FlowTypes, LastFlowSucceeds
<1> QED
  BY <1>5, <1>6, <1>7, <1>8 DEF FlowInv

\* Each answer.
LEMMA AnswersKeepFlows ==
  ASSUME FlowInv, NEW m \in calls, IsAnswered(m)
  PROVE  FlowInv'
<1>f. /\ DOMAIN cookies = {"session", "fresh", "flow"} /\ DOMAIN tab = Tabs
      /\ m.tab \in Tabs /\ PageOK(tab[m.tab])
      /\ \A path : IsOpened(Opened(path), path)
  BY FlowFacts
<1>o. \A path : path # "provider" => Goes(tab[m.tab], Opened(path))
  BY <1>f DEF Goes, KeepsFlow, IsOpened
<1>1. CASE StatusAnswered(m)
  <2> DEFINE x == [tab[m.tab] EXCEPT !.known = server.phase]
             me == [x EXCEPT !.load = "me"]
             off == [x EXCEPT !.load = "idle", !.user = NoOne]
  <2>1. /\ KeepsFlow(tab[m.tab], me)
        /\ KeepsFlow(tab[m.tab], off)
    BY <1>f DEF PageOK, KeepsFlow
  <2>2. \/ Shows(m.tab, me, calls \ {m}, {CallOf(m.tab, "me", NoOne, cookies)}, cookies)
        \/ Shows(m.tab, off, calls \ {m}, {}, cookies)
    BY <1>1 DEF StatusAnswered
  <2> HIDE DEF x, me, off
  <2>3. PagesGo /\ CallsStay
    BY <1>f, <2>1, <2>2, ShowsGo, SentCall
  <2> QED
    BY <1>1, <2>3, FlowFacts, FlowsStayed DEF StatusAnswered, FlowsStay
<1>2. CASE MeAnswered(m)
  <2> DEFINE x == [tab[m.tab] EXCEPT !.load = "idle"]
             known == [x EXCEPT !.user = Sessions[m.session].user]
             none == [x EXCEPT !.user = NoOne]
             again == [x EXCEPT !.load = "refresh"]
  <2>1. /\ KeepsFlow(tab[m.tab], known)
        /\ KeepsFlow(tab[m.tab], none)
        /\ KeepsFlow(tab[m.tab], again)
    BY <1>f DEF PageOK, KeepsFlow
  <2>2. \/ Shows(m.tab, known, calls \ {m}, {}, cookies)
        \/ Shows(m.tab, again, calls \ {m}, {CallOf(m.tab, "refresh", NoOne, cookies)}, cookies)
        \/ Shows(m.tab, none, calls \ {m}, {}, cookies)
    BY <1>2 DEF MeAnswered
  <2> HIDE DEF x, known, none, again
  <2>3. PagesGo /\ CallsStay
    BY <1>f, <2>1, <2>2, ShowsGo, SentCall
  <2> QED
    BY <1>2, <2>3, FlowFacts, FlowsStayed DEF MeAnswered, FlowsStay
<1>3. CASE ChooseAnswered(m)
  <2>1. CASE Refused(m)
    BY <1>3, <2>1, RefusedStays, FlowsStayed DEF ChooseAnswered
  <2>2. CASE m.orphan /\ calls' = calls \ {m} /\ UNCHANGED <<tab, cookies>>
    BY <1>3, <2>2, FlowFacts, FlowsStayed DEF ChooseAnswered, FlowsStay
  <2>3. ASSUME NEW path \in {"register", "app"},
               Opens(m.tab, Opened(path), calls \ {m}, cookies), UNCHANGED cookies
        PROVE  FlowInv'
    <3>1. PagesGo /\ CallsStay
      BY <1>f, <1>o, <2>3, OpensGo
    <3> QED
      BY <1>3, <2>3, <3>1, FlowFacts, FlowsStayed DEF ChooseAnswered, FlowsStay
  <2> QED
    BY <1>3, <2>1, <2>2, <2>3 DEF ChooseAnswered
<1>4. CASE VerifyAnswered(m)
  BY <1>4, FlowFacts, FlowsStayed DEF VerifyAnswered, FlowsStay
<1>5. ASSUME NEW takes, RefreshAnswered(m, takes)
      PROVE  FlowInv'
  <2> DEFINE box == IF m.session \in server.live
                      THEN [cookies EXCEPT !.session = m.session, !.fresh = TRUE] ELSE cookies
             again == [tab[m.tab] EXCEPT !.load = "again"]
             none == [tab[m.tab] EXCEPT !.load = "idle", !.user = NoOne]
  <2>1. DOMAIN box = {"session", "fresh", "flow"} /\ box.flow = cookies.flow /\ Takes(m, box, takes)
    BY <1>5, <1>f DEF RefreshAnswered
  <2>2. CookieStays
    BY <2>1, TakesStay
  <2>3. /\ KeepsFlow(tab[m.tab], none)
        /\ KeepsFlow(tab[m.tab], again)
    BY <1>f DEF PageOK, KeepsFlow
  <2>4. \/ calls' = calls \ {m} /\ UNCHANGED tab
        \/ Shows(m.tab, again, calls \ {m}, {CallOf(m.tab, "again", NoOne, cookies')}, cookies')
        \/ Shows(m.tab, none, calls \ {m}, {}, cookies')
    BY <1>5 DEF RefreshAnswered
  <2> HIDE DEF box, again, none
  <2>5. PagesGo /\ CallsStay
    BY <1>f, <2>3, <2>4, ShowsGo, SentCall, FlowFacts
  <2> QED
    BY <1>5, <2>2, <2>5, FlowsStayed DEF RefreshAnswered, FlowsStay
<1>h. DOMAIN Holding = {"session", "fresh", "flow"} /\ Holding.flow = cookies.flow
  BY <1>f DEF Holding
<1>6. ASSUME NEW takes, LoginAnswered(m, takes) \/ RegisterAnswered(m, takes)
      PROVE  FlowInv'
  <2>1. CASE Refused(m)
    BY <1>6, <2>1, RefusedStays, FlowsStayed DEF LoginAnswered, RegisterAnswered
  <2>2. CASE Takes(m, Holding, takes) /\ SignedIn(m, m.who)
    BY <1>6, <1>h, <2>2, TakesStay, SignedInStays, FlowsStayed DEF LoginAnswered, RegisterAnswered,
         FlowsStay
  <2> QED
    BY <1>6, <2>1, <2>2 DEF LoginAnswered, RegisterAnswered
<1>7. ASSUME NEW takes, LogoutAnswered(m, takes)
      PROVE  FlowInv'
  <2> DEFINE box == [cookies EXCEPT !.session = 0, !.fresh = FALSE]
  <2>1. DOMAIN box = {"session", "fresh", "flow"} /\ box.flow = cookies.flow /\ Takes(m, box, takes)
    BY <1>7, <1>f DEF LogoutAnswered
  <2> HIDE DEF box
  <2>2. CookieStays
    BY <2>1, TakesStay
  <2> QED
    BY <1>7, <2>2, FlowFacts, FlowsStayed DEF LogoutAnswered, FlowsStay
<1>8. ASSUME NEW takes, ~ takes => m.orphan, StartAnswered(m, takes)
      PROVE  FlowInv'
  BY <1>8, StartKeeps
<1>9. ASSUME NEW takes, ImpersonateAnswered(m, takes)
      PROVE  FlowInv'
  <2>1. CASE Refused(m)
    BY <1>9, <2>1, RefusedStays, FlowsStayed DEF ImpersonateAnswered
  <2>2. CASE /\ Takes(m, Holding, takes)
             /\ \/ calls' = calls \ {m} /\ UNCHANGED tab
                \/ Opens(m.tab, Opened("app"), calls \ {m}, cookies')
    <3>1. PagesGo /\ CallsStay
      BY <1>f, <1>o, <2>2, OpensGo, FlowFacts
    <3> QED
      BY <1>9, <1>h, <2>2, <3>1, TakesStay, FlowsStayed DEF ImpersonateAnswered, FlowsStay
  <2> QED
    BY <1>9, <2>1, <2>2 DEF ImpersonateAnswered
<1>10. ASSUME NEW takes, StopAnswered(m, takes)
       PROVE  FlowInv'
  <2>1. CASE Refused(m)
    BY <1>10, <2>1, RefusedStays, FlowsStayed DEF StopAnswered
  <2>2. CASE /\ Takes(m, Holding, takes) \/ UNCHANGED cookies
             /\ \/ calls' = calls \ {m} /\ UNCHANGED tab
                \/ Opens(m.tab, Opened("app"), calls \ {m}, cookies')
    <3>1. PagesGo /\ CallsStay
      BY <1>f, <1>o, <2>2, OpensGo, FlowFacts
    <3> QED
      BY <1>10, <1>h, <2>2, <3>1, TakesStay, FlowFacts, FlowsStayed DEF StopAnswered, FlowsStay
  <2> QED
    BY <1>10, <2>1, <2>2 DEF StopAnswered
<1>11. ASSUME NEW takes, NEW trusted, CallbackAnswered(m, takes, trusted)
       PROVE  FlowInv'
  BY <1>11, CallbackKeeps
<1> QED
  BY <1>1, <1>2, <1>3, <1>4, <1>5, <1>6, <1>7, <1>8, <1>9, <1>10, <1>11 DEF IsAnswered

\* A request that fails.
LEMMA FailuresKeepFlows ==
  ASSUME FlowInv, NEW m \in calls, Fail(m)
  PROVE  FlowInv'
<1> DEFINE x == Unanswered(tab[m.tab], m.what)
           next == IF m.what = "me" THEN {CallOf(m.tab, "refresh", NoOne, cookies)} ELSE {}
<1>0. m.tab \in Tabs /\ PageOK(tab[m.tab])
  BY FlowFacts
<1>1. KeepsFlow(tab[m.tab], x)
  BY <1>0 DEF Unanswered, PageOK, KeepsFlow
<1>2. \A n \in next : CallFields(n) /\ ~ Callback(n)
  BY <1>0, SentCall
<1>3. \/ calls' = calls \ {m} /\ UNCHANGED tab
      \/ Shows(m.tab, x, calls \ {m}, next, cookies)
  BY DEF Fail
<1> HIDE DEF x, next
<1>4. PagesGo /\ CallsStay
  BY <1>0, <1>1, <1>2, <1>3, ShowsGo, FlowFacts
<1> QED
  BY <1>4, FlowFacts, FlowsStayed DEF Fail, FlowsStay

\* Each step of the pages.
LEMMA FlowKeeps ==
  ASSUME FlowInv, SignOnNext
  PROVE  FlowInv'
<1>1. CASE CookiesExpire
  <2>1. CookieStays
    BY <1>1 DEF CookiesExpire, CookieStays, FlowInv, FlowTypes, OwnFlows
  <2>2. flows' = flows /\ spoiled \subseteq spoiled' /\ UNCHANGED <<tab, calls>>
    BY <1>1 DEF CookiesExpire
  <2> QED
    BY <2>1, <2>2, FlowFacts, FlowsStayed DEF FlowsStay
<1>2. CASE UNCHANGED signOnVars
  BY <1>2, FlowFacts, FlowsStayed DEF signOnVars, FlowsStay
<1> QED
  BY <1>1, <1>2, DoesKeep, AnswersKeepFlows, FailuresKeepFlows DEF SignOnNext

\* No flow was started at first.
LEMMA FlowBegins == SignOnInit => FlowInv
<1> SUFFICES ASSUME SignOnInit PROVE FlowInv
  OBVIOUS
<1>1. IsOpened(Opened("app"), "app")
  BY DEF PageOK, Opened, IsOpened
<1>2. \A t \in Tabs : LET m == CallOf(t, "status", NoOne, cookies) IN CallFields(m) /\ ~ Callback(m)
  BY SentCall
<1>3. /\ DOMAIN cookies = {"session", "fresh", "flow"} /\ flows = <<>>
      /\ tab = [t \in Tabs |-> Opened("app")]
  BY DEF SignOnInit
<1>4. calls = {CallOf(t, "status", NoOne, cookies) : t \in Tabs}
  BY DEF SignOnInit
<1> QED
  BY <1>1, <1>2, <1>3, <1>4 DEF FlowInv, FlowTypes, OwnFlows, CallbacksKeep, LastFlowSucceeds,
       IsOpened,
       AtProvider

\* A step or a stutter.
LEMMA FlowStep ==
  ASSUME FlowInv, [SignOnNext]_browserVars
  PROVE  FlowInv'
<1>1. CASE UNCHANGED browserVars
  BY <1>1, FlowFacts, FlowsStayed DEF browserVars, signOnVars, FlowsStay
<1> QED
  BY <1>1, FlowKeeps

(***************************************************************************)
(* A sign-in through the provider is refused for its flow only if another  *)
(* flow came in its way or its time was over: oidcRoutes.ts,               *)
(* oidcCallbackRoute.ts.                                                   *)
(***************************************************************************)
THEOREM FlowsSucceed == SignOnSpec => []LastFlowSucceeds
<1>1. FlowInv /\ [SignOnNext]_browserVars => FlowInv'
  BY FlowStep
<1>2. FlowInv => LastFlowSucceeds
  BY DEF FlowInv
<1> QED
  BY <1>1, <1>2, FlowBegins, PTL DEF SignOnSpec

(***************************************************************************)
(* To the tokens of the tabs, what the pages do is to begin writes or to   *)
(* be left.                                                                *)
(***************************************************************************)
LEMMA PagesWrite ==
  ASSUME FlowInv, SignOnNext
  PROVE  [CsrfNext]_csrfVars
<1> DEFINE Left == \E t \in Tabs : LeavePage(t)
<1>l. Left \/ UNCHANGED csrfVars => [CsrfNext]_csrfVars
  BY DEF CsrfNext
<1>s. \A t \in Tabs : \A x, rest, next, box :
        Shows(t, x, rest, next, box) => Left \/ UNCHANGED csrfVars
  BY DEF Shows, Leaves
<1>o. \A t \in Tabs : \A x, rest, box : Opens(t, x, rest, box) => Left
  BY DEF Opens, Leaves
<1>m. \A m \in calls : m.tab \in Tabs
  BY FlowFacts
<1> HIDE DEF Left
<1>1. ASSUME NEW t \in Tabs, Does(t)
      PROVE  [CsrfNext]_csrfVars
  <2>1. CASE \E path \in {"app", "login"} : Open(t, path)
    BY <1>l, <1>o, <2>1 DEF Open
  <2>2. CASE Retry(t) \/ \E who \in {Admin, NoOne} : Authorise(t, who)
    BY <1>l, <2>2 DEF Retry, Authorise
  <2>3. CASE \/ Register(t) \/ Stop(t) \/ \E u \in Person : SubmitLogin(t, u) \/ Impersonate(t, u)
             \/ \E who \in {Admin, NoOne} : Choose(t, who)
    BY <1>l, <2>3 DEF Register, Stop, SubmitLogin, Impersonate, Choose, Submit
  <2>4. CASE ClickLogout(t)
    BY <1>l, <1>s, <2>4 DEF ClickLogout
  <2>5. CASE StartOidcSignIn(t)
    BY <2>5 DEF StartOidcSignIn, Leaves, CsrfNext
  <2>6. CASE \E w \in Write : BeginWrite(t, w)
    BY <2>6 DEF CsrfNext
  <2> QED
    BY <1>1, <2>1, <2>2, <2>3, <2>4, <2>5, <2>6 DEF Does
<1>2. ASSUME NEW m \in calls, IsAnswered(m)
      PROVE  [CsrfNext]_csrfVars
  <2>1. CASE StatusAnswered(m) \/ MeAnswered(m) \/ VerifyAnswered(m)
    BY <1>l, <1>m, <1>s, <2>1 DEF StatusAnswered, MeAnswered, VerifyAnswered
  <2>2. CASE ChooseAnswered(m)
    BY <1>l, <1>m, <1>o, <2>2 DEF ChooseAnswered, Refused
  <2>3. ASSUME NEW takes,
               RefreshAnswered(m, takes) \/ LogoutAnswered(m, takes) \/ StartAnswered(m, takes)
        PROVE  [CsrfNext]_csrfVars
    BY <1>l, <1>m, <1>s, <2>3 DEF RefreshAnswered, LogoutAnswered, StartAnswered
  <2>4. ASSUME NEW takes, LoginAnswered(m, takes) \/ RegisterAnswered(m, takes)
        PROVE  [CsrfNext]_csrfVars
    BY <1>l, <1>m, <1>s, <2>4 DEF LoginAnswered, RegisterAnswered, SignedIn, Refused
  <2>5. ASSUME NEW takes, ImpersonateAnswered(m, takes) \/ StopAnswered(m, takes)
        PROVE  [CsrfNext]_csrfVars
    BY <1>l, <1>m, <1>o, <2>5 DEF ImpersonateAnswered, StopAnswered, Refused
  <2>6. ASSUME NEW takes, NEW trusted, CallbackAnswered(m, takes, trusted)
        PROVE  [CsrfNext]_csrfVars
    BY <1>l, <1>m, <1>o, <2>6 DEF CallbackAnswered
  <2> QED
    BY <1>2, <2>1, <2>2, <2>3, <2>4, <2>5, <2>6 DEF IsAnswered
<1>3. CASE CookiesExpire \/ (\E m \in calls : Fail(m)) \/ CsrfStep
  BY <1>l, <1>m, <1>s, <1>3 DEF CookiesExpire, Fail, CsrfNext
<1> QED
  BY <1>1, <1>2, <1>3 DEF SignOnNext

(***************************************************************************)
(* No write of a page is refused for its token in the end, unless its      *)
(* cookie changed while it asked for another one: api/auth.ts,             *)
(* server/csrf.ts.                                                         *)
(***************************************************************************)
THEOREM WritesPass == SignOnSpec => []WritesGetThrough
<1>1. FlowInv /\ CsrfInv /\ [SignOnNext]_browserVars => FlowInv' /\ CsrfInv'
  <2> SUFFICES ASSUME FlowInv, CsrfInv, [SignOnNext]_browserVars
               PROVE  FlowInv' /\ CsrfInv'
    OBVIOUS
  <2>1. [CsrfNext]_csrfVars
    BY PagesWrite DEF browserVars
  <2>2. ASSUME UNCHANGED csrfVars PROVE CsrfInv'
    <3>1. UNCHANGED <<browser, browsers, write, post, unlucky>>
      BY <2>2 DEF csrfVars
    <3>2. TokenTypes' /\ SentOnce' /\ WritesGetThrough'
      BY <3>1 DEF CsrfInv, TokenTypes, SentOnce, WritesGetThrough, PostOK
    <3>3. WritesCarry'
      BY <3>1 DEF CsrfInv, WritesCarry, Carries, Unlucky, IsValidToken
    <3> QED
      BY <3>2, <3>3 DEF CsrfInv
  <2>3. CsrfInv'
    BY <2>1, <2>2, CsrfKeeps
  <2>4. FlowInv'
    BY FlowStep
  <2> QED
    BY <2>3, <2>4
<1>2. CsrfInv => WritesGetThrough
  BY DEF CsrfInv
<1>3. SignOnInit => FlowInv /\ CsrfInv
  BY FlowBegins, CsrfBegins DEF SignOnInit
<1> QED
  BY <1>1, <1>2, <1>3, PTL DEF SignOnSpec
-----------------------------------------------------------------------------
(***************************************************************************)
(* The pages on their way to a session.  The cookies hold a session that   *)
(* the server made, or none; the requests bear sessions that they held.    *)
(***************************************************************************)
WhoOK(m) ==
  /\ m.what \in {"login", "register", "impersonate"} => m.who \in Person
  /\ m.what = "callback" => m.who \in Person \cup {NoOne}

SessionsOK ==
  /\ DOMAIN server = {"phase", "way", "sessions", "live"} /\ server.phase \in Phase
  /\ Enforced => server.phase = "on"
  /\ Sessions \in Seq([user : Person, by : {Admin, NoOne}])
  /\ server.live \subseteq 1 .. Len(Sessions)
  /\ cookies.session \in 0 .. Len(Sessions)
  /\ cookies.fresh => cookies.session # 0
  /\ DOMAIN storage = {"acting", "enabled"} /\ storage.acting \in {Admin, NoOne}
  /\ \A m \in calls : WhoOK(m) /\ m.session \in 0 .. Len(Sessions)

(***************************************************************************)
(* A page waits for the answers to its own requests.  One that leaves, or  *)
(* has left, waits at most for where it goes; one that loads waits for one *)
(* answer of its loading; any other has come to rest where it belongs.     *)
(***************************************************************************)
Load == {"status", "me", "refresh", "again"}
Away(x) == x.path \in {"leaving", "provider"}
Mine(t) == {m \in calls : m.tab = t /\ ~ m.orphan}
Loadings(t) == {m \in Mine(t) : m.what \in Load}

AwayOK(t) ==
  /\ tab[t].load = "idle" /\ tab[t].known # "error"
  /\ \A m \in Mine(t) : m.what \in {"start", "callback"} /\ tab[t].path = "leaving"
  /\ \A m, n \in Mine(t) : m = n

HereOK(t) ==
  /\ \A m \in Mine(t) : m.what \notin {"start", "callback"}
  /\ \A m \in Loadings(t) : m.what = tab[t].load
  /\ \A m, n \in Loadings(t) : m = n
  /\ tab[t].load # "idle" => Loadings(t) # {}
  /\ tab[t].load = "idle" => Place(tab[t]) = tab[t].path

PageIsOK(t) == IF Away(tab[t]) THEN AwayOK(t) ELSE HereOK(t)

(***************************************************************************)
(* What a page that heard of the session asks, and what it then shows: the *)
(* user whose session it is, and a banner that claims what is so, or asks. *)
(***************************************************************************)
Held == cookies.session # 0 /\ (cookies.session \in server.live \/ cookies.fresh)

WillTell(m) ==
  /\ m.session = cookies.session
  /\ m.what = "again" => m.fresh
  /\ m.what # "refresh" /\ m.fresh => Held
  /\ m.what = "refresh" \/ ~ m.fresh => (cookies.fresh => cookies.session \in server.live)

Accounts == server.phase \in {"on", "bootstrap"}

Claims(t) ==
  tab[t].path = "app" /\ tab[t].user # NoOne /\ storage.acting # NoOne =>
    \/ Sessions[cookies.session].by = Admin
    \/ \E m \in Mine(t) : m.what = "verify" /\ m.session = cookies.session

Knows(x) ==
  \/ x.known = server.phase
  \/ server.phase = "on" /\ x.known = "bootstrap" /\ x.user # NoOne

ShowsIt(t) == Knows(tab[t]) /\ (Accounts => tab[t].user = Holder /\ Claims(t))

Hearing(t) ==
  IF tab[t].load = "idle"
    THEN Away(tab[t]) \/ (\E m \in Mine(t) : m.what = "logout") \/ ShowsIt(t)
    ELSE tab[t].load # "status" =>
           tab[t].known = server.phase /\ \A m \in Loadings(t) : WillTell(m)

SignOnInv ==
  /\ FlowInv /\ SessionsOK
  /\ \A t \in Tabs : PageIsOK(t)
  /\ \A t \in Tabs : t \in current \ failed => Hearing(t)

-----------------------------------------------------------------------------
(***************************************************************************)
(* One tab acts at a time.  What the others show stays as true as it was   *)
(* when the session stays as it was; when it does not, they have not heard *)
(* of it.                                                                  *)
(***************************************************************************)
Frozen(t) == tab'[t] = tab[t] /\ Mine(t)' = Mine(t)

Calm ==
  /\ server' = server /\ cookies'.session = cookies.session
  /\ cookies'.fresh # cookies.fresh => cookies.session \in server.live
  /\ storage'.acting \in {storage.acting, NoOne}

\* While the session stays as it is, so does whose it is, and what requests tell of it.
LEMMA CalmTells ==
  ASSUME Calm
  PROVE  /\ server' = server /\ cookies'.session = cookies.session
         /\ storage'.acting \in {storage.acting, NoOne}
         /\ Holder' = Holder /\ \A m : WillTell(m) => WillTell(m)'
<1>1. /\ server' = server /\ cookies'.session = cookies.session
      /\ cookies'.fresh # cookies.fresh => cookies.session \in server.live
      /\ storage'.acting \in {storage.acting, NoOne}
  BY DEF Calm
<1>2. Holder' = Holder
  <2>1. CASE cookies.session \in server.live
    BY <1>1, <2>1 DEF Holder, Sessions
  <2>2. CASE cookies.session \notin server.live
    BY <1>1, <2>2 DEF Holder, Sessions
  <2> QED
    BY <2>1, <2>2
<1>3. \A m : WillTell(m) => WillTell(m)'
  BY <1>1 DEF WillTell, Held
<1> QED
  BY <1>1, <1>2, <1>3

LEMMA FrozenStays ==
  ASSUME SignOnInv, NEW t \in Tabs, Frozen(t), server'.way = server.way
  PROVE  PageIsOK(t)' /\ (Calm /\ Hearing(t) => Hearing(t)')
<1>1. Loadings(t)' = Loadings(t)
  BY DEF Frozen, Loadings
<1>2. Place(tab[t])' = Place(tab[t])
  BY DEF Frozen, Place, Enforced
<1>3. PageIsOK(t)'
  BY <1>1, <1>2 DEF Frozen, SignOnInv, PageIsOK, AwayOK, HereOK, Away
<1>4. ASSUME Calm, Hearing(t)
      PROVE  Hearing(t)'
  <2>1. /\ server' = server /\ cookies'.session = cookies.session
        /\ storage'.acting \in {storage.acting, NoOne} /\ Holder' = Holder
        /\ \A m : WillTell(m) => WillTell(m)'
    BY <1>4, CalmTells
  <2>4. ShowsIt(t) => ShowsIt(t)'
    BY <2>1 DEF Frozen, ShowsIt, Knows, Accounts, Claims, Sessions
  <2> QED
    BY <1>1, <1>4, <2>1, <2>4 DEF Frozen, Hearing, Away
<1> QED
  BY <1>3, <1>4

LEMMA OneActs ==
  ASSUME SignOnInv, FlowInv', SessionsOK', server'.way = server.way, NEW t \in Tabs,
         \A s \in Tabs : s # t => Frozen(s), PageIsOK(t)',
         \A s \in Tabs : s # t /\ s \in current' \ failed' => s \in current \ failed /\ Calm,
         t \in current' \ failed' => Hearing(t)'
  PROVE  SignOnInv'
<1>1. \A s \in Tabs : PageIsOK(s)'
  BY FrozenStays
<1>2. \A s \in Tabs : s \in current' \ failed' => Hearing(s)'
  BY FrozenStays DEF SignOnInv
<1> QED
  BY <1>1, <1>2 DEF SignOnInv

\* Nobody waits for the answer, and no page changes.
LEMMA NoneActs ==
  ASSUME SignOnInv, FlowInv', SessionsOK', server'.way = server.way,
         \A s \in Tabs : Frozen(s),
         \A s \in Tabs : s \in current' \ failed' => s \in current \ failed /\ Calm
  PROVE  SignOnInv'
<1>1. \A s \in Tabs : PageIsOK(s)'
  BY FrozenStays
<1>2. \A s \in Tabs : s \in current' \ failed' => Hearing(s)'
  BY FrozenStays DEF SignOnInv
<1> QED
  BY <1>1, <1>2 DEF SignOnInv

-----------------------------------------------------------------------------
(***************************************************************************)
(* A page that is left waits for the address it goes to, and nobody else   *)
(* is concerned.                                                           *)
(***************************************************************************)
OthersIn(t, rest) ==
  /\ \A m \in rest : CallFields(m)
  /\ \A m \in calls : m.tab # t /\ ~ m.orphan => m \in rest
  /\ \A m \in rest : m.tab # t /\ ~ m.orphan => m \in calls

LEMMA LeavesPage ==
  ASSUME FlowTypes, NEW t \in Tabs, NEW x, NEW rest, OthersIn(t, rest),
         NEW next, next.tab = t, ~ next.orphan, Leaves(t, x, rest, next)
  PROVE  /\ tab'[t] = x /\ Mine(t)' = {next}
         /\ \A s \in Tabs : s # t => Frozen(s)
<1>1. /\ \A s \in Tabs : tab'[s] = IF s = t THEN x ELSE tab[s]
      /\ calls' = Abandoned(t, rest) \cup {next}
  BY DEF Leaves, FlowTypes
<1>2. \A m \in Abandoned(t, rest) : (m \in rest /\ m.tab # t) \/ (m.tab = t /\ m.orphan)
  <2> SUFFICES ASSUME NEW n \in rest, n.tab = t
               PROVE  [n EXCEPT !.orphan = TRUE].tab = t /\ [n EXCEPT !.orphan = TRUE].orphan
    BY DEF Abandoned
  <2> QED
    BY DEF OthersIn, CallFields
<1>3. \A m \in rest : m.tab # t => m \in Abandoned(t, rest)
  BY DEF Abandoned
<1>4. Mine(t)' = {next}
  BY <1>1, <1>2 DEF Mine
<1>5. ASSUME NEW s \in Tabs, s # t
      PROVE  Frozen(s)
  BY <1>1, <1>2, <1>3, <1>5 DEF Frozen, Mine, OthersIn
<1> QED
  BY <1>1, <1>4, <1>5

\* The fields of a request that is sent.
LEMMA CallIs ==
  ASSUME NEW t, NEW what, NEW who, NEW box
  PROVE  LET m == CallOf(t, what, who, box) IN
           /\ m.tab = t /\ m.what = what /\ m.who = who /\ ~ m.orphan
           /\ m.session = box.session /\ m.fresh = box.fresh
BY DEF CallOf

\* A page that opens has everything before it.
LEMMA OpensPage ==
  ASSUME FlowTypes, NEW t \in Tabs, NEW x, x.load = "status", ~ Away(x),
         NEW rest, OthersIn(t, rest), NEW box, Opens(t, x, rest, box)
  PROVE  /\ PageIsOK(t)' /\ Hearing(t)'
         /\ \A s \in Tabs : s # t => Frozen(s)
<1> DEFINE next == CallOf(t, "status", NoOne, box)
<1>1. next.tab = t /\ ~ next.orphan /\ next.what = "status" /\ Leaves(t, x, rest, next)
  BY CallIs DEF Opens
<1> HIDE DEF next
<1>2. /\ tab'[t] = x /\ Mine(t)' = {next}
      /\ \A s \in Tabs : s # t => Frozen(s)
  BY <1>1, LeavesPage
<1>3. Loadings(t)' = {next}
  BY <1>1, <1>2 DEF Loadings, Load
<1>4. PageIsOK(t)'
  BY <1>1, <1>2, <1>3 DEF PageIsOK, HereOK, Away
<1> QED
  BY <1>2, <1>4 DEF Hearing

\* Where a page comes to rest.
LEMMA SettledRests ==
  ASSUME NEW x, PageOK(x), ~ Away(x)
  PROVE  LET y == Settled(x) IN
           /\ PageOK(y) /\ y.load = x.load /\ y.known = x.known /\ y.user = x.user
           /\ x.load # "idle" => y.path = x.path
           /\ x.load = "idle" => \/ y.path = "leaving" /\ x.known # "error"
                                 \/ ~ Away(y) /\ Place(y) = y.path
<1> DEFINE y == [x EXCEPT !.path = Place(x)]
<1>1. PageOK(y) /\ y.path = Place(x) /\ y.load = x.load /\ y.known = x.known /\ y.user = x.user
      /\ y.error = x.error
  BY DEF PageOK
<1>2. Settled(x) = [y EXCEPT !.path = Place(y)]
  BY DEF Settled
<1> HIDE DEF y
<1> DEFINE z == Settled(x)
<1>3. PageOK(z) /\ z.path = Place(y) /\ z.load = y.load /\ z.known = y.known /\ z.user = y.user
      /\ z.error = y.error
  BY <1>1, <1>2 DEF PageOK
<1> HIDE DEF z
<1>4. CASE x.load # "idle"
  BY <1>1, <1>3, <1>4 DEF Place, z
<1>5. CASE x.load = "idle"
  <2>1. z.path = "leaving" => x.known # "error"
    BY <1>1, <1>3 DEF Place, Away
  <2>2. z.path # "provider"
    BY <1>1, <1>3 DEF Place, Away
  <2>3. z.path # "leaving" => Place(z) = z.path
    BY <1>1, <1>3 DEF Place, Away
  <2> QED
    BY <1>1, <1>3, <1>5, <2>1, <2>2, <2>3 DEF Away, z
<1> QED
  BY <1>4, <1>5

(***************************************************************************)
(* A page that goes on shows what it settles at, and waits for what is     *)
(* left of its requests, and for the next one.                             *)
(***************************************************************************)
Own(t, rest, next) == {m \in rest : m.tab = t /\ ~ m.orphan} \cup next

GoesOn(t, x, rest, next) ==
  /\ PageOK(x) /\ ~ Away(x) /\ OthersIn(t, rest)
  /\ \A m \in next : CallFields(m) /\ m.tab = t /\ ~ m.orphan
  /\ \A m \in Own(t, rest, next) :
       m.what \notin {"start", "callback"} /\ (m.what \in Load => m.what = x.load)
  /\ \A m, n \in Own(t, rest, next) : m.what \in Load /\ n.what \in Load => m = n
  /\ x.load # "idle" => \E m \in Own(t, rest, next) : m.what \in Load

LEMMA ShowsPage ==
  ASSUME FlowTypes, Enforced' = Enforced, NEW t \in Tabs, NEW x, NEW rest, NEW next,
         GoesOn(t, x, rest, next),
         NEW box, Shows(t, x, rest, next, box)
  PROVE  /\ PageIsOK(t)' /\ \A s \in Tabs : s # t => Frozen(s)
         /\ tab'[t] = Settled(x)
         /\ Settled(x).path # "leaving" =>
              /\ Own(t, rest, next) \subseteq Mine(t)'
              /\ \A m \in Mine(t)' : m \in Own(t, rest, next) \/ m.what = "verify"
              /\ Inside(Settled(x)) /\ ~ Inside(tab[t]) =>
                   \E m \in Mine(t)' : m.what = "verify" /\ m.session = box.session
<1> DEFINE y == Settled(x)
           own == Own(t, rest, next)
<1>1. /\ PageOK(y) /\ y.load = x.load /\ y.known = x.known
      /\ x.load # "idle" => y.path = x.path
      /\ x.load = "idle" => \/ y.path = "leaving" /\ x.known # "error"
                            \/ ~ Away(y) /\ Place(y) = y.path
  BY SettledRests DEF GoesOn
<1>2. CASE y.path = "leaving"
  <2> DEFINE start == CallOf(t, "start", NoOne, box)
  <2>1. Leaves(t, y, rest \cup next, start)
    BY <1>2 DEF Shows
  <2>2. start.tab = t /\ ~ start.orphan /\ start.what = "start"
    BY CallIs
  <2> HIDE DEF start, y
  <2>3. OthersIn(t, rest \cup next)
    BY DEF OthersIn, GoesOn
  <2>4. tab'[t] = y /\ Mine(t)' = {start} /\ \A s \in Tabs : s # t => Frozen(s)
    BY <2>1, <2>2, <2>3, LeavesPage
  <2>5. y.load = "idle" /\ y.known # "error"
    BY <1>1, <1>2 DEF GoesOn, Away
  <2>6. PageIsOK(t)'
    BY <1>2, <2>2, <2>4, <2>5 DEF PageIsOK, AwayOK, Away
  <2> QED
    BY <1>2, <2>4, <2>6 DEF y
<1>3. CASE y.path # "leaving"
  <2> DEFINE verify == CallOf(t, "verify", NoOne, box)
  <2>1. /\ tab' = [tab EXCEPT ![t] = y]
        /\ calls' = rest \cup next \cup
             IF Inside(y) /\ ~ Inside(tab[t]) THEN {verify} ELSE {}
    BY <1>3 DEF Shows
  <2>2. verify.tab = t /\ ~ verify.orphan /\ verify.what = "verify" /\ verify.session = box.session
    BY CallIs
  <2> HIDE DEF verify, y
  <2>3. /\ tab'[t] = y /\ \A s \in Tabs : s # t => tab'[s] = tab[s]
    BY <2>1 DEF FlowTypes
  <2>4. ASSUME NEW s \in Tabs, s # t
        PROVE  Frozen(s)
    BY <2>1, <2>2, <2>3, <2>4 DEF Frozen, Mine, GoesOn, OthersIn
  <2>5. Mine(t)' = own \cup (IF Inside(y) /\ ~ Inside(tab[t]) THEN {verify} ELSE {})
    BY <2>1, <2>2 DEF Mine, Own, GoesOn
  <2> HIDE DEF own
  <2>6. Loadings(t)' = {m \in own : m.what \in Load}
    BY <2>2, <2>5 DEF Loadings, Load
  <2>7. ~ Away(y) /\ (y.load = "idle" => Place(y) = y.path)
    BY <1>1, <1>3 DEF GoesOn, Away
  <2>8. PageIsOK(t)'
    <3>1. \A m \in Mine(t)' : m.what \notin {"start", "callback"}
      BY <2>2, <2>5 DEF GoesOn, own
    <3>2. /\ \A m \in Loadings(t)' : m.what = y.load
          /\ \A m, n \in Loadings(t)' : m = n
          /\ y.load # "idle" => Loadings(t)' # {}
      BY <1>1, <2>6 DEF GoesOn, own
    <3>3. Place(tab[t])' = Place(y)
      BY <2>3 DEF Place
    <3> QED
      BY <2>3, <2>7, <3>1, <3>2, <3>3 DEF PageIsOK, HereOK, Away
  <2> QED
    BY <2>2, <2>3, <2>4, <2>5, <2>8 DEF y, own
<1> QED
  BY <1>2, <1>3

\* A page at rest that has its user shows the session.
LEMMA ShowsHears ==
  ASSUME FlowTypes, Enforced' = Enforced, NEW t \in Tabs, NEW x, NEW rest, NEW next,
         GoesOn(t, x, rest, next), NEW box, Shows(t, x, rest, next, box),
         x.load = "idle", Knows(x)', Accounts' => x.user = Holder',
         box.session = cookies'.session,
         Inside(tab[t]) => x.user = NoOne \/ storage'.acting = NoOne
  PROVE  Hearing(t)'
<1> DEFINE y == Settled(x)
<1>1. /\ y.load = x.load /\ y.known = x.known /\ y.user = x.user
  BY SettledRests DEF GoesOn
<1>2. /\ tab'[t] = y
      /\ y.path # "leaving" /\ Inside(y) /\ ~ Inside(tab[t]) =>
           \E m \in Mine(t)' : m.what = "verify" /\ m.session = box.session
  BY ShowsPage
<1> HIDE DEF y
<1>3. CASE y.path = "leaving"
  BY <1>1, <1>2, <1>3 DEF Hearing, Away
<1>4. CASE y.path # "leaving"
  <2>1. Knows(tab[t])'
    BY <1>1, <1>2 DEF Knows
  <2>2. ASSUME Accounts'
        PROVE  (tab[t].user = Holder /\ Claims(t))'
    <3>1. y.user = Holder'
      BY <1>1, <2>2
    <3>2. ASSUME y.path = "app", y.user # NoOne, storage'.acting # NoOne
          PROVE  \E m \in Mine(t)' : m.what = "verify" /\ m.session = cookies'.session
      <4>1. Inside(y)
        BY <1>1, <2>2, <3>2 DEF Inside, Knows, Accounts
      <4> QED
        BY <1>1, <1>2, <1>4, <3>2, <4>1
    <3> QED
      BY <1>2, <3>1, <3>2 DEF Claims
  <2> QED
    BY <1>1, <1>2, <2>1, <2>2 DEF Hearing, ShowsIt
<1> QED
  BY <1>3, <1>4

\* A page that loads asks what will tell it of the session.
LEMMA ShowsAsks ==
  ASSUME FlowTypes, Enforced' = Enforced, NEW t \in Tabs, NEW x, NEW rest, NEW next,
         GoesOn(t, x, rest, next), NEW box, Shows(t, x, rest, next, box),
         x.load # "idle", x.known = server'.phase,
         \A m \in Own(t, rest, next) : m.what \in Load => WillTell(m)'
  PROVE  Hearing(t)'
<1>1. Settled(x).load = x.load /\ Settled(x).known = x.known /\ Settled(x).path # "leaving"
  BY SettledRests DEF GoesOn, Away
<1>2. /\ tab'[t] = Settled(x)
      /\ \A m \in Mine(t)' : m \in Own(t, rest, next) \/ m.what = "verify"
  BY <1>1, ShowsPage
<1>3. \A m \in Loadings(t)' : WillTell(m)'
  BY <1>2 DEF Loadings, Load
<1> QED
  BY <1>1, <1>2, <1>3 DEF Hearing

(***************************************************************************)
(* A form that is sent, or its answer, changes nothing of what the page    *)
(* knows.                                                                  *)
(***************************************************************************)
Form == {"login", "register", "choose", "impersonate", "stop"}

SameBut(x, y) ==
  /\ y.path = x.path /\ y.load = x.load /\ y.known = x.known /\ y.user = x.user
  /\ y.error = x.error

LEMMA FormStays ==
  ASSUME SignOnInv, NEW t \in Tabs, SameBut(tab[t], tab'[t]), ~ Away(tab[t]), Enforced' = Enforced,
         \A m \in Mine(t) : m \in Mine(t)' \/ m.what \in Form,
         \A m \in Mine(t)' : m \in Mine(t) \/ m.what \in Form
  PROVE  PageIsOK(t)' /\ (Hearing(t) /\ Calm => Hearing(t)')
<1>1. Loadings(t)' = Loadings(t)
  BY DEF Loadings, Load, Form
<1>2. HereOK(t)
  BY DEF SignOnInv, PageIsOK
<1>3. Place(tab[t])' = Place(tab[t])
  BY DEF SameBut, Place
<1>4. PageIsOK(t)'
  BY <1>1, <1>2, <1>3 DEF PageIsOK, HereOK, SameBut, Away, Form
<1>5. ASSUME Calm, Hearing(t)
      PROVE  Hearing(t)'
  <2>1. /\ server' = server /\ cookies'.session = cookies.session
        /\ storage'.acting \in {storage.acting, NoOne} /\ Holder' = Holder
        /\ \A m : WillTell(m) => WillTell(m)'
    BY <1>5, CalmTells
  <2>4. ShowsIt(t) => ShowsIt(t)'
    BY <2>1 DEF SameBut, ShowsIt, Knows, Accounts, Claims, Sessions, Form
  <2>5. \A m \in Mine(t) : m.what = "logout" => m \in Mine(t)'
    BY DEF Form
  <2> QED
    BY <1>1, <1>5, <2>1, <2>4, <2>5 DEF SameBut, Hearing, Away
<1> QED
  BY <1>4, <1>5

-----------------------------------------------------------------------------
(***************************************************************************)
(* Sessions are only added; the requests under way bear sessions that the  *)
(* cookies held.                                                           *)
(***************************************************************************)
Sends ==
  \A m \in calls' :
    \/ \E n \in calls : m.session = n.session /\ m.who = n.who /\ m.what = n.what
    \/ m.session \in {cookies.session, cookies'.session} /\ WhoOK(m)

LEMMA SessionsStay ==
  ASSUME SessionsOK, Sends, DOMAIN server' = DOMAIN server, server'.phase \in Phase,
         Enforced' => server'.phase = "on",
         Sessions' \in Seq([user : Person, by : {Admin, NoOne}]), Len(Sessions) <= Len(Sessions'),
         server'.live \subseteq 1 .. Len(Sessions'),
         cookies'.session \in 0 .. Len(Sessions'), cookies'.fresh => cookies'.session # 0,
         DOMAIN storage' = DOMAIN storage, storage'.acting \in {Admin, NoOne}
  PROVE  SessionsOK'
<1>1. Len(Sessions) \in Nat /\ Len(Sessions') \in Nat
  BY DEF SessionsOK
<1>2. \A m \in calls' : WhoOK(m) /\ m.session \in 0 .. Len(Sessions')
  BY <1>1 DEF SessionsOK, Sends, WhoOK
<1> QED
  BY <1>2 DEF SessionsOK, WhoOK

\* Nothing of the session changes but whether the access token is good.
LEMMA SessionsSame ==
  ASSUME SessionsOK, Sends, server' = server, cookies'.session = cookies.session,
         cookies'.fresh => cookies'.session # 0,
         DOMAIN storage' = DOMAIN storage, storage'.acting \in {storage.acting, Admin, NoOne}
  PROVE  SessionsOK'
<1>1. Sessions' = Sessions /\ Len(Sessions) <= Len(Sessions') /\ Enforced' = Enforced
  BY DEF SessionsOK, Sessions, Enforced
<1> QED
  BY <1>1, SessionsStay DEF SessionsOK

LEMMA SessionAdded ==
  ASSUME SessionsOK, NEW u \in Person, NEW by \in {Admin, NoOne}, NewSession(u, by)
  PROVE  /\ DOMAIN server' = DOMAIN server /\ server'.phase \in Phase /\ server'.way = server.way
         /\ Enforced' => server'.phase = "on"
         /\ server'.phase = IF server.phase = "bootstrap" THEN "on" ELSE server.phase
         /\ Sessions' \in Seq([user : Person, by : {Admin, NoOne}])
         /\ Len(Sessions') = Len(Sessions) + 1
         /\ Sessions'[Len(Sessions')] = [user |-> u, by |-> by]
         /\ server'.live \subseteq 1 .. Len(Sessions') /\ Len(Sessions') \in server'.live
<1>1. Sessions' = Append(Sessions, [user |-> u, by |-> by])
  BY DEF SessionsOK, NewSession, Sessions
<1>2. /\ Sessions' \in Seq([user : Person, by : {Admin, NoOne}])
      /\ Len(Sessions') = Len(Sessions) + 1
      /\ Sessions'[Len(Sessions')] = [user |-> u, by |-> by]
  BY <1>1, AppendProperties DEF SessionsOK
<1>3. server'.live = server.live \cup {Len(Sessions')}
  BY <1>2 DEF SessionsOK, NewSession
<1>4. /\ DOMAIN server' = DOMAIN server /\ server'.way = server.way
      /\ server'.phase = IF server.phase = "bootstrap" THEN "on" ELSE server.phase
  BY DEF SessionsOK, NewSession
<1>5. Len(Sessions) \in Nat
  BY DEF SessionsOK
<1> QED
  BY <1>2, <1>3, <1>4, <1>5 DEF SessionsOK, Enforced, Phase

\* The cookies that come with a new session, when the browser takes them.
LEMMA SessionTaken ==
  ASSUME SessionsOK, FlowTypes, NEW m, NEW takes, NEW box, DOMAIN box = {"session", "fresh", "flow"},
         box.session = Len(Sessions) + 1, box.fresh = TRUE, Takes(m, box, takes),
         Len(Sessions') = Len(Sessions) + 1
  PROVE  /\ cookies'.session \in 0 .. Len(Sessions') /\ (cookies'.fresh => cookies'.session # 0)
         /\ ~ m.orphan => cookies'.session = Len(Sessions') /\ cookies'.fresh
<1>1. Len(Sessions) \in Nat
  BY DEF SessionsOK
<1> QED
  BY <1>1 DEF SessionsOK, Takes

\* What a page sends when it is left, opened, or goes on.
LEMMA LeftBehind ==
  ASSUME NEW t, NEW rest, \A n \in rest : CallFields(n), NEW m \in Abandoned(t, rest)
  PROVE  \E n \in rest : m.session = n.session /\ m.who = n.who /\ m.what = n.what
<1>1. CASE m \in rest
  BY <1>1
<1>2. CASE \E n \in rest : m = [n EXCEPT !.orphan = TRUE]
  BY <1>2 DEF CallFields
<1> QED
  BY <1>1, <1>2 DEF Abandoned

LEMMA LeavesSends ==
  ASSUME NEW t \in Tabs, NEW x, NEW rest, \A n \in rest : CallFields(n), NEW next,
         Leaves(t, x, rest, next), NEW m \in calls'
  PROVE  m = next \/ \E n \in rest : m.session = n.session /\ m.who = n.who /\ m.what = n.what
BY LeftBehind DEF Leaves

LEMMA OpensSends ==
  ASSUME FlowTypes, SessionsOK, NEW t \in Tabs, NEW x, NEW rest, rest \subseteq calls,
         NEW box, box.session = cookies'.session, Opens(t, x, rest, box)
  PROVE  Sends
<1> SUFFICES ASSUME NEW m \in calls'
             PROVE  \/ \E n \in calls : m.session = n.session /\ m.who = n.who /\ m.what = n.what
                    \/ m.session \in {cookies.session, cookies'.session} /\ WhoOK(m)
  BY DEF Sends
<1>1. Leaves(t, x, rest, CallOf(t, "status", NoOne, box)) /\ \A n \in rest : CallFields(n)
  BY DEF Opens, FlowTypes
<1>2. \/ m = CallOf(t, "status", NoOne, box)
      \/ \E n \in rest : m.session = n.session /\ m.who = n.who /\ m.what = n.what
  BY <1>1, LeavesSends
<1> QED
  BY <1>2, CallIs DEF WhoOK

LEMMA ShowsSends ==
  ASSUME FlowTypes, SessionsOK, NEW t \in Tabs, NEW x, NEW rest, rest \subseteq calls,
         NEW next, \A n \in next : CallFields(n) /\ WhoOK(n) /\
                                   n.session \in {cookies.session, cookies'.session},
         NEW box, box.session \in {cookies.session, cookies'.session}, Shows(t, x, rest, next, box)
  PROVE  Sends
<1> SUFFICES ASSUME NEW m \in calls'
             PROVE  \/ \E n \in calls : m.session = n.session /\ m.who = n.who /\ m.what = n.what
                    \/ m.session \in {cookies.session, cookies'.session} /\ WhoOK(m)
  BY DEF Sends
<1>1. \A n \in rest \cup next : CallFields(n)
  BY DEF FlowTypes
<1>2. \/ m \in {CallOf(t, "start", NoOne, box), CallOf(t, "verify", NoOne, box)}
      \/ \E n \in rest \cup next : m.session = n.session /\ m.who = n.who /\ m.what = n.what
  <2>1. CASE Settled(x).path = "leaving"
    BY <1>1, <2>1, LeavesSends DEF Shows
  <2>2. CASE Settled(x).path # "leaving"
    BY <2>2 DEF Shows
  <2> QED
    BY <2>1, <2>2
<1>3. \A what \in {"start", "verify"} :
        /\ WhoOK(CallOf(t, what, NoOne, box))
        /\ CallOf(t, what, NoOne, box).session = box.session
  BY CallIs DEF WhoOK
<1>4. CASE \E n \in next : m.session = n.session /\ m.who = n.who /\ m.what = n.what
  BY <1>4 DEF WhoOK
<1> QED
  BY <1>2, <1>3, <1>4

-----------------------------------------------------------------------------
\* What the invariant says of a tab and its requests.
LEMMA PageFacts ==
  ASSUME SignOnInv
  PROVE  /\ FlowTypes /\ SessionsOK
         /\ \A t \in Tabs : PageOK(tab[t]) /\ PageIsOK(t) /\ (t \in current \ failed => Hearing(t))
         /\ \A m \in calls : CallFields(m) /\ m.tab \in Tabs /\ (~ m.orphan => m \in Mine(m.tab))
         /\ \A t \in Tabs : OthersIn(t, calls)
         /\ \A m \in calls : OthersIn(m.tab, calls \ {m})
         /\ \A t \in Tabs : ~ Away(tab[t]) => HereOK(t)
         /\ \A t \in Tabs : \A m \in Mine(t) : m.what \notin {"start", "callback"} => ~ Away(tab[t])
         /\ \A t \in Tabs : tab[t].load = "idle" => Loadings(t) = {}
<1>1. FlowTypes /\ SessionsOK
  BY DEF SignOnInv, FlowInv
<1>2. \A t \in Tabs : PageIsOK(t)
  BY DEF SignOnInv
<1>3. \A t \in Tabs : \A m \in Mine(t) : m.what \notin {"start", "callback"} => ~ Away(tab[t])
  BY <1>2 DEF PageIsOK, AwayOK
<1>4. \A t \in Tabs : tab[t].load = "idle" => Loadings(t) = {}
  <2> SUFFICES ASSUME NEW t \in Tabs, tab[t].load = "idle", NEW m \in Loadings(t)
               PROVE  FALSE
    OBVIOUS
  <2>1. m \in Mine(t) /\ m.what \in Load
    BY DEF Loadings
  <2>2. ~ Away(tab[t])
    BY <1>3, <2>1 DEF Load
  <2> QED
    BY <1>2, <2>1, <2>2 DEF PageIsOK, HereOK, Load
<1>5. \A m \in calls : CallFields(m) /\ m.tab \in Tabs
  BY <1>1 DEF FlowTypes, CallFields
<1> QED
  BY <1>1, <1>2, <1>3, <1>4, <1>5 DEF SignOnInv, FlowTypes, Mine, OthersIn, PageIsOK

\* Nothing that tells of the session changes, and one page acts.
LEMMA CalmStep ==
  ASSUME SignOnInv, FlowInv', Sends, UNCHANGED <<server, cookies, storage>>, NEW t \in Tabs,
         \A s \in Tabs : s # t => Frozen(s), PageIsOK(t)',
         \A s \in Tabs : s # t /\ s \in current' \ failed' => s \in current \ failed,
         t \in current' \ failed' => Hearing(t)'
  PROVE  SignOnInv'
<1>1. SessionsOK'
  BY PageFacts, SessionsSame DEF SessionsOK
<1>2. Calm /\ server'.way = server.way
  BY DEF Calm
<1> QED
  BY <1>1, <1>2, OneActs

\* A form of a page is sent, or refused.
LEMMA FormStep ==
  ASSUME SignOnInv, FlowInv', Sends, UNCHANGED <<server, cookies, storage, current, failed>>,
         NEW t \in Tabs,
         \A s \in Tabs : s # t => Frozen(s), SameBut(tab[t], tab'[t]), ~ Away(tab[t]),
         \A m \in Mine(t) : m \in Mine(t)' \/ m.what \in Form,
         \A m \in Mine(t)' : m \in Mine(t) \/ m.what \in Form
  PROVE  SignOnInv'
<1>1. Calm /\ Enforced' = Enforced
  BY DEF Calm, Enforced
<1>2. PageIsOK(t)' /\ (Hearing(t) => Hearing(t)')
  BY <1>1, FormStays
<1> QED
  BY <1>2, CalmStep, PageFacts

LEMMA SubmitHears ==
  ASSUME SignOnInv, FlowInv', NEW t \in Tabs, NEW what \in Form, NEW who,
         what \in {"login", "register", "impersonate"} => who \in Person,
         ~ Away(tab[t]), Submit(t, what, who)
  PROVE  SignOnInv'
<1> DEFINE sent == CallOf(t, what, who, cookies)
<1>0. PageOK(tab[t]) /\ DOMAIN tab = Tabs
  BY PageFacts DEF FlowTypes
<1>1. sent.tab = t /\ sent.what = what /\ sent.who = who /\ ~ sent.orphan
      /\ sent.session = cookies.session
  BY CallIs
<1>2. /\ UNCHANGED <<server, cookies, storage, current, failed>>
      /\ tab' = [tab EXCEPT ![t].busy = TRUE] /\ calls' = calls \cup {sent}
  BY DEF Submit
<1> HIDE DEF sent
<1>3. SameBut(tab[t], tab'[t]) /\ \A s \in Tabs : s # t => tab'[s] = tab[s]
  BY <1>0, <1>2 DEF SameBut, PageOK
<1>4. Sends
  BY <1>1, <1>2 DEF Sends, WhoOK, Form
<1>5. /\ \A s \in Tabs : s # t => Frozen(s)
      /\ \A m \in Mine(t) : m \in Mine(t)'
      /\ \A m \in Mine(t)' : m \in Mine(t) \/ m.what \in Form
  BY <1>1, <1>2, <1>3 DEF Frozen, Mine
<1> QED
  BY <1>2, <1>3, <1>4, <1>5, FormStep

LEMMA RefusedHears ==
  ASSUME SignOnInv, FlowInv', NEW m \in calls, m.what \in Form, Refused(m)
  PROVE  SignOnInv'
<1>0. /\ m.tab \in Tabs /\ PageOK(tab[m.tab]) /\ DOMAIN tab = Tabs
      /\ ~ m.orphan => ~ Away(tab[m.tab])
  BY PageFacts DEF FlowTypes, Form
<1>1. /\ UNCHANGED <<server, cookies, storage, current, failed>>
      /\ calls' = calls \ {m}
      /\ tab' = IF m.orphan THEN tab ELSE [tab EXCEPT ![m.tab].busy = FALSE]
  BY DEF Refused
<1>2. Sends
  BY <1>1 DEF Sends
<1>3. CASE m.orphan
  <2>1. \A s \in Tabs : Frozen(s)
    BY <1>1, <1>3 DEF Frozen, Mine
  <2>2. SessionsOK' /\ Calm
    BY <1>1, <1>2, PageFacts, SessionsSame DEF SessionsOK, Calm
  <2> QED
    BY <1>1, <2>1, <2>2, NoneActs
<1>4. CASE ~ m.orphan
  <2>1. SameBut(tab[m.tab], tab'[m.tab]) /\ \A s \in Tabs : s # m.tab => tab'[s] = tab[s]
    BY <1>0, <1>1, <1>4 DEF SameBut, PageOK
  <2>2. /\ \A s \in Tabs : s # m.tab => Frozen(s)
        /\ \A n \in Mine(m.tab) : n \in Mine(m.tab)' \/ n.what \in Form
        /\ \A n \in Mine(m.tab)' : n \in Mine(m.tab)
    BY <1>1, <2>1 DEF Frozen, Mine
  <2> QED
    BY <1>0, <1>1, <1>2, <1>4, <2>1, <2>2, FormStep
<1> QED
  BY <1>3, <1>4

\* Each thing that the user does.
LEMMA DoesHear ==
  ASSUME SignOnInv, FlowInv', NEW t \in Tabs, Does(t)
  PROVE  SignOnInv'
<1>0. /\ FlowTypes /\ SessionsOK /\ PageOK(tab[t]) /\ DOMAIN tab = Tabs
      /\ OthersIn(t, calls) /\ (~ Away(tab[t]) => HereOK(t))
      /\ tab[t].load = "idle" => Loadings(t) = {}
      /\ tab[t].known = "error" => ~ Away(tab[t])
  BY PageFacts DEF FlowTypes, PageIsOK, AwayOK
<1>w. UNCHANGED <<server, cookies, storage>>
  BY DEF Does, Open, Retry, Register, Stop, ClickLogout, StartOidcSignIn, SubmitLogin, Impersonate,
         Choose, Authorise, Submit
<1>e. Enforced' = Enforced
  BY <1>w DEF Enforced
<1>1. ASSUME NEW path \in {"app", "login"}, Open(t, path)
      PROVE  SignOnInv'
  <2>1. Opens(t, Opened(path), calls, cookies) /\ current' = current \cup {t}
    BY <1>1 DEF Open
  <2>2. failed' = failed \ {t}
    BY <2>1 DEF Opens
  <2>3. Opened(path).load = "status" /\ ~ Away(Opened(path))
    BY DEF Opened, Away
  <2>4. PageIsOK(t)' /\ Hearing(t)' /\ \A s \in Tabs : s # t => Frozen(s)
    BY <1>0, <2>1, <2>3, OpensPage
  <2>5. Sends
    BY <1>0, <1>w, <2>1, OpensSends
  <2> QED
    BY <1>w, <2>1, <2>2, <2>4, <2>5, CalmStep
<1>2. CASE Retry(t)
  <2> DEFINE sent == CallOf(t, "status", NoOne, cookies)
  <2>1. sent.tab = t /\ sent.what = "status" /\ ~ sent.orphan /\ sent.session = cookies.session
    BY CallIs
  <2>2. /\ tab[t].known = "error" /\ tab[t].load = "idle"
        /\ tab' = [tab EXCEPT ![t].load = "status"] /\ calls' = calls \cup {sent}
        /\ current' = current \cup {t} /\ failed' = failed \ {t}
    BY <1>2 DEF Retry
  <2> HIDE DEF sent
  <2>3. /\ tab'[t].load = "status" /\ tab'[t].path = tab[t].path
        /\ \A s \in Tabs : s # t => tab'[s] = tab[s]
    BY <1>0, <2>2 DEF PageOK
  <2>4. /\ \A s \in Tabs : s # t => Frozen(s)
        /\ Mine(t)' = Mine(t) \cup {sent}
    BY <2>1, <2>2, <2>3 DEF Frozen, Mine
  <2>5. Loadings(t)' = {sent}
    BY <1>0, <2>1, <2>2, <2>4 DEF Loadings, Load
  <2>6. PageIsOK(t)' /\ Hearing(t)'
    BY <1>0, <2>1, <2>2, <2>3, <2>4, <2>5 DEF PageIsOK, HereOK, Away, Hearing
  <2>7. Sends
    BY <2>1, <2>2 DEF Sends, WhoOK
  <2> QED
    BY <1>w, <2>2, <2>4, <2>6, <2>7, CalmStep
<1>3. CASE Register(t) \/ Stop(t)
  BY <1>3, SubmitHears, SignOnAssumption DEF Register, Stop, Inside, Away, Form
<1>4. ASSUME NEW u \in Person, SubmitLogin(t, u) \/ Impersonate(t, u)
      PROVE  SignOnInv'
  BY <1>4, SubmitHears DEF SubmitLogin, Impersonate, Inside, Away, Form
<1>5. ASSUME NEW who, Choose(t, who)
      PROVE  SignOnInv'
  BY <1>5, SubmitHears DEF Choose, Away, Form
<1>6. CASE ClickLogout(t)
  <2> DEFINE x == [tab[t] EXCEPT !.user = NoOne, !.path = "login"]
             sent == CallOf(t, "logout", NoOne, cookies)
  <2>1. sent.tab = t /\ sent.what = "logout" /\ ~ sent.orphan /\ sent.session = cookies.session
        /\ CallFields(sent)
    BY CallIs, SentCall
  <2>2. PageOK(x) /\ x.load = tab[t].load /\ x.path = "login" /\ x.known = tab[t].known
    BY <1>0 DEF PageOK
  <2>3. /\ Shows(t, x, calls, {sent}, cookies) /\ tab[t].load = "idle" /\ ~ Away(tab[t])
        /\ UNCHANGED <<current, failed>>
    BY <1>6 DEF ClickLogout, Inside, Away
  <2> HIDE DEF x, sent
  <2>4. Own(t, calls, {sent}) = Mine(t) \cup {sent}
    BY DEF Own, Mine
  <2>5. \A m \in Mine(t) : m.what \notin Load \cup {"start", "callback"}
    BY <1>0, <2>3 DEF HereOK, Loadings
  <2>6. GoesOn(t, x, calls, {sent})
    BY <1>0, <2>1, <2>2, <2>3, <2>4, <2>5 DEF GoesOn, Away, Load
  <2>7. /\ PageIsOK(t)' /\ \A s \in Tabs : s # t => Frozen(s)
        /\ tab'[t] = Settled(x)
        /\ Settled(x).path # "leaving" => sent \in Mine(t)'
    BY <1>0, <1>e, <2>3, <2>4, <2>6, ShowsPage
  <2>8. Settled(x).load = "idle"
    BY <2>2, <2>3, SettledRests DEF Away
  <2>9. Hearing(t)'
    BY <2>1, <2>7, <2>8 DEF Hearing, Away
  <2>10. Sends
    BY <1>0, <2>1, <2>3, ShowsSends DEF WhoOK
  <2> QED
    BY <1>w, <2>3, <2>7, <2>9, <2>10, CalmStep
<1>7. CASE StartOidcSignIn(t)
  <2> DEFINE x == [tab[t] EXCEPT !.path = "leaving"]
             sent == CallOf(t, "start", NoOne, cookies)
  <2>1. sent.tab = t /\ sent.what = "start" /\ ~ sent.orphan /\ sent.session = cookies.session
    BY CallIs
  <2>2. x.load = tab[t].load /\ x.path = "leaving" /\ x.known = tab[t].known
    BY <1>0 DEF PageOK
  <2>3. /\ Leaves(t, x, calls, sent) /\ tab[t].load = "idle" /\ tab[t].known # "error"
        /\ UNCHANGED <<current, failed>>
    BY <1>7 DEF StartOidcSignIn
  <2> HIDE DEF x, sent
  <2>4. tab'[t] = x /\ Mine(t)' = {sent} /\ \A s \in Tabs : s # t => Frozen(s)
    BY <1>0, <2>1, <2>3, LeavesPage
  <2>5. PageIsOK(t)' /\ Hearing(t)'
    BY <2>1, <2>2, <2>3, <2>4 DEF PageIsOK, AwayOK, Away, Hearing
  <2>6. Sends
    <3>1. \A m \in calls' :
            m = sent \/ \E n \in calls : m.session = n.session /\ m.who = n.who /\ m.what = n.what
      BY <1>0, <2>3, LeavesSends DEF OthersIn
    <3> QED
      BY <2>1, <3>1 DEF Sends, WhoOK
  <2> QED
    BY <1>w, <2>3, <2>4, <2>5, <2>6, CalmStep
<1>8. ASSUME NEW who \in {Admin, NoOne}, Authorise(t, who)
      PROVE  SignOnInv'
  <2> DEFINE sent == [CallOf(t, "callback", who, cookies) EXCEPT !.state = tab[t].flow]
  <2>1. /\ sent.tab = t /\ sent.what = "callback" /\ ~ sent.orphan /\ sent.session = cookies.session
        /\ sent.who = who
    BY DEF CallOf
  <2>2. /\ tab[t].path = "provider" /\ tab' = [tab EXCEPT ![t].path = "leaving"]
        /\ calls' = calls \cup {sent} /\ UNCHANGED <<current, failed>>
    BY <1>8 DEF Authorise
  <2> HIDE DEF sent
  <2>3. AwayOK(t) /\ Mine(t) = {}
    <3>1. AwayOK(t)
      BY <2>2, PageFacts DEF PageIsOK, Away
    <3> QED
      BY <2>2, <3>1 DEF AwayOK
  <2>4. /\ tab'[t].path = "leaving" /\ tab'[t].load = tab[t].load /\ tab'[t].known = tab[t].known
        /\ \A s \in Tabs : s # t => tab'[s] = tab[s]
    BY <1>0, <2>2 DEF PageOK
  <2>5. Mine(t)' = {sent} /\ \A s \in Tabs : s # t => Frozen(s)
    BY <2>1, <2>2, <2>3, <2>4 DEF Frozen, Mine
  <2>6. PageIsOK(t)' /\ Hearing(t)'
    BY <2>1, <2>3, <2>4, <2>5 DEF PageIsOK, AwayOK, Away, Hearing
  <2>7. Sends
    BY <2>1, <2>2, SignOnAssumption DEF Sends, WhoOK
  <2> QED
    BY <1>w, <2>2, <2>5, <2>6, <2>7, CalmStep
<1>9. CASE UNCHANGED <<tab, calls, current, failed>>
  <2>1. \A s \in Tabs : Frozen(s)
    BY <1>9 DEF Frozen, Mine
  <2>2. SessionsOK' /\ Calm
    BY <1>0, <1>9, <1>w, SessionsSame DEF SessionsOK, Calm, Sends
  <2> QED
    BY <1>9, <1>w, <2>1, <2>2, NoneActs
<1> QED
  BY <1>1, <1>2, <1>3, <1>4, <1>5, <1>6, <1>7, <1>8, <1>9 DEF Does

-----------------------------------------------------------------------------
(***************************************************************************)
(* A page whose loading is answered, and what it asks next.                *)
(***************************************************************************)
LEMMA LoadingAnswered ==
  ASSUME SignOnInv, NEW m \in calls, ~ m.orphan, m.what \in Load,
         NEW x, PageOK(x), x.path = tab[m.tab].path, NEW next, NEW box,
         \/ x.load = "idle" /\ next = {}
         \/ x.load \in Load /\ next = {CallOf(m.tab, x.load, NoOne, box)}
  PROVE  /\ GoesOn(m.tab, x, calls \ {m}, next)
         /\ \A n \in Own(m.tab, calls \ {m}, next) : n.what \in Load => n \in next
         /\ ~ Inside(tab[m.tab]) /\ tab[m.tab].load = m.what
         /\ m.tab \in current \ failed /\ m.what # "status" =>
              tab[m.tab].known = server.phase /\ WillTell(m)
<1> DEFINE t == m.tab
           own == Own(t, calls \ {m}, next)
<1>0. /\ t \in Tabs /\ m \in Mine(t) /\ m \in Loadings(t) /\ ~ Away(tab[t]) /\ HereOK(t)
      /\ OthersIn(t, calls \ {m}) /\ (t \in current \ failed => Hearing(t))
  BY PageFacts DEF Load, Loadings
<1>1. \A n \in Mine(t) \ {m} : n.what \notin Load \cup {"start", "callback"}
  BY <1>0 DEF HereOK, Loadings
<1>2. \A n \in next : /\ CallFields(n) /\ n.tab = t /\ ~ n.orphan /\ n.what = x.load /\ n.what \in Load
  BY <1>0, CallIs, SentCall
<1>3. \A n \in own : n \in Mine(t) \ {m} \/ n \in next
  BY DEF Own, Mine
<1>4. next \subseteq own
  BY DEF Own
<1> HIDE DEF own
<1>5. \A n \in own : n.what \in Load => n \in next
  BY <1>1, <1>3
<1>6. GoesOn(t, x, calls \ {m}, next)
  <2>1. \A n \in own : n.what \notin {"start", "callback"} /\ (n.what \in Load => n.what = x.load)
    BY <1>1, <1>2, <1>3 DEF Load
  <2>2. \A n, k \in own : n.what \in Load /\ k.what \in Load => n = k
    BY <1>5
  <2>3. x.load # "idle" => \E n \in own : n.what \in Load
    BY <1>2, <1>4
  <2> QED
    BY <1>0, <1>2, <2>1, <2>2, <2>3 DEF GoesOn, Away, own
<1>7. tab[t].load = m.what /\ ~ Inside(tab[t])
  BY <1>0 DEF HereOK, Inside, Load
<1>8. ASSUME t \in current \ failed, m.what # "status"
      PROVE  tab[t].known = server.phase /\ WillTell(m)
  BY <1>0, <1>7, <1>8 DEF Hearing, Load
<1> QED
  BY <1>5, <1>6, <1>7, <1>8 DEF own

\* What the page does with an answer of its loading that changes no session.
LEMMA LoadingGoesOn ==
  ASSUME SignOnInv, FlowInv', NEW m \in calls, ~ m.orphan, m.what \in Load,
         NEW x, PageOK(x), x.path = tab[m.tab].path, NEW next, NEW box,
         \/ x.load = "idle" /\ next = {}
         \/ x.load \in Load /\ next = {CallOf(m.tab, x.load, NoOne, box)},
         box.session = cookies'.session,
         Shows(m.tab, x, calls \ {m}, next, box),
         server' = server, cookies'.fresh => cookies'.session # 0,
         DOMAIN storage' = DOMAIN storage, storage'.acting = storage.acting,
         cookies'.session \in 0 .. Len(Sessions),
         failed' = failed,
         \A s \in current' : s \in current /\ Calm,
         m.tab \in current \ failed /\ Calm /\ x.load = "idle" =>
           Knows(x) /\ (Accounts => x.user = Holder'),
         m.tab \in current \ failed /\ Calm /\ x.load # "idle" =>
           /\ x.known = server.phase
           /\ WillTell(CallOf(m.tab, x.load, NoOne, box))'
  PROVE  SignOnInv'
<1> DEFINE t == m.tab
<1>0. /\ FlowTypes /\ SessionsOK /\ t \in Tabs /\ Enforced' = Enforced
  BY PageFacts DEF Enforced
<1>1. /\ GoesOn(t, x, calls \ {m}, next) /\ ~ Inside(tab[t])
      /\ \A n \in Own(t, calls \ {m}, next) : n.what \in Load => n \in next
  BY LoadingAnswered
<1>2. PageIsOK(t)' /\ \A s \in Tabs : s # t => Frozen(s)
  BY <1>0, <1>1, ShowsPage
<1>3. \A n \in next : CallFields(n) /\ WhoOK(n) /\ n.session \in {cookies.session, cookies'.session}
  BY <1>0, CallIs, SentCall DEF WhoOK, Load
<1>4. Sends
  BY <1>0, <1>3, ShowsSends
<1>5. SessionsOK'
  <2>1. Sessions' = Sessions /\ Len(Sessions) \in Nat /\ Len(Sessions) <= Len(Sessions')
    BY <1>0 DEF SessionsOK, Sessions
  <2> QED
    BY <1>0, <1>4, <2>1, SessionsStay DEF SessionsOK
<1>6. ASSUME t \in current' \ failed'
      PROVE  Hearing(t)'
  <2>1. t \in current \ failed /\ Calm
    BY <1>6
  <2>2. CASE x.load = "idle"
    <3>1. Knows(x)' /\ (Accounts' => x.user = Holder')
      BY <2>1, <2>2 DEF Knows, Accounts
    <3> QED
      BY <1>0, <1>1, <2>2, <3>1, ShowsHears
  <2>3. CASE x.load # "idle"
    <3>1. x.known = server'.phase /\ \A n \in next : WillTell(n)'
      BY <2>1, <2>3
    <3> QED
      BY <1>0, <1>1, <2>3, <3>1, ShowsAsks
  <2> QED
    BY <2>2, <2>3
<1> QED
  BY <1>0, <1>2, <1>5, <1>6, OneActs

LEMMA StatusHears ==
  ASSUME SignOnInv, FlowInv', NEW m \in calls, StatusAnswered(m)
  PROVE  SignOnInv'
<1> DEFINE t == m.tab
           x == [tab[t] EXCEPT !.known = server.phase]
           me == [x EXCEPT !.load = "me"]
           off == [x EXCEPT !.load = "idle", !.user = NoOne]
<1>0. /\ FlowTypes /\ SessionsOK /\ t \in Tabs /\ PageOK(tab[t])
      /\ ~ m.orphan /\ m.what = "status" /\ m.what \in Load
  BY PageFacts DEF StatusAnswered, Loads, Load
<1>1. /\ UNCHANGED <<server, cookies, current, failed>> /\ Calm
      /\ DOMAIN storage' = DOMAIN storage /\ storage'.acting = storage.acting
  BY <1>0 DEF StatusAnswered, Calm, SessionsOK
<1>2. PageOK(me) /\ me.path = tab[t].path /\ me.load = "me" /\ me.known = server.phase
  BY <1>0 DEF PageOK
<1>3. PageOK(off) /\ off.path = tab[t].path /\ off.load = "idle" /\ off.known = server.phase
  BY <1>0 DEF PageOK
<1>4. \/ Shows(t, me, calls \ {m}, {CallOf(t, "me", NoOne, cookies)}, cookies)
      \/ Shows(t, off, calls \ {m}, {}, cookies) /\ ~ Accounts
  BY <1>0 DEF StatusAnswered, Accounts
<1> HIDE DEF x, me, off
<1>5. WillTell(CallOf(t, "me", NoOne, cookies))'
  BY <1>0, <1>1, CallIs DEF WillTell, Held, SessionsOK
<1>6. Knows(off)
  BY <1>3 DEF Knows
<1>7. cookies'.fresh => cookies'.session # 0
  BY <1>0, <1>1 DEF SessionsOK
<1>8. cookies'.session \in 0 .. Len(Sessions)
  BY <1>0, <1>1 DEF SessionsOK
<1>9. CASE Shows(t, me, calls \ {m}, {CallOf(t, "me", NoOne, cookies)}, cookies)
  BY <1>0, <1>1, <1>2, <1>5, <1>7, <1>8, <1>9, LoadingGoesOn DEF Load
<1>10. CASE Shows(t, off, calls \ {m}, {}, cookies) /\ ~ Accounts
  BY <1>0, <1>1, <1>3, <1>6, <1>7, <1>8, <1>10, LoadingGoesOn
<1> QED
  BY <1>4, <1>9, <1>10

LEMMA MeHears ==
  ASSUME SignOnInv, FlowInv', NEW m \in calls, MeAnswered(m)
  PROVE  SignOnInv'
<1> DEFINE t == m.tab
           x == [tab[t] EXCEPT !.load = "idle"]
           known == [x EXCEPT !.user = Sessions[m.session].user]
           none == [x EXCEPT !.user = NoOne]
           refresh == [x EXCEPT !.load = "refresh"]
<1>0. /\ FlowTypes /\ SessionsOK /\ t \in Tabs /\ PageOK(tab[t])
      /\ ~ m.orphan /\ m.what \in {"me", "again"} /\ m.what \in Load
  BY PageFacts DEF MeAnswered, Loads, Load
<1>1. /\ UNCHANGED <<server, cookies, storage, current, failed>> /\ Calm
      /\ DOMAIN storage' = DOMAIN storage /\ storage'.acting = storage.acting
      /\ cookies'.fresh => cookies'.session # 0
      /\ cookies'.session \in 0 .. Len(Sessions)
  BY <1>0 DEF MeAnswered, Calm, SessionsOK
<1>2. PageOK(known) /\ known.path = tab[t].path /\ known.load = "idle" /\ known.known = tab[t].known
      /\ known.user = Sessions[m.session].user
  BY <1>0 DEF PageOK
<1>3. PageOK(none) /\ none.path = tab[t].path /\ none.load = "idle"
  BY <1>0 DEF PageOK
<1>4. PageOK(refresh) /\ refresh.path = tab[t].path /\ refresh.load = "refresh"
      /\ refresh.known = tab[t].known
  BY <1>0 DEF PageOK
<1>5. \/ Known(m) /\ Shows(t, known, calls \ {m}, {}, cookies)
      \/ /\ ~ Known(m) /\ m.what = "me"
         /\ Shows(t, refresh, calls \ {m}, {CallOf(t, "refresh", NoOne, cookies)}, cookies)
      \/ ~ Known(m) /\ m.what = "again" /\ Shows(t, none, calls \ {m}, {}, cookies)
  BY <1>0 DEF MeAnswered
<1>6. m.tab \in current \ failed => tab[t].known = server.phase /\ WillTell(m)
  BY <1>0, <1>3, LoadingAnswered
<1> HIDE DEF x, known, none, refresh
<1>7. CASE Known(m) /\ Shows(t, known, calls \ {m}, {}, cookies)
  <2>1. ASSUME m.tab \in current \ failed
        PROVE  Knows(known) /\ known.user = Holder'
    <3>1. m.session = cookies.session /\ Held /\ cookies.session # 0
      BY <1>0, <1>6, <1>7, <2>1 DEF Known, WillTell
    <3>2. Holder' = Holder
      BY <1>1, CalmTells
    <3>3. Holder = Sessions[cookies.session].user
      BY <3>1 DEF Holder, Held
    <3> QED
      BY <1>2, <1>6, <2>1, <3>1, <3>2, <3>3 DEF Knows
  <2> QED
    BY <1>0, <1>1, <1>2, <1>7, <2>1, LoadingGoesOn
<1>8. CASE /\ ~ Known(m)
           /\ Shows(t, refresh, calls \ {m}, {CallOf(t, "refresh", NoOne, cookies)}, cookies)
  <2>1. m.tab \in current \ failed => WillTell(CallOf(t, "refresh", NoOne, cookies))'
    BY <1>0, <1>1, <1>6, <1>8, CallIs DEF Known, WillTell, Held, SessionsOK
  <2> QED
    BY <1>0, <1>1, <1>4, <1>6, <1>8, <2>1, LoadingGoesOn DEF Load
<1>9. CASE ~ Known(m) /\ m.what = "again" /\ Shows(t, none, calls \ {m}, {}, cookies)
  <2>1. m.tab \notin current \ failed
    BY <1>6, <1>9 DEF Known, WillTell, Held
  <2> QED
    BY <1>0, <1>1, <1>3, <1>9, <2>1, LoadingGoesOn
<1> QED
  BY <1>5, <1>7, <1>8, <1>9


\* An answer that nobody waits for.
LEMMA OrphanGone ==
  ASSUME SignOnInv, FlowInv', NEW m \in calls, m.orphan, calls' = calls \ {m}, tab' = tab,
         SessionsOK', server'.way = server.way,
         \A s \in Tabs : s \in current' \ failed' => s \in current \ failed /\ Calm
  PROVE  SignOnInv'
<1>1. \A s \in Tabs : Frozen(s)
  BY DEF Frozen, Mine
<1> QED
  BY <1>1, NoneActs

LEMMA RefreshHears ==
  ASSUME SignOnInv, FlowInv', NEW m \in calls, NEW takes, RefreshAnswered(m, takes)
  PROVE  SignOnInv'
<1> DEFINE t == m.tab
           alive == m.session \in server.live
           again == [tab[t] EXCEPT !.load = "again"]
           none == [tab[t] EXCEPT !.load = "idle", !.user = NoOne]
           box == IF alive THEN [cookies EXCEPT !.session = m.session, !.fresh = TRUE] ELSE cookies
<1>0. /\ FlowTypes /\ SessionsOK /\ t \in Tabs /\ PageOK(tab[t])
      /\ m.what = "refresh" /\ m.what \in Load
      /\ UNCHANGED <<server, storage, failed>>
  BY PageFacts DEF RefreshAnswered, Load
<1>1. cookies' = box \/ (m.orphan /\ cookies' = cookies)
  BY DEF RefreshAnswered, Takes
<1>2. /\ cookies'.session \in 0 .. Len(Sessions) /\ (cookies'.fresh => cookies'.session # 0)
      /\ cookies'.fresh # cookies.fresh => cookies'.session \in server.live
  <2>1. CASE cookies' = cookies
    BY <1>0, <2>1 DEF SessionsOK
  <2>2. CASE alive /\ cookies' = [cookies EXCEPT !.session = m.session, !.fresh = TRUE]
    <3>1. cookies'.session = m.session
      BY <1>0, <2>2 DEF FlowTypes
    <3>2. m.session \in 1 .. Len(Sessions) /\ Len(Sessions) \in Nat
      BY <1>0, <2>2 DEF SessionsOK
    <3>3. m.session \in server.live
      BY <2>2
    <3> QED
      BY <3>1, <3>2, <3>3
  <2> QED
    BY <1>1, <2>1, <2>2
<1>3. \A s \in current' : s \in current /\ Calm
  BY <1>0, <1>2 DEF RefreshAnswered, Calm
<1>4. CASE m.orphan
  <2>1. calls' = calls \ {m} /\ tab' = tab
    BY <1>4 DEF RefreshAnswered
  <2>2. Sends
    BY <2>1 DEF Sends
  <2>3. Sessions' = Sessions /\ Len(Sessions) \in Nat /\ Len(Sessions) <= Len(Sessions')
        /\ Enforced' = Enforced
    BY <1>0 DEF SessionsOK, Sessions, Enforced
  <2>4. SessionsOK'
    BY <1>0, <1>2, <2>2, <2>3, SessionsStay DEF SessionsOK
  <2> QED
    BY <1>0, <1>3, <1>4, <2>1, <2>4, OrphanGone
<1>5. CASE ~ m.orphan /\ alive
  <2>0. PICK taken : taken = cookies'
    OBVIOUS
  <2>1. Shows(t, again, calls \ {m}, {CallOf(t, "again", NoOne, taken)}, taken)
    BY <1>5, <2>0 DEF RefreshAnswered
  <2>2. PageOK(again) /\ again.path = tab[t].path /\ again.load = "again"
        /\ again.known = tab[t].known
    BY <1>0 DEF PageOK
  <2>3. taken.session = m.session /\ taken.fresh
    BY <1>0, <1>1, <1>5, <2>0 DEF FlowTypes
  <2> HIDE DEF again, box
  <2>4. m.tab \in current \ failed => tab[t].known = server.phase
    BY <1>0, <1>5, <2>2, LoadingAnswered DEF Load
  <2>5. WillTell(CallOf(t, "again", NoOne, taken))'
    <3>1. m.session # 0 /\ m.session \in server'.live
      BY <1>0, <1>5 DEF SessionsOK
    <3> QED
      BY <2>0, <2>3, <3>1, CallIs DEF WillTell, Held
  <2> QED
    BY <1>0, <1>2, <1>3, <1>5, <2>0, <2>1, <2>2, <2>4, <2>5, LoadingGoesOn DEF Load
<1>6. CASE ~ m.orphan /\ ~ alive
  <2>1. Shows(t, none, calls \ {m}, {}, cookies')
    BY <1>6 DEF RefreshAnswered
  <2>2. PageOK(none) /\ none.path = tab[t].path /\ none.load = "idle"
        /\ none.known = tab[t].known /\ none.user = NoOne
    BY <1>0 DEF PageOK
  <2> HIDE DEF none
  <2>3. m.tab \in current \ failed => tab[t].known = server.phase /\ WillTell(m)
    BY <1>0, <1>6, <2>2, LoadingAnswered
  <2>4. m.tab \in current \ failed => Holder = NoOne
    BY <1>0, <1>6, <2>3 DEF WillTell, Holder
  <2>5. Calm => Holder' = Holder
    BY CalmTells
  <2>6. m.tab \in current \ failed /\ Calm => Knows(none) /\ (Accounts => none.user = Holder')
    BY <2>2, <2>3, <2>4, <2>5 DEF Knows
  <2> QED
    BY <1>0, <1>2, <1>3, <1>6, <2>1, <2>2, <2>6, LoadingGoesOn
<1> QED
  BY <1>4, <1>5, <1>6

-----------------------------------------------------------------------------
\* The request of a page, other than those of its loading, has its answer.
LEMMA RequestGone ==
  ASSUME SignOnInv, NEW m \in calls, ~ m.orphan, m.what \notin Load \cup {"start", "callback"}
  PROVE  LET t == m.tab IN
           /\ ~ Away(tab[t])
           /\ \A x : PageOK(x) /\ ~ Away(x) /\ x.load = tab[t].load =>
                GoesOn(t, x, calls \ {m}, {})
           /\ calls' = calls \ {m} /\ tab' = tab /\ Enforced' = Enforced =>
                /\ PageIsOK(t)' /\ \A s \in Tabs : s # t => Frozen(s)
                /\ Mine(t)' = Mine(t) \ {m} /\ Loadings(t)' = Loadings(t)
<1> DEFINE t == m.tab
<1>0. t \in Tabs /\ HereOK(t) /\ m \in Mine(t) /\ ~ Away(tab[t]) /\ OthersIn(t, calls \ {m})
  BY PageFacts
<1>1. Own(t, calls \ {m}, {}) = Mine(t) \ {m}
  BY DEF Own, Mine
<1>2. m \notin Loadings(t) /\ Loadings(t) \subseteq Mine(t) \ {m}
  BY DEF Loadings, Load
<1>3. ASSUME NEW x, PageOK(x), ~ Away(x), x.load = tab[t].load
      PROVE  GoesOn(t, x, calls \ {m}, {})
  BY <1>0, <1>1, <1>2, <1>3 DEF GoesOn, HereOK, Loadings
<1>4. ASSUME calls' = calls \ {m}, tab' = tab, Enforced' = Enforced
      PROVE  /\ PageIsOK(t)' /\ \A s \in Tabs : s # t => Frozen(s)
             /\ Mine(t)' = Mine(t) \ {m} /\ Loadings(t)' = Loadings(t)
  <2>1. Mine(t)' = Mine(t) \ {m} /\ \A s \in Tabs : s # t => Frozen(s)
    BY <1>4 DEF Mine, Frozen
  <2>2. Loadings(t)' = Loadings(t)
    BY <1>2, <2>1 DEF Loadings
  <2>3. Place(tab[t])' = Place(tab[t])
    BY <1>4 DEF Place
  <2>4. PageIsOK(t)'
    BY <1>0, <1>4, <2>1, <2>2, <2>3 DEF PageIsOK, HereOK, Away
  <2> QED
    BY <2>1, <2>2, <2>4
<1> QED
  BY <1>0, <1>3, <1>4

(***************************************************************************)
(* A sign-in by a form, or the first registration.                         *)
(***************************************************************************)
LEMMA SessionBegins ==
  ASSUME SignOnInv, FlowInv', NEW m \in calls, m.what \in {"login", "register"},
         NEW u \in Person, NEW takes,
         server.phase \in {"on", "bootstrap"}, NewSession(u, NoOne), Takes(m, Holding, takes),
         SignedIn(m, u), storage' = storage
  PROVE  SignOnInv'
<1> DEFINE t == m.tab
<1>0. /\ FlowTypes /\ SessionsOK /\ t \in Tabs /\ PageOK(tab[t])
      /\ OthersIn(t, calls \ {m}) /\ u # NoOne
  BY PageFacts, SignOnAssumption DEF FlowTypes
<1>1. /\ DOMAIN server' = DOMAIN server /\ server'.phase = "on" /\ server'.way = server.way
      /\ Sessions' \in Seq([user : Person, by : {Admin, NoOne}])
      /\ Len(Sessions') = Len(Sessions) + 1
      /\ Sessions'[Len(Sessions')].user = u
      /\ server'.live \subseteq 1 .. Len(Sessions') /\ Len(Sessions') \in server'.live
  <2>1. /\ DOMAIN server' = DOMAIN server /\ server'.way = server.way
        /\ server'.phase = IF server.phase = "bootstrap" THEN "on" ELSE server.phase
        /\ Sessions' \in Seq([user : Person, by : {Admin, NoOne}])
        /\ Len(Sessions') = Len(Sessions) + 1
        /\ Sessions'[Len(Sessions')] = [user |-> u, by |-> NoOne]
        /\ server'.live \subseteq 1 .. Len(Sessions') /\ Len(Sessions') \in server'.live
    BY <1>0, SessionAdded
  <2> QED
    BY <2>1
<1>2. /\ cookies'.session \in 0 .. Len(Sessions') /\ (cookies'.fresh => cookies'.session # 0)
      /\ ~ m.orphan => cookies'.session = Len(Sessions')
  <2>1. DOMAIN Holding = {"session", "fresh", "flow"} /\ Holding.session = Len(Sessions) + 1
        /\ Holding.fresh = TRUE
    BY <1>0 DEF Holding, FlowTypes
  <2> HIDE DEF Holding
  <2> QED
    BY <1>0, <1>1, <2>1, SessionTaken
<1>3. Enforced' = Enforced /\ Len(Sessions) \in Nat /\ failed' = failed
  BY <1>0, <1>1 DEF Enforced, SessionsOK, SignedIn
<1>4. Sends => SessionsOK'
  BY <1>0, <1>1, <1>2, <1>3, SessionsStay DEF SessionsOK, Phase
<1>5. CASE m.orphan
  <2>1. calls' = calls \ {m} /\ tab' = tab /\ current' = {}
    BY <1>5 DEF SignedIn
  <2>2. Sends
    BY <2>1 DEF Sends
  <2> QED
    BY <1>1, <1>4, <1>5, <2>1, <2>2, OrphanGone
<1>6. CASE ~ m.orphan
  <2>0. PICK box, x :
          /\ box = cookies'
          /\ x = [tab[t] EXCEPT !.user = u, !.busy = FALSE, !.path = "app",
                    !.known = IF @ \in {"setup", "bootstrap"} THEN @ ELSE "on"]
    OBVIOUS
  <2>1. Shows(t, x, calls \ {m}, {}, box)
        /\ current' = IF Hears(tab[t]) THEN {t} ELSE {}
    BY <1>6, <2>0 DEF SignedIn
  <2>2. /\ PageOK(x) /\ x.path = "app" /\ x.load = tab[t].load /\ x.user = u
        /\ x.known = IF tab[t].known \in {"setup", "bootstrap"} THEN tab[t].known ELSE "on"
    BY <1>0, <2>0 DEF PageOK
  <2>3. GoesOn(t, x, calls \ {m}, {})
    BY <1>6, <2>2, RequestGone DEF Load, Away
  <2>4. PageIsOK(t)' /\ \A s \in Tabs : s # t => Frozen(s)
    BY <1>0, <1>3, <2>1, <2>3, ShowsPage
  <2>5. SessionsOK'
    BY <1>0, <1>4, <2>0, <2>1, ShowsSends
  <2>6. ASSUME Hears(tab[t])
        PROVE  Hearing(t)'
    <3>1. x.load = "idle" /\ Knows(x)'
      BY <1>0, <1>1, <2>2, <2>6 DEF Hears, Knows
    <3>2. x.user = Holder'
      BY <1>1, <1>2, <1>3, <1>6, <2>2 DEF Holder
    <3>3. Inside(tab[t]) => storage'.acting = NoOne
      BY <2>6 DEF Hears
    <3> QED
      BY <1>0, <1>3, <2>0, <2>1, <2>3, <3>1, <3>2, <3>3, ShowsHears
  <2> QED
    BY <1>0, <1>1, <1>3, <2>1, <2>4, <2>5, <2>6, OneActs
<1> QED
  BY <1>5, <1>6

LEMMA SignInHears ==
  ASSUME SignOnInv, FlowInv', NEW m \in calls, NEW takes,
         LoginAnswered(m, takes) \/ RegisterAnswered(m, takes)
  PROVE  SignOnInv'
<1>1. m.what \in {"login", "register"} /\ m.what \in Form /\ WhoOK(m)
  BY PageFacts DEF LoginAnswered, RegisterAnswered, Form, SessionsOK
<1>2. CASE Refused(m)
  BY <1>1, <1>2, RefusedHears
<1>3. CASE ~ Refused(m)
  <2>1. /\ server.phase \in {"on", "bootstrap"} /\ m.who \in Person
        /\ NewSession(m.who, NoOne) /\ Takes(m, Holding, takes)
        /\ SignedIn(m, m.who) /\ storage' = storage
    BY <1>1, <1>3 DEF LoginAnswered, RegisterAnswered, WhoOK
  <2> QED
    BY <1>1, <2>1, SessionBegins
<1> QED
  BY <1>2, <1>3

(***************************************************************************)
(* Answers after which the page opens again.                               *)
(***************************************************************************)
LEMMA SessionMade ==
  ASSUME SessionsOK, FlowTypes, NEW u \in Person, NEW by \in {Admin, NoOne}, NewSession(u, by),
         NEW m, NEW takes, NEW box, DOMAIN box = {"session", "fresh", "flow"},
         box.session = Len(Sessions) + 1, box.fresh = TRUE, Takes(m, box, takes),
         DOMAIN storage' = DOMAIN storage, storage'.acting \in {Admin, NoOne}
  PROVE  (Sends => SessionsOK') /\ server'.way = server.way
<1>1. /\ DOMAIN server' = DOMAIN server /\ server'.phase \in Phase /\ server'.way = server.way
      /\ Enforced' => server'.phase = "on"
      /\ Sessions' \in Seq([user : Person, by : {Admin, NoOne}])
      /\ Len(Sessions') = Len(Sessions) + 1
      /\ server'.live \subseteq 1 .. Len(Sessions')
  BY SessionAdded
<1>2. cookies'.session \in 0 .. Len(Sessions') /\ (cookies'.fresh => cookies'.session # 0)
  BY <1>1, SessionTaken
<1>3. Len(Sessions) \in Nat /\ Enforced' = Enforced
  BY <1>1 DEF SessionsOK, Enforced
<1> QED
  BY <1>1, <1>2, <1>3, SessionsStay

LEMMA AnswerOpens ==
  ASSUME SignOnInv, FlowInv', NEW m \in calls, ~ m.orphan,
         NEW x, x.load = "status", ~ Away(x), NEW box, box.session = cookies'.session,
         Opens(m.tab, x, calls \ {m}, box), server'.way = server.way, Sends => SessionsOK',
         \A s \in Tabs : s # m.tab /\ s \in current' => s \in current /\ Calm
  PROVE  SignOnInv'
<1>0. FlowTypes /\ SessionsOK /\ m.tab \in Tabs /\ OthersIn(m.tab, calls \ {m})
  BY PageFacts
<1>1. PageIsOK(m.tab)' /\ Hearing(m.tab)' /\ \A s \in Tabs : s # m.tab => Frozen(s)
  BY <1>0, OpensPage
<1>2. SessionsOK'
  BY <1>0, OpensSends
<1>3. failed' = failed \ {m.tab}
  BY DEF Opens
<1> QED
  BY <1>0, <1>1, <1>2, <1>3, OneActs

LEMMA OpenedWaits ==
  ASSUME NEW path \in {"app", "login", "register"}
  PROVE  Opened(path).load = "status" /\ ~ Away(Opened(path))
BY DEF Opened, Away

LEMMA ChooseHears ==
  ASSUME SignOnInv, FlowInv', NEW m \in calls, ChooseAnswered(m)
  PROVE  SignOnInv'
<1>0. FlowTypes /\ SessionsOK /\ m.what = "choose" /\ m.what \in Form
  BY PageFacts DEF ChooseAnswered, Form
<1>1. CASE Refused(m)
  BY <1>0, <1>1, RefusedHears
<1>2. CASE ~ Refused(m)
  <2>1. /\ server.phase = "setup" /\ cookies' = cookies
        /\ server' = [server EXCEPT !.phase = IF m.who # NoOne THEN "bootstrap" ELSE "off"]
    BY <1>2 DEF ChooseAnswered
  <2>2. DOMAIN storage' = DOMAIN storage /\ storage'.acting = storage.acting
    BY <1>0, <1>2 DEF ChooseAnswered, SessionsOK
  <2>3. /\ DOMAIN server' = DOMAIN server /\ server'.phase \in Phase /\ ~ Enforced'
        /\ server'.way = server.way /\ server'.live = server.live /\ Sessions' = Sessions
    BY <1>0, <2>1 DEF SessionsOK, Phase, Sessions, Enforced
  <2>4. Len(Sessions) \in Nat
    BY <1>0 DEF SessionsOK
  <2>5. Sends => SessionsOK'
    <3>1. /\ Sessions' \in Seq([user : Person, by : {Admin, NoOne}]) /\ Len(Sessions) <= Len(Sessions')
          /\ server'.live \subseteq 1 .. Len(Sessions')
          /\ cookies'.session \in 0 .. Len(Sessions') /\ (cookies'.fresh => cookies'.session # 0)
          /\ storage'.acting \in {Admin, NoOne}
      BY <1>0, <2>1, <2>2, <2>3, <2>4 DEF SessionsOK
    <3> QED
      BY <1>0, <2>2, <2>3, <3>1, SessionsStay
  <2>6. CASE m.orphan
    <3>1. calls' = calls \ {m} /\ tab' = tab /\ current' = {}
      BY <1>2, <2>6 DEF ChooseAnswered
    <3>2. Sends
      BY <3>1 DEF Sends
    <3> QED
      BY <2>3, <2>5, <2>6, <3>1, <3>2, OrphanGone
  <2>7. CASE ~ m.orphan
    <3>1. PICK path \in {"app", "register"} :
            Opens(m.tab, Opened(path), calls \ {m}, cookies) /\ current' = {m.tab}
      BY <1>2, <2>7 DEF ChooseAnswered
    <3> QED
      BY <2>1, <2>3, <2>5, <2>7, <3>1, OpenedWaits, AnswerOpens
  <2> QED
    BY <2>6, <2>7
<1> QED
  BY <1>1, <1>2

LEMMA ImpersonateHears ==
  ASSUME SignOnInv, FlowInv', NEW m \in calls, NEW takes, ImpersonateAnswered(m, takes)
  PROVE  SignOnInv'
<1>0. /\ FlowTypes /\ SessionsOK /\ m.what = "impersonate" /\ m.what \in Form /\ m.who \in Person
  BY PageFacts DEF ImpersonateAnswered, Form, SessionsOK, WhoOK
<1>1. CASE Refused(m)
  BY <1>0, <1>1, RefusedHears
<1>2. CASE ~ Refused(m)
  <2>1. NewSession(m.who, Admin) /\ Takes(m, Holding, takes)
    BY <1>2 DEF ImpersonateAnswered
  <2>2. DOMAIN storage' = DOMAIN storage /\ storage'.acting \in {Admin, NoOne}
    BY <1>0, <1>2 DEF ImpersonateAnswered, SessionsOK
  <2>3. DOMAIN Holding = {"session", "fresh", "flow"} /\ Holding.session = Len(Sessions) + 1
        /\ Holding.fresh = TRUE
    BY <1>0 DEF Holding, FlowTypes
  <2>4. (Sends => SessionsOK') /\ server'.way = server.way
    BY <1>0, <2>1, <2>2, <2>3, SessionMade
  <2>5. CASE m.orphan
    <3>1. calls' = calls \ {m} /\ tab' = tab /\ current' = {}
      BY <1>2, <2>5 DEF ImpersonateAnswered
    <3>2. Sends
      BY <3>1 DEF Sends
    <3> QED
      BY <2>4, <2>5, <3>1, <3>2, OrphanGone
  <2>6. CASE ~ m.orphan
    <3>1. Opens(m.tab, Opened("app"), calls \ {m}, cookies') /\ current' = {m.tab}
      BY <1>2, <2>6 DEF ImpersonateAnswered
    <3> QED
      BY <2>4, <2>6, <3>1, OpenedWaits, AnswerOpens
  <2> QED
    BY <2>5, <2>6
<1> QED
  BY <1>1, <1>2

LEMMA StopHears ==
  ASSUME SignOnInv, FlowInv', NEW m \in calls, NEW takes, StopAnswered(m, takes)
  PROVE  SignOnInv'
<1>0. FlowTypes /\ SessionsOK /\ m.what = "stop" /\ m.what \in Form /\ m.session \in 0 .. Len(Sessions)
  BY PageFacts DEF StopAnswered, Form, SessionsOK
<1>1. CASE Refused(m)
  BY <1>0, <1>1, RefusedHears
<1>2. CASE ~ Refused(m)
  <2>1. /\ Known(m)
        /\ IF Acting(m) THEN NewSession(Actor(m), NoOne) /\ Takes(m, Holding, takes)
                        ELSE UNCHANGED <<server, cookies>>
        /\ current' = (IF Acting(m) THEN {} ELSE current) \cup (IF m.orphan THEN {} ELSE {m.tab})
    BY <1>2 DEF StopAnswered
  <2>2. DOMAIN storage' = DOMAIN storage /\ storage'.acting \in {storage.acting, NoOne}
    BY <1>0, <1>2 DEF StopAnswered, SessionsOK
  <2>3. /\ (Sends => SessionsOK') /\ server'.way = server.way
        /\ \A s \in current' : (s = m.tab /\ ~ m.orphan) \/ (s \in current /\ Calm)
    <3>1. CASE Acting(m)
      <4>1. DOMAIN Holding = {"session", "fresh", "flow"} /\ Holding.session = Len(Sessions) + 1
            /\ Holding.fresh = TRUE
        BY <1>0 DEF Holding, FlowTypes
      <4>2. m.session \in 1 .. Len(Sessions)
        BY <1>0, <2>1 DEF SessionsOK, Known
      <4>3. Sessions[m.session] \in [user : Person, by : {Admin, NoOne}]
        BY <1>0, <4>2, ElementOfSeq DEF SessionsOK
      <4>4. Actor(m) \in Person
        BY <3>1, <4>3, SignOnAssumption DEF Actor, Acting
      <4>5. storage'.acting \in {Admin, NoOne}
        BY <1>0, <2>2 DEF SessionsOK
      <4> HIDE DEF Holding
      <4>6. (Sends => SessionsOK') /\ server'.way = server.way
        BY <1>0, <2>1, <2>2, <3>1, <4>1, <4>4, <4>5, SessionMade
      <4> QED
        BY <2>1, <3>1, <4>6
    <3>2. CASE ~ Acting(m)
      <4>1. cookies'.fresh => cookies'.session # 0
        BY <1>0, <2>1, <3>2 DEF SessionsOK
      <4>2. Sends => SessionsOK'
        BY <1>0, <2>1, <2>2, <3>2, <4>1, SessionsSame
      <4> QED
        BY <2>1, <2>2, <3>2, <4>2 DEF Calm
    <3> QED
      BY <3>1, <3>2
  <2>4. CASE m.orphan
    <3>1. calls' = calls \ {m} /\ tab' = tab /\ failed' = failed
      BY <1>2, <2>4 DEF StopAnswered
    <3>2. Sends
      BY <3>1 DEF Sends
    <3> QED
      BY <2>3, <2>4, <3>1, <3>2, OrphanGone
  <2>5. CASE ~ m.orphan
    <3>1. Opens(m.tab, Opened("app"), calls \ {m}, cookies')
      BY <1>2, <2>5 DEF StopAnswered
    <3> QED
      BY <2>3, <2>5, <3>1, OpenedWaits, AnswerOpens
  <2> QED
    BY <2>4, <2>5
<1> QED
  BY <1>1, <1>2

LEMMA CallbackHears ==
  ASSUME SignOnInv, FlowInv', NEW m \in calls, NEW takes, NEW trusted,
         CallbackAnswered(m, takes, trusted)
  PROVE  SignOnInv'
<1> DEFINE why == Reason(m, trusted)
           page == [Opened(IF why = "none" THEN "app" ELSE "login")
                      EXCEPT !.error = why, !.flow = m.state]
<1>0. /\ FlowTypes /\ SessionsOK /\ m.what = "callback" /\ m.who \in Person \cup {NoOne}
  BY PageFacts DEF CallbackAnswered, SessionsOK, WhoOK
<1>1. storage' = storage
      /\ current' = (IF why = "none" THEN {} ELSE current) \cup (IF m.orphan THEN {} ELSE {m.tab})
  BY DEF CallbackAnswered
<1>2. page.load = "status" /\ ~ Away(page)
  BY DEF Opened, Away
<1>3. /\ (Sends => SessionsOK') /\ server'.way = server.way
      /\ \A s \in current' : (s = m.tab /\ ~ m.orphan) \/ (s \in current /\ Calm)
  <2>1. CASE why = "none"
    <3>1. NewSession(m.who, NoOne) /\ Takes(m, [Holding EXCEPT !.flow = 0], takes)
      BY <2>1 DEF CallbackAnswered
    <3>2. LET box == [Holding EXCEPT !.flow = 0] IN
            DOMAIN box = {"session", "fresh", "flow"} /\ box.session = Len(Sessions) + 1
            /\ box.fresh = TRUE
      BY <1>0 DEF Holding, FlowTypes
    <3>3. m.who \in Person
      BY <1>0, <2>1 DEF Reason
    <3>4. storage'.acting \in {Admin, NoOne}
      BY <1>0, <1>1 DEF SessionsOK
    <3> HIDE DEF Holding, why
    <3>5. (Sends => SessionsOK') /\ server'.way = server.way
      BY <1>0, <1>1, <3>1, <3>2, <3>3, <3>4, SessionMade
    <3> QED
      BY <1>1, <2>1, <3>5
  <2>2. CASE why # "none"
    <3>1. server' = server /\ Takes(m, [cookies EXCEPT !.flow = 0], takes)
      BY <2>2 DEF CallbackAnswered
    <3>2. cookies'.session = cookies.session /\ cookies'.fresh = cookies.fresh
      BY <1>0, <3>1 DEF Takes, FlowTypes
    <3>3. cookies'.fresh => cookies'.session # 0
      BY <1>0, <3>2 DEF SessionsOK
    <3> HIDE DEF why
    <3>4. Sends => SessionsOK'
      BY <1>0, <1>1, <3>1, <3>2, <3>3, SessionsSame
    <3> QED
      BY <1>1, <2>2, <3>1, <3>2, <3>4 DEF Calm
  <2> QED
    BY <2>1, <2>2
<1>4. CASE m.orphan
  <2>1. calls' = calls \ {m} /\ tab' = tab /\ failed' = failed
    BY <1>4 DEF CallbackAnswered
  <2>2. Sends
    BY <2>1 DEF Sends
  <2> QED
    BY <1>3, <1>4, <2>1, <2>2, OrphanGone
<1>5. CASE ~ m.orphan
  <2>1. Opens(m.tab, page, calls \ {m}, cookies')
    BY <1>5 DEF CallbackAnswered
  <2> HIDE DEF page
  <2> QED
    BY <1>2, <1>3, <1>5, <2>1, AnswerOpens
<1> QED
  BY <1>4, <1>5

(***************************************************************************)
(* The other answers, and what goes wrong.                                 *)
(***************************************************************************)
LEMMA LogoutHears ==
  ASSUME SignOnInv, FlowInv', NEW m \in calls, NEW takes, LogoutAnswered(m, takes)
  PROVE  SignOnInv'
<1> DEFINE t == m.tab
<1>0. /\ FlowTypes /\ SessionsOK /\ t \in Tabs /\ m.what = "logout"
      /\ calls' = calls \ {m} /\ UNCHANGED <<storage, tab, failed>>
  BY PageFacts DEF LogoutAnswered
<1>1. /\ DOMAIN server' = DOMAIN server /\ server'.phase = server.phase /\ server'.way = server.way
      /\ Sessions' = Sessions /\ server'.live \subseteq server.live /\ Enforced' = Enforced
  BY <1>0 DEF LogoutAnswered, SessionsOK, Sessions, Enforced
<1>2. /\ ~ m.orphan => cookies'.session = 0
      /\ cookies'.session \in {cookies.session, 0} /\ (cookies'.fresh => cookies'.session # 0)
  BY <1>0 DEF LogoutAnswered, Takes, FlowTypes, SessionsOK
<1>3. SessionsOK'
  <2>1. Sends
    BY <1>0 DEF Sends
  <2>2. Len(Sessions) \in Nat
    BY <1>0 DEF SessionsOK
  <2>3. /\ server'.phase \in Phase /\ (Enforced' => server'.phase = "on")
        /\ Sessions' \in Seq([user : Person, by : {Admin, NoOne}]) /\ Len(Sessions) <= Len(Sessions')
        /\ server'.live \subseteq 1 .. Len(Sessions')
        /\ cookies'.session \in 0 .. Len(Sessions')
        /\ DOMAIN storage' = DOMAIN storage /\ storage'.acting \in {Admin, NoOne}
    BY <1>0, <1>1, <1>2, <2>2 DEF SessionsOK
  <2> QED
    BY <1>0, <1>1, <1>2, <2>1, <2>3, SessionsStay
<1>4. CASE m.orphan
  <2>1. current' = {}
    BY <1>4 DEF LogoutAnswered
  <2> QED
    BY <1>0, <1>1, <1>3, <1>4, <2>1, OrphanGone
<1>5. CASE ~ m.orphan
  <2>1. PageIsOK(t)' /\ \A s \in Tabs : s # t => Frozen(s)
    BY <1>0, <1>1, <1>5, RequestGone DEF Load
  <2>2. current' = IF tab[t].user = NoOne /\ tab[t].load = "idle" /\ tab[t].known = server.phase
                   THEN {t} ELSE {}
    BY <1>5 DEF LogoutAnswered
  <2>3. ASSUME t \in current'
        PROVE  Hearing(t)'
    <3>1. tab[t].user = NoOne /\ tab[t].load = "idle" /\ tab[t].known = server.phase
      BY <2>2, <2>3
    <3>2. Holder' = NoOne
      BY <1>2, <1>5 DEF Holder
    <3>3. ShowsIt(t)'
      BY <1>0, <1>1, <3>1, <3>2 DEF ShowsIt, Knows, Claims
    <3> QED
      BY <1>0, <3>1, <3>3 DEF Hearing
  <2> QED
    BY <1>0, <1>1, <1>3, <2>1, <2>2, <2>3, OneActs
<1> QED
  BY <1>4, <1>5

LEMMA StartHears ==
  ASSUME SignOnInv, FlowInv', NEW m \in calls, NEW takes, StartAnswered(m, takes)
  PROVE  SignOnInv'
<1> DEFINE t == m.tab
           n == Len(flows) + 1
           page == [Opened("provider") EXCEPT !.load = "idle", !.flow = n]
<1>0. /\ FlowTypes /\ SessionsOK /\ t \in Tabs /\ m.what = "start"
      /\ calls' = calls \ {m} /\ UNCHANGED <<server, storage, current, failed>>
      /\ tab' = IF m.orphan THEN tab ELSE [tab EXCEPT ![t] = page]
  BY PageFacts DEF StartAnswered
<1>1. cookies'.session = cookies.session /\ cookies'.fresh = cookies.fresh
  BY <1>0 DEF StartAnswered, Takes, FlowTypes
<1>2. SessionsOK' /\ Calm
  <2>1. Sends
    BY <1>0 DEF Sends
  <2>2. cookies'.fresh => cookies'.session # 0
    BY <1>0, <1>1 DEF SessionsOK
  <2>3. SessionsOK'
    BY <1>0, <1>1, <2>1, <2>2, SessionsSame
  <2> QED
    BY <1>0, <1>1, <2>3 DEF Calm
<1>3. CASE m.orphan
  BY <1>0, <1>2, <1>3, OrphanGone
<1>4. CASE ~ m.orphan
  <2>1. m \in Mine(t) /\ PageIsOK(t)
    BY <1>4, PageFacts
  <2>2. \A k \in Mine(t) : k = m
    BY <1>0, <2>1 DEF PageIsOK, HereOK, AwayOK
  <2>3. page.path = "provider" /\ page.load = "idle" /\ page.known = "unknown"
    BY DEF Opened
  <2> HIDE DEF page
  <2>4. tab'[t] = page /\ \A s \in Tabs : s # t => tab'[s] = tab[s]
    BY <1>0, <1>4 DEF FlowTypes
  <2>5. Mine(t)' = {} /\ \A s \in Tabs : s # t => Frozen(s)
    BY <1>0, <2>2, <2>4 DEF Mine, Frozen
  <2>6. PageIsOK(t)' /\ Hearing(t)'
    BY <2>3, <2>4, <2>5 DEF PageIsOK, AwayOK, Away, Hearing
  <2> QED
    BY <1>0, <1>2, <2>5, <2>6, OneActs
<1> QED
  BY <1>3, <1>4

\* The answer about another user is about the session, or older than it.
LEMMA VerifyHears ==
  ASSUME SignOnInv, FlowInv', NEW m \in calls, VerifyAnswered(m)
  PROVE  SignOnInv'
<1> DEFINE t == m.tab
<1>0. /\ FlowTypes /\ SessionsOK /\ t \in Tabs /\ m.what = "verify" /\ ~ m.orphan
      /\ calls' = calls \ {m} /\ UNCHANGED <<server, cookies, tab, current, failed>>
      /\ storage' = IF Acting(m) THEN storage ELSE [storage EXCEPT !.acting = NoOne]
      /\ m.session \in 0 .. Len(Sessions)
  BY PageFacts DEF VerifyAnswered, Loads, SessionsOK
<1>1. /\ DOMAIN storage' = DOMAIN storage /\ storage'.acting \in {storage.acting, NoOne}
      /\ storage'.acting # NoOne => Acting(m)
  BY <1>0 DEF SessionsOK
<1>2. SessionsOK' /\ Calm
  <2>1. Sends
    BY <1>0 DEF Sends
  <2>2. cookies'.fresh => cookies'.session # 0
    BY <1>0 DEF SessionsOK
  <2>3. SessionsOK'
    BY <1>0, <1>1, <2>1, <2>2, SessionsSame
  <2> QED
    BY <1>0, <1>1, <2>3 DEF Calm
<1>3. Enforced' = Enforced /\ Sessions' = Sessions
  BY <1>0 DEF Enforced, Sessions
<1>4. /\ PageIsOK(t)' /\ \A s \in Tabs : s # t => Frozen(s)
      /\ Mine(t)' = Mine(t) \ {m} /\ Loadings(t)' = Loadings(t)
  BY <1>0, <1>3, RequestGone DEF Load
<1>5. ASSUME Hearing(t)
      PROVE  Hearing(t)'
  <2>1. Holder' = Holder /\ \A k : WillTell(k) => WillTell(k)'
    BY <1>2, CalmTells
  <2>2. ASSUME Claims(t)
        PROVE  Claims(t)'
    <3> SUFFICES ASSUME tab[t].path = "app", tab[t].user # NoOne, storage'.acting # NoOne
                 PROVE  \/ Sessions'[cookies'.session].by = Admin
                        \/ \E k \in Mine(t)' : k.what = "verify" /\ k.session = cookies'.session
      BY <1>0 DEF Claims
    <3>1. storage.acting # NoOne /\ Acting(m)
      BY <1>1
    <3>2. Sessions[m.session].by = Admin
      <4>1. m.session \in 1 .. Len(Sessions)
        BY <1>0, <3>1 DEF Acting, Known, SessionsOK
      <4>2. Sessions[m.session] \in [user : Person, by : {Admin, NoOne}]
        BY <1>0, <4>1, ElementOfSeq DEF SessionsOK
      <4> QED
        BY <3>1, <4>2 DEF Acting
    <3> QED
      BY <1>0, <1>3, <1>4, <2>2, <3>1, <3>2 DEF Claims
  <2>3. ShowsIt(t) => ShowsIt(t)'
    BY <1>0, <2>1, <2>2 DEF ShowsIt, Knows, Accounts
  <2> QED
    BY <1>0, <1>4, <1>5, <2>1, <2>3 DEF Hearing, Away
<1> QED
  BY <1>0, <1>2, <1>4, <1>5, OneActs DEF SignOnInv

LEMMA FailHears ==
  ASSUME SignOnInv, FlowInv', NEW m \in calls, Fail(m)
  PROVE  SignOnInv'
<1> DEFINE t == m.tab
           x == Unanswered(tab[t], m.what)
           next == IF m.what = "me" THEN {CallOf(t, "refresh", NoOne, cookies)} ELSE {}
<1>0. /\ FlowTypes /\ SessionsOK /\ t \in Tabs /\ PageOK(tab[t]) /\ ~ m.orphan
      /\ UNCHANGED <<server, cookies, storage, current>> /\ failed' = failed \cup {t}
      /\ Enforced' = Enforced
  BY PageFacts DEF Fail, Enforced
<1>1. CASE m.what \in {"start", "callback"}
  <2>1. calls' = calls \ {m} /\ tab' = tab
    BY <1>1 DEF Fail
  <2>2. m \in Mine(t) /\ PageIsOK(t)
    BY <1>0, PageFacts
  <2>3. Away(tab[t]) /\ AwayOK(t)
    BY <1>1, <2>2 DEF PageIsOK, HereOK
  <2>4. Mine(t)' = {} /\ \A s \in Tabs : s # t => Frozen(s)
    BY <2>1, <2>2, <2>3 DEF AwayOK, Mine, Frozen
  <2>5. PageIsOK(t)'
    BY <2>1, <2>3, <2>4 DEF PageIsOK, AwayOK, Away
  <2>6. Sends
    BY <2>1 DEF Sends
  <2> QED
    BY <1>0, <2>4, <2>5, <2>6, CalmStep
<1>2. CASE m.what \notin {"start", "callback"}
  <2>1. Shows(t, x, calls \ {m}, next, cookies)
    BY <1>2 DEF Fail
  <2>2. /\ PageOK(x) /\ x.path = tab[t].path
        /\ m.what \in Load \ {"me"} => x.load = "idle"
        /\ m.what = "me" => x.load = "refresh"
        /\ m.what \notin Load => x.load = tab[t].load
    BY <1>0 DEF Unanswered, PageOK, Load
  <2> HIDE DEF x
  <2>3. GoesOn(t, x, calls \ {m}, next)
    <3>1. CASE m.what \in Load
      <4>1. \/ x.load = "idle" /\ next = {}
            \/ x.load \in Load /\ next = {CallOf(t, x.load, NoOne, cookies)}
        BY <2>2, <3>1 DEF Load
      <4> HIDE DEF next
      <4> QED
        BY <1>0, <2>2, <3>1, <4>1, LoadingAnswered
    <3>2. CASE m.what \notin Load
      <4>1. next = {}
        BY <3>2 DEF Load
      <4> HIDE DEF next
      <4> QED
        BY <1>0, <1>2, <2>2, <3>2, <4>1, RequestGone DEF Away
    <3> QED
      BY <3>1, <3>2
  <2>4. PageIsOK(t)' /\ \A s \in Tabs : s # t => Frozen(s)
    BY <1>0, <2>1, <2>3, ShowsPage
  <2>5. Sends
    <3>1. \A k \in next : CallFields(k) /\ WhoOK(k) /\ k.session \in {cookies.session, cookies'.session}
      BY <1>0, CallIs, SentCall DEF WhoOK
    <3> QED
      BY <1>0, <2>1, <3>1, ShowsSends
  <2> QED
    BY <1>0, <2>4, <2>5, CalmStep
<1> QED
  BY <1>1, <1>2

LEMMA ExpiryHears ==
  ASSUME SignOnInv, FlowInv', CookiesExpire
  PROVE  SignOnInv'
<1>0. FlowTypes /\ SessionsOK /\ UNCHANGED <<server, storage, tab, calls, failed>>
  BY PageFacts DEF CookiesExpire
<1>1. /\ cookies'.session = cookies.session /\ (cookies'.fresh => cookies'.session # 0)
      /\ \A s \in current' : s \in current /\ Calm
  BY <1>0 DEF CookiesExpire, Calm, FlowTypes, SessionsOK
<1>2. Sends /\ \A s \in Tabs : Frozen(s)
  BY <1>0 DEF Sends, Frozen, Mine
<1>3. SessionsOK'
  BY <1>0, <1>1, <1>2, SessionsSame
<1> QED
  BY <1>0, <1>1, <1>2, <1>3, NoneActs

LEMMA NothingHeard ==
  ASSUME SignOnInv, FlowInv', UNCHANGED signOnVars
  PROVE  SignOnInv'
<1>0. SessionsOK /\ UNCHANGED <<server, cookies, storage, tab, calls, current, failed>>
  BY PageFacts DEF signOnVars
<1>1. Sends /\ Calm /\ \A s \in Tabs : Frozen(s)
  BY <1>0 DEF Sends, Calm, Frozen, Mine
<1>2. cookies'.fresh => cookies'.session # 0
  BY <1>0 DEF SessionsOK
<1>3. SessionsOK'
  BY <1>0, <1>1, <1>2, SessionsSame
<1> QED
  BY <1>0, <1>1, <1>3, NoneActs

-----------------------------------------------------------------------------
LEMMA AnswersHear ==
  ASSUME SignOnInv, FlowInv', NEW m \in calls, IsAnswered(m)
  PROVE  SignOnInv'
<1>1. CASE StatusAnswered(m)
  BY <1>1, StatusHears
<1>2. CASE MeAnswered(m)
  BY <1>2, MeHears
<1>3. CASE ChooseAnswered(m)
  BY <1>3, ChooseHears
<1>4. CASE VerifyAnswered(m)
  BY <1>4, VerifyHears
<1>5. ASSUME NEW takes \in BOOLEAN,
             \/ RefreshAnswered(m, takes) \/ LoginAnswered(m, takes) \/ RegisterAnswered(m, takes)
             \/ LogoutAnswered(m, takes) \/ StartAnswered(m, takes)
             \/ ImpersonateAnswered(m, takes) \/ StopAnswered(m, takes)
             \/ \E trusted \in BOOLEAN : CallbackAnswered(m, takes, trusted)
      PROVE  SignOnInv'
  BY <1>5, RefreshHears, SignInHears, LogoutHears, StartHears, ImpersonateHears, StopHears,
     CallbackHears
<1> QED
  BY <1>1, <1>2, <1>3, <1>4, <1>5 DEF IsAnswered

LEMMA SignOnBegins == SignOnInit => SignOnInv
<1> SUFFICES ASSUME SignOnInit
             PROVE  SignOnInv
  OBVIOUS
<1>1. FlowInv
  BY FlowBegins
<1>2. PICK way \in {"local", "hybrid", "enforced"}, phase \in Phase, signedIn \in BOOLEAN :
        /\ way = "enforced" \/ signedIn => phase = "on"
        /\ server = [phase |-> phase, way |-> way,
                     sessions |-> IF signedIn THEN <<[user |-> Admin, by |-> NoOne]>> ELSE <<>>,
                     live |-> IF signedIn THEN {1} ELSE {}]
        /\ cookies = [session |-> IF signedIn THEN 1 ELSE 0, fresh |-> signedIn, flow |-> 0]
  BY DEF SignOnInit
<1>3. /\ storage = [acting |-> NoOne, enabled |-> "unknown"]
      /\ tab = [t \in Tabs |-> Opened("app")]
      /\ calls = {CallOf(t, "status", NoOne, cookies) : t \in Tabs}
  BY DEF SignOnInit
<1>4. \A m \in calls : m.what = "status" /\ ~ m.orphan /\ m.session = cookies.session
  BY <1>3, CallIs
<1>5. ASSUME NEW t \in Tabs
      PROVE  Mine(t) = {CallOf(t, "status", NoOne, cookies)}
  BY <1>3, CallIs DEF Mine
<1>6. ASSUME NEW t \in Tabs
      PROVE  tab[t].load = "status" /\ tab[t].path = "app"
  BY <1>3 DEF Opened
<1>7. SessionsOK
  <2>1. DOMAIN server = {"phase", "way", "sessions", "live"} /\ server.phase \in Phase
        /\ (Enforced => server.phase = "on")
    BY <1>2 DEF Enforced
  <2>2. /\ Sessions \in Seq([user : Person, by : {Admin, NoOne}])
        /\ server.live \subseteq 1 .. Len(Sessions)
        /\ cookies.session \in 0 .. Len(Sessions) /\ (cookies.fresh => cookies.session # 0)
    <3>1. CASE signedIn
      <4>1. [user |-> Admin, by |-> NoOne] \in [user : Person, by : {Admin, NoOne}]
        BY SignOnAssumption
      <4> QED
        BY <1>2, <3>1, <4>1 DEF Sessions
    <3>2. CASE ~ signedIn
      BY <1>2, <3>2 DEF Sessions
    <3> QED
      BY <3>1, <3>2
  <2> QED
    BY <1>3, <1>4, <2>1, <2>2 DEF SessionsOK, WhoOK
<1>8. ASSUME NEW t \in Tabs
      PROVE  PageIsOK(t) /\ Hearing(t)
  <2>1. PICK m \in calls : Mine(t) = {m}
    BY <1>3, <1>5
  <2>2. Loadings(t) = {m} /\ m.what = "status"
    BY <1>4, <2>1 DEF Loadings, Load
  <2> QED
    BY <1>6, <2>1, <2>2 DEF PageIsOK, HereOK, Away, Hearing
<1> QED
  BY <1>1, <1>7, <1>8 DEF SignOnInv

LEMMA SignOnStep ==
  ASSUME SignOnInv, [SignOnNext]_browserVars
  PROVE  SignOnInv'
<1>1. FlowInv'
  BY FlowStep DEF SignOnInv
<1>2. CASE UNCHANGED signOnVars
  BY <1>1, <1>2, NothingHeard
<1>3. ASSUME NEW t \in Tabs, Does(t)
      PROVE  SignOnInv'
  BY <1>1, <1>3, DoesHear
<1>4. ASSUME NEW m \in calls, IsAnswered(m) \/ Fail(m)
      PROVE  SignOnInv'
  BY <1>1, <1>4, AnswersHear, FailHears
<1>5. CASE CookiesExpire
  BY <1>1, <1>5, ExpiryHears
<1> QED
  BY <1>2, <1>3, <1>4, <1>5 DEF SignOnNext, browserVars

\* A page that waits for nothing shows what is due.
LEMMA ComesToRest ==
  ASSUME SignOnInv
  PROVE  PagesShowTheSession
<1> SUFFICES ASSUME calls = {}, NEW t \in Tabs, t \in current \ failed, ~ Away(tab[t])
             PROVE  Due(tab[t])
  BY DEF PagesShowTheSession, Away
<1> DEFINE x == tab[t]
<1>1. Mine(t) = {} /\ Loadings(t) = {}
  BY DEF Mine, Loadings
<1>2. HereOK(t) /\ Hearing(t) /\ SessionsOK
  BY PageFacts
<1>3. x.load = "idle" /\ Place(x) = x.path /\ ShowsIt(t)
  BY <1>1, <1>2 DEF HereOK, Hearing
<1>4. CASE server.phase \in {"setup", "off"}
  BY <1>3, <1>4 DEF Due, ShowsIt, Knows, Place
<1>5. CASE server.phase \in {"on", "bootstrap"}
  <2>1. Knows(x) /\ x.user = Holder /\ Claims(t)
    BY <1>3, <1>5 DEF ShowsIt, Accounts
  <2>2. x.path \notin {"leaving", "provider"} /\ (Enforced => server.phase = "on")
    BY <1>2 DEF Away, SessionsOK
  <2>3. CASE Enforced /\ x.path = "login"
    BY <1>3, <1>5, <2>1, <2>2, <2>3 DEF Due, Knows, Place
  <2>4. CASE ~ (Enforced /\ x.path = "login") /\ Holder # NoOne
    <3>1. x.path = "app"
      BY <1>3, <1>5, <2>1, <2>2, <2>4 DEF Knows, Place
    <3>2. storage.acting # NoOne => Sessions[cookies.session].by = storage.acting
      BY <1>1, <1>2, <2>1, <2>4, <3>1 DEF Claims, SessionsOK
    <3> QED
      BY <1>5, <2>1, <2>4, <3>1, <3>2 DEF Due
  <2>5. CASE ~ (Enforced /\ x.path = "login") /\ Holder = NoOne
    <3>1. x.path = IF server.phase = "bootstrap" THEN "register" ELSE "login"
      BY <1>3, <1>5, <2>1, <2>2, <2>5 DEF Knows, Place
    <3> QED
      BY <1>5, <2>5, <3>1 DEF Due
  <2> QED
    BY <2>3, <2>4, <2>5
<1> QED
  BY <1>2, <1>4, <1>5 DEF SessionsOK, Phase

(***************************************************************************)
(* Once nothing is under way, a page that asked for its session, or was    *)
(* told of it, since it last changed shows what is due: the choice, the    *)
(* first registration, the sign-in, or the app as the user whose session   *)
(* the cookies hold, and no banner that claims that this is another one    *)
(* (loadUser, login and logout of AuthContext.tsx, ProtectedRoute.tsx,     *)
(* ImpersonationBanner.tsx): for any number of tabs and persons, whatever  *)
(* the user does and fails, and in whatever order the answers come.        *)
(***************************************************************************)
THEOREM PagesAreTrue == SignOnSpec => []PagesShowTheSession
<1>2. SignOnInv /\ [SignOnNext]_browserVars => SignOnInv'
  BY SignOnStep
<1>3. SignOnInv => PagesShowTheSession
  BY ComesToRest
<1> QED
  BY SignOnBegins, <1>2, <1>3, PTL DEF SignOnSpec
=============================================================================
