----------------------------- MODULE TabSessions -----------------------------
(***************************************************************************)
(* The tabs of one browser on one session: the interceptor that refreshes  *)
(* the access token behind the calls of a tab (api/auth.ts), what a page   *)
(* does when it loads, signs in and signs out (AuthContext.tsx, Login.tsx),*)
(* the cookies that the tabs share, and the server's answers, which may    *)
(* be late, overtake each other or be lost.  Accounts are on, and no page  *)
(* is one of a share link.                                                 *)
(***************************************************************************)
EXTENDS SessionTokens, FiniteSets

CONSTANTS
  Tab,
  Call,       \* the API calls that a tab may have under way at once
  Me,         \* the account
  MaxCall,    \* bound: the calls of all tabs
  MaxExpiry,  \* bound: how often an access token expires
  MaxLogout,  \* bound: how often pages sign out
  MaxSession  \* bound: sign-ins, the one at the start included

ASSUME TabAssumption ==
  /\ Me \in User /\ MaxCall \in Nat /\ MaxExpiry \in Nat /\ MaxLogout \in Nat /\ MaxSession \in Nat
  /\ Call \cap {"refresh", "me", "meRefresh", "meAgain", "login", "logout"} = {}

VARIABLES
  jar,        \* the cookies: the tokens they hold, 0 for none
  view,       \* what each tab shows
  call,       \* the calls of each tab
  refreshing, \* tabs with a refreshPromise
  wire,       \* requests and answers on their way
  times,      \* bound: how often tokens expired and pages signed out
  spent,      \* history: which tab spent which refresh token
  raced,      \* history: a refresh was refused because another tab's was first
  lost,       \* history: a request or an answer was lost, or a page left it behind
  anonymous,  \* history: a sign-out did not know its user
  gone        \* history: sessions that a sign-out ended with no refresh under way

vars == <<tokens, jar, view, call, refreshing, wire, times,
          spent, raced, lost, anonymous, gone>>
history == <<spent, raced, lost, anonymous, gone>>

\* The requests of a loading page: /auth/me, then a refresh and /auth/me again.
Loading == {"me", "meRefresh", "meAgain"}
What == Call \cup Loading \cup {"refresh", "login", "logout"}
Refreshes == {"refresh", "meRefresh"}

\* set: the token of the cookies that the answer brings, 0 to clear them
Message == [tab : Tab, what : What, cookie : Nat,
            status : {"asked", "ok", "refused", "failed"}, set : Nat,
            orphan : BOOLEAN]

\* A request takes along the cookies as they are when it is sent.
Request(t, what, cookies) ==
  [tab |-> t, what |-> what, status |-> "asked", set |-> 0, orphan |-> FALSE,
   cookie |-> IF what \in Refreshes THEN cookies.refresh ELSE cookies.access]

Of(t, whats) == {m \in wire : m.tab = t /\ m.what \in whats /\ ~ m.orphan}
SigningOut == \E m \in wire : m.what = "logout"
Alive(i) == i # 0 /\ Live(i)

-----------------------------------------------------------------------------
Init ==
  /\ tokens = <<[user |-> Me, session |-> 1, revoked |-> FALSE, cred |-> 1,
                 late |-> FALSE, by |-> Nobody]>>
  /\ jar = [access |-> 1, refresh |-> 1]
  /\ view = [t \in Tab |-> "app"]
  /\ call = [t \in Tab |-> [c \in Call |-> "idle"]]
  /\ refreshing = {} /\ wire = {} /\ times = [expire |-> 0, logout |-> 0]
  /\ spent = {} /\ raced = FALSE /\ lost = FALSE /\ anonymous = FALSE /\ gone = {}

\* The cookie with the access token runs out.
Expire ==
  /\ times.expire < MaxExpiry /\ jar.access # 0
  /\ jar' = [jar EXCEPT !.access = 0]
  /\ times' = [times EXCEPT !.expire = @ + 1]
  /\ UNCHANGED <<tokens, view, call, refreshing, wire, history>>

-----------------------------------------------------------------------------
(***************************************************************************)
(* The server.                                                             *)
(***************************************************************************)
Answers(m, status, set) ==
  wire' = (wire \ {m}) \cup IF m.orphan THEN {}
                            ELSE {[m EXCEPT !.status = status, !.set = set]}

\* An API route, or /auth/me.
AnswerCall(m) ==
  /\ m \in wire /\ m.status = "asked" /\ m.what \in Call \cup {"me", "meAgain"}
  /\ Answers(m, IF m.cookie # 0 THEN "ok" ELSE "refused", 0)
  /\ UNCHANGED <<tokens, jar, view, call, refreshing, times, history>>

AnswerRefresh(m) ==
  /\ m \in wire /\ m.status = "asked" /\ m.what \in Refreshes
  /\ tokens' = IF m.cookie = 0 THEN tokens ELSE Rotated(m.cookie)
  /\ IF Alive(m.cookie) THEN Answers(m, "ok", Len(tokens')) ELSE Answers(m, "refused", 0)
  /\ spent' = IF Alive(m.cookie) THEN spent \cup {<<m.cookie, m.tab>>} ELSE spent
  /\ raced' = (raced \/ \E t \in Tab \ {m.tab} : <<m.cookie, t>> \in spent)
  /\ UNCHANGED <<jar, view, call, refreshing, times, lost, anonymous, gone>>

AnswerLogin(m) ==
  /\ m \in wire /\ m.status = "asked" /\ m.what = "login"
  /\ tokens' = Issued(Me, 1, FALSE, Nobody)
  /\ Answers(m, "ok", Len(tokens'))
  /\ UNCHANGED <<jar, view, call, refreshing, times, history>>

\* Defect: the cookies are cleared and the rows stay.
LogoutOnlyCookies(m) ==
  /\ m \in wire /\ m.status = "asked" /\ m.what = "logout"
  /\ Answers(m, "ok", 0)
  /\ gone' = IF \E n \in wire : n.what \in Refreshes \cup {"login"} THEN gone
             ELSE gone \cup {tokens[m.cookie].session : k \in {m.cookie} \ {0}}
  /\ UNCHANGED <<tokens, jar, view, call, refreshing, times, spent, raced, lost, anonymous>>

\* The cookies go; the rows are revoked when the access token still tells whose.
AnswerLogout(m) ==
  /\ m \in wire /\ m.status = "asked" /\ m.what = "logout"
  /\ Answers(m, "ok", 0)
  /\ tokens' = IF m.cookie # 0 THEN RevokedAll(Me) ELSE tokens
  /\ anonymous' = (anonymous \/ m.cookie = 0)
  /\ gone' = IF \E n \in wire : n.what \in Refreshes \cup {"login"} THEN gone
             ELSE gone \cup {tokens[m.cookie].session : k \in {m.cookie} \ {0}}
  /\ UNCHANGED <<jar, view, call, refreshing, times, spent, raced, lost>>

\* One request or answer is lost: the page sees an error without an answer.
Lose(m) ==
  /\ ~ lost
  /\ m \in wire /\ ~ m.orphan /\ m.status # "failed"
  /\ wire' = (wire \ {m}) \cup {[m EXCEPT !.status = "failed"]}
  /\ lost' = TRUE
  /\ UNCHANGED <<tokens, jar, view, call, refreshing, times, spent, raced, anonymous, gone>>

-----------------------------------------------------------------------------
(***************************************************************************)
(* The browser takes the cookies of an answer, then the page goes on.      *)
(***************************************************************************)
SetCookies(m) ==
  jar' = IF m.status = "ok" /\ m.what \in Refreshes \cup {"login", "logout"}
           THEN [access |-> m.set, refresh |-> m.set] ELSE jar

Arrives(m) == m \in wire /\ ~ m.orphan /\ m.status # "asked" /\ SetCookies(m)

\* redirectToLogin: the page is left, its calls end, and nobody waits for their
\* answers; the sign-in page itself stays.
SignedOut(t, rest) ==
  /\ call' = [call EXCEPT ![t] = [c \in Call |-> IF @[c] = "idle" THEN "idle" ELSE "done"]]
  /\ refreshing' = refreshing \ {t}
  /\ IF view[t] = "login"
       THEN wire' = rest /\ UNCHANGED <<view, lost>>
       ELSE /\ view' = [view EXCEPT ![t] = "loading"]
            /\ wire' = {m \in rest : m.tab # t \/ m.orphan}
                       \cup {[m EXCEPT !.orphan = TRUE] : m \in
                               {n \in rest : n.tab = t /\ n.status = "asked" /\ ~ n.orphan}}
                       \cup {Request(t, "me", jar')}
            /\ lost' = (lost \/ \E m \in rest :
                          m.tab = t /\ m.what \in Refreshes \cup {"logout"} /\ m.status # "refused")

Send(t, c) ==
  /\ view[t] = "app" /\ call[t][c] = "idle"
  /\ Cardinality({x \in Tab \X Call : call[x[1]][x[2]] # "idle"}) < MaxCall
  /\ call' = [call EXCEPT ![t][c] = "sent"]
  /\ wire' = wire \cup {Request(t, c, jar)}
  /\ UNCHANGED <<tokens, jar, view, refreshing, times, history>>

\* The answer to a call.  The first 401 asks whether accounts are still on, and
\* then for a refresh; the second one, after the retry, signs the page out.
CallArrives(m) ==
  LET t == m.tab
      c == m.what IN
    /\ c \in Call /\ Arrives(m)
    /\ IF m.status = "refused" /\ call[t][c] = "resent"
         THEN SignedOut(t, wire \ {m})
         ELSE /\ call' = [call EXCEPT ![t][c] = IF m.status = "refused" THEN "probing" ELSE "done"]
              /\ wire' = wire \ {m}
              /\ UNCHANGED <<view, refreshing, lost>>
    /\ UNCHANGED <<tokens, times, spent, raced, anonymous, gone>>

\* Defect: each call has a refresh of its own.
RefreshAlone(t, c) ==
  /\ call[t][c] = "probing"
  /\ call' = [call EXCEPT ![t][c] = "waiting"]
  /\ refreshing' = refreshing \cup {t}
  /\ wire' = wire \cup {[Request(t, "refresh", jar) EXCEPT !.set = Cardinality(wire)]}
  /\ UNCHANGED <<tokens, jar, view, times, history>>

\* refreshAccessToken: the calls of a tab share one refresh.
Refresh(t, c) ==
  /\ call[t][c] = "probing"
  /\ call' = [call EXCEPT ![t][c] = "waiting"]
  /\ refreshing' = refreshing \cup {t}
  /\ wire' = IF t \in refreshing THEN wire ELSE wire \cup {Request(t, "refresh", jar)}
  /\ UNCHANGED <<tokens, jar, view, times, history>>

\* The waiting calls go again; or the page goes to the sign-in.
RefreshArrives(m) ==
  LET t == m.tab
      waiting == {c \in Call : call[t][c] = "waiting"} IN
    /\ m.what = "refresh" /\ Arrives(m)
    /\ IF m.status = "ok"
         THEN /\ call' = [call EXCEPT ![t] =
                            [c \in Call |-> IF c \in waiting THEN "resent" ELSE @[c]]]
              /\ wire' = (wire \ {m}) \cup {Request(t, c, jar') : c \in waiting}
              /\ refreshing' = refreshing \ {t}
              /\ UNCHANGED <<view, lost>>
         ELSE SignedOut(t, wire \ {m})
    /\ UNCHANGED <<tokens, times, spent, raced, anonymous, gone>>

\* loadUser
LoadArrives(m) ==
  LET t == m.tab
      next == CASE m.status = "ok" /\ m.what = "meRefresh" -> {Request(t, "meAgain", jar')}
                [] m.status # "ok" /\ m.what = "me" -> {Request(t, "meRefresh", jar')}
                [] OTHER -> {} IN
    /\ m.what \in Loading /\ Arrives(m)
    /\ wire' = (wire \ {m}) \cup next
    /\ view' = [view EXCEPT ![t] = IF next # {} THEN "loading"
                                   ELSE IF m.status = "ok" THEN "app" ELSE "login"]
    /\ UNCHANGED <<tokens, call, refreshing, times, history>>

Login(t) ==
  /\ view[t] = "login" /\ ~ \E m \in wire : m.what = "login"
  /\ Cardinality({tokens[i].session : i \in DOMAIN tokens}) < MaxSession
  /\ wire' = wire \cup {Request(t, "login", jar)}
  /\ UNCHANGED <<tokens, jar, view, call, refreshing, times, history>>

LoginArrives(m) ==
  /\ m.what = "login" /\ Arrives(m)
  /\ wire' = wire \ {m}
  /\ view' = [view EXCEPT ![m.tab] = IF m.status = "ok" THEN "app" ELSE "login"]
  /\ UNCHANGED <<tokens, call, refreshing, times, history>>

\* logout does not wait for its answer; the page stays, and so do its calls.
Logout(t) ==
  /\ view[t] = "app" /\ times.logout < MaxLogout
  /\ times' = [times EXCEPT !.logout = @ + 1]
  /\ view' = [view EXCEPT ![t] = "login"]
  /\ wire' = wire \cup {Request(t, "logout", jar)}
  /\ UNCHANGED <<tokens, jar, call, refreshing, history>>

LogoutArrives(m) ==
  /\ m.what = "logout" /\ Arrives(m)
  /\ wire' = wire \ {m}
  /\ UNCHANGED <<tokens, view, call, refreshing, times, history>>

-----------------------------------------------------------------------------
Server(m) == AnswerCall(m) \/ AnswerRefresh(m) \/ AnswerLogin(m) \/ AnswerLogout(m)
Page(m) ==
  CallArrives(m) \/ RefreshArrives(m) \/ LoadArrives(m) \/ LoginArrives(m) \/ LogoutArrives(m)

Next ==
  \/ Expire
  \/ \E m \in wire : Server(m) \/ Page(m) \/ Lose(m)
  \/ \E t \in Tab : Login(t) \/ Logout(t) \/ \E c \in Call : Send(t, c) \/ Refresh(t, c)

Spec == Init /\ [][Next]_vars

-----------------------------------------------------------------------------
Quiet == wire = {} /\ \A t \in Tab, c \in Call : call[t][c] # "probing"

(***************************************************************************)
(* While the session of the browser lives and nobody signs out, no tab     *)
(* leaves its page, and once nothing is under way the cookie holds the     *)
(* refresh token that works.  The calls of one tab do not end each other's *)
(* session however they expire and retry; two tabs may, when they refresh  *)
(* with the same token, and so may a lost answer.                          *)
(***************************************************************************)
StaysSignedIn ==
  LiveOf(1) # {} /\ ~ (raced \/ lost \/ anonymous) /\ ~ SigningOut
    => /\ \A t \in Tab : view[t] = "app"
       /\ Quiet => Alive(jar.refresh)

(***************************************************************************)
(* A sign-out is final for all tabs: no token of the session that it ended *)
(* works, and once nothing is under way no cookie is left of it, unless a  *)
(* refresh was under way when the server ended it or an answer was lost.   *)
(***************************************************************************)
LogoutIsFinal ==
  /\ \A s \in gone : LiveOf(s) = {}
  /\ Quiet => jar.access = 0 \/ tokens[jar.access].session \notin gone \/ lost
=============================================================================
