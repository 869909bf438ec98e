----------------------------- MODULE CsrfTokens ------------------------------
(***************************************************************************)
(* The tokens that requests which change something must carry: the cookie  *)
(* that names the browser (csrfClient.ts), the tokens that the server      *)
(* issues for it and checks (server/csrf.ts), and the interceptors of each *)
(* tab, which fetch a token before the first write, keep it in memory, and *)
(* fetch another one when a write is refused (api/auth.ts).                *)
(***************************************************************************)
EXTENDS Naturals

CONSTANTS
  Tabs,         \* the tabs of one browser
  Write        \* what a tab may have to write, several at once

ASSUME CsrfAssumption == "first" \notin Write

VARIABLES
  browser,     \* CSRF_CLIENT_COOKIE_NAME: the cookie, 0 for none
  browsers,    \* how many values the server has made up for it
  token,       \* csrfToken of each tab: the browser it was issued for, 0 for none
  fetching,    \* tabs with a csrfTokenPromise
  write,       \* where each write of each tab is
  post,        \* requests for a token and writes on their way
  aged,        \* bound: what has run out
  unlucky      \* history: writes whose cookie changed while they asked for another token

csrfVars == <<browser, browsers, token, fetching, write, post, aged, unlucky>>

WriteState == {"idle", "waits", "sent", "renews", "resent", "done", "limited", "refused"}

\* The cookie and the token that a request takes along; who asked, for a token:
\* "first" is shared by the writes of a tab, a refused write asks for itself.
Ask(t, w) == [tab |-> t, for |-> w, cookie |-> browser, token |-> 0]
Put(t, w, held) == [tab |-> t, for |-> w, cookie |-> browser, token |-> held]

CsrfInit ==
  /\ browser = 0 /\ browsers = 0
  /\ token = [t \in Tabs |-> 0]
  /\ fetching = {}
  /\ write = [t \in Tabs |-> [w \in Write |-> "idle"]]
  /\ post = {} /\ aged = {} /\ unlucky = {}

-----------------------------------------------------------------------------
\* The request interceptor: ensureCsrfToken.
BeginWrite(t, w) ==
  /\ write[t][w] = "idle"
  /\ IF token[t] # 0
       THEN /\ write' = [write EXCEPT ![t][w] = "sent"]
            /\ post' = post \cup {Put(t, w, token[t])}
            /\ UNCHANGED fetching
       ELSE /\ write' = [write EXCEPT ![t][w] = "waits"]
            /\ post' = IF t \in fetching THEN post ELSE post \cup {Ask(t, "first")}
            /\ fetching' = fetching \cup {t}
  /\ UNCHANGED <<browser, browsers, token, aged, unlucky>>

\* GET /csrf-token: the token is for the cookie that came with the request, or
\* for a new one.
IssuedFor(m) == IF m.cookie # 0 THEN m.cookie ELSE browsers + 1

\* The cookie changes under the writes that ask for a token for the old one.
Overtakes(writes) ==
  unlucky' = IF browser' = browser THEN unlucky
             ELSE unlucky \cup ({x \in Tabs \X Write : write[x[1]][x[2]] = "renews"} \ writes)

Issue(m) ==
  /\ browsers' = IF m.cookie # 0 THEN browsers ELSE browsers + 1
  /\ browser' = IF m.cookie # 0 THEN browser ELSE browsers + 1
  /\ token' = [token EXCEPT ![m.tab] = IssuedFor(m)]
  /\ Overtakes({<<m.tab, m.for>>})

Waiting(t) == {w \in Write : write[t][w] = "waits"}

\* The first token of a page: all the writes that waited for it go.
FirstArrives(m) ==
  /\ m \in post /\ m.for = "first"
  /\ Issue(m)
  /\ fetching' = fetching \ {m.tab}
  /\ write' = [write EXCEPT ![m.tab] = [w \in Write |-> IF @[w] = "waits" THEN "sent" ELSE @[w]]]
  /\ post' = (post \ {m}) \cup
       {[tab |-> m.tab, for |-> w, cookie |-> browser', token |-> IssuedFor(m)] :
          w \in Waiting(m.tab)}
  /\ UNCHANGED aged

\* Too many requests for a token from this address: what waits for it fails.
Limited(m) ==
  LET failing == IF m.for = "first" THEN Waiting(m.tab) ELSE {m.for} IN
    /\ m \in post /\ "limit" \notin aged
    /\ m.for \in Write => write[m.tab][m.for] = "renews"
    /\ aged' = aged \cup {"limit"}
    /\ fetching' = IF m.for = "first" THEN fetching \ {m.tab} ELSE fetching
    /\ write' = [write EXCEPT ![m.tab] = [w \in Write |-> IF w \in failing THEN "limited" ELSE @[w]]]
    /\ post' = post \ {m}
    /\ UNCHANGED <<browser, browsers, token, unlucky>>

\* validateCsrfToken, for the cookie that came with the write.
IsValidToken(m) == m.cookie # 0 /\ m.token = m.cookie

\* The server's answer to a write, and the response interceptor: the first
\* refusal drops the token of the page and asks for another one.
WriteArrives(m) ==
  LET t == m.tab
      w == m.for
      again == write[t][w] = "sent" /\ ~ IsValidToken(m) IN
    /\ m \in post /\ w \in Write /\ write[t][w] \in {"sent", "resent"}
    /\ write' = [write EXCEPT ![t][w] = IF IsValidToken(m) THEN "done"
                                        ELSE IF again THEN "renews" ELSE "refused"]
    /\ token' = IF IsValidToken(m) THEN token ELSE [token EXCEPT ![t] = 0]
    /\ post' = (post \ {m}) \cup IF again THEN {Ask(t, w)} ELSE {}
    /\ UNCHANGED <<browser, browsers, fetching, aged, unlucky>>

\* Defect: the write goes again with the token that was refused.
RenewedInVain(m) ==
  /\ m \in post /\ m.for \in Write /\ write[m.tab][m.for] = "renews"
  /\ Issue(m)
  /\ write' = [write EXCEPT ![m.tab][m.for] = "resent"]
  /\ post' = (post \ {m}) \cup {Put(m.tab, m.for, 0)}
  /\ UNCHANGED <<fetching, aged>>

\* The token for a refused write: the write goes once more.
Renewed(m) ==
  /\ m \in post /\ m.for \in Write /\ write[m.tab][m.for] = "renews"
  /\ Issue(m)
  /\ write' = [write EXCEPT ![m.tab][m.for] = "resent"]
  /\ post' = (post \ {m}) \cup
       {[tab |-> m.tab, for |-> m.for, cookie |-> browser', token |-> IssuedFor(m)]}
  /\ UNCHANGED <<fetching, aged>>

\* The cookie of the browser is gone after thirty days, and so is the token.
CookieExpires ==
  /\ browser # 0 /\ "cookie" \notin aged
  /\ browser' = 0
  /\ aged' = aged \cup {"cookie"}
  /\ Overtakes({})
  /\ UNCHANGED <<browsers, token, fetching, write, post>>

\* The page is left: its memory goes, and what it was writing with it.
LeavePage(t) ==
  /\ token' = [token EXCEPT ![t] = 0]
  /\ fetching' = fetching \ {t}
  /\ write' = [write EXCEPT ![t] = [w \in Write |-> "idle"]]
  /\ post' = {m \in post : m.tab # t}
  /\ UNCHANGED <<browser, browsers, aged, unlucky>>

CsrfStep ==
  \/ \E m \in post : FirstArrives(m) \/ Limited(m) \/ WriteArrives(m) \/ Renewed(m)
  \/ CookieExpires

-----------------------------------------------------------------------------
(***************************************************************************)
(* No write is refused for its token in the end: however many tabs and     *)
(* writes ask for their first token at once, each overwriting the cookie   *)
(* of the other, the second attempt carries a token for the cookie it is   *)
(* sent with, unless the cookie ran out or was replaced between the two.   *)
(***************************************************************************)
WritesGetThrough ==
  \A t \in Tabs, w \in Write : write[t][w] = "refused" => <<t, w>> \in unlucky
=============================================================================
