------------------------------- MODULE SignOn --------------------------------
(***************************************************************************)
(* The pages of one browser on their way to a session: what a page asks    *)
(* when it loads (AuthContext.tsx) and where it then goes (ProtectedRoute, *)
(* Login, Register, AuthSetupChoice), the forms, the sign-in through the   *)
(* identity provider and its flow cookie (oidcRoutes.ts,                   *)
(* oidcCallbackRoute.ts), and acting as another user                       *)
(* (ImpersonationBanner.tsx).  The tabs share the cookies and the local    *)
(* storage.  The server answers and the page takes the answer in one step, *)
(* with the cookies of when it asked; answers that are lost, and refreshes *)
(* behind API calls, are in TabSessions.                                   *)
(***************************************************************************)
EXTENDS CsrfTokens, Sequences, FiniteSets

CONSTANTS
  Person,
  Admin,        \* the administrator, or the one who will set the installation up
  NoOne,
  MaxActs,      \* bound: what the user does
  MaxFailures   \* bound: requests that fail

ASSUME SignOnAssumption ==
  /\ Admin \in Person /\ NoOne \notin Person
  /\ MaxActs \in Nat /\ MaxFailures \in Nat

VARIABLES
  server,   \* how the installation stands, its sessions, and which of them live
  cookies,  \* the session, whether its access token is still good, and the flow cookie
  storage,  \* localStorage: who acts as another user, and the last known mode
  tab,      \* what each tab shows
  calls,    \* requests under way
  flows,    \* the sign-ins that were started at the provider
  acts,     \* bound: what the user has done, and what has failed
  current,  \* history: tabs that asked, or were told, since the session last changed
  failed,   \* history: tabs that had a request fail since they were opened
  spoiled   \* history: flows that another start or callback has come in the way of

signOnVars == <<server, cookies, storage, tab, calls, flows, acts, current, failed, spoiled>>
browserVars == <<csrfVars, signOnVars>>

Phase == {"setup", "bootstrap", "on", "off"}

\* A document that has just been opened at a path.
Opened(path) == [path |-> path, load |-> "status", known |-> "unknown", user |-> NoOne,
                 busy |-> FALSE, error |-> "none", flow |-> 0]

\* A request with the cookies as they are when it is sent.
CallOf(t, what, who, jar) ==
  [tab |-> t, what |-> what, who |-> who, state |-> 0, session |-> jar.session,
   fresh |-> jar.fresh, flow |-> jar.flow, orphan |-> FALSE]

Sessions == server.sessions
Known(m) == m.session # 0 /\ m.fresh
Enforced == server.way = "enforced"

-----------------------------------------------------------------------------
(***************************************************************************)
(* Where a page goes by itself, once it knows how things stand.            *)
(***************************************************************************)
Place(x) ==
  IF x.load # "idle" \/ x.known \in {"unknown", "error"} THEN x.path
  ELSE IF x.known = "setup" THEN "setup"
  ELSE IF x.known = "off" \/ (x.path = "app" /\ x.user # NoOne) THEN "app"
  ELSE IF x.known = "bootstrap" /\ x.user = NoOne THEN "register"
  ELSE IF Enforced /\ x.path # "setup"
    THEN IF x.path = "login" /\ x.error # "none" THEN "login" ELSE "leaving"
  ELSE IF x.user # NoOne THEN "app" ELSE "login"

Settled(x) ==
  LET y == [x EXCEPT !.path = Place(x)] IN [y EXCEPT !.path = Place(y)]

\* The layout of the app, with the banner, is on the page.
Inside(x) == x.path = "app" /\ x.load = "idle" /\ x.known # "off" /\ x.user # NoOne

\* Nobody waits any more for the requests of a page that is left; those that
\* change something still do.
Changing == {"refresh", "login", "register", "choose", "logout",
             "start", "callback", "impersonate", "stop"}

Abandoned(t, requests) ==
  {m \in requests : m.tab # t}
  \cup {[m EXCEPT !.orphan = TRUE] : m \in {n \in requests : n.tab = t /\ n.what \in Changing}}

\* The tab leaves its page for the address that next asks for.
Leaves(t, x, rest, next) ==
  /\ tab' = [tab EXCEPT ![t] = x]
  /\ calls' = Abandoned(t, rest) \cup {next}
  /\ LeavePage(t)

Opens(t, x, rest, jar) ==
  /\ Leaves(t, x, rest, CallOf(t, "status", NoOne, jar))
  /\ failed' = failed \ {t}

\* The page shows x and goes on with next; inside, the banner asks whether the
\* session really acts as another user.
Shows(t, x, rest, next, jar) ==
  LET y == Settled(x) IN
    IF y.path = "leaving"
      THEN Leaves(t, y, rest \cup next, CallOf(t, "start", NoOne, jar))
      ELSE /\ tab' = [tab EXCEPT ![t] = y]
           /\ calls' = rest \cup next \cup
                IF Inside(y) /\ ~ Inside(tab[t]) THEN {CallOf(t, "verify", NoOne, jar)} ELSE {}
           /\ UNCHANGED csrfVars

Act == acts.done < MaxActs /\ acts' = [acts EXCEPT !.done = @ + 1]

-----------------------------------------------------------------------------
(***************************************************************************)
(* What the user does.                                                     *)
(***************************************************************************)
Open(t, path) ==
  /\ Act
  /\ Opens(t, Opened(path), calls, cookies)
  /\ current' = current \cup {t}
  /\ UNCHANGED <<server, cookies, storage, flows, spoiled>>

\* retryAuthStatus, on the panel that says that the server cannot be reached.
Retry(t) ==
  /\ Act
  /\ tab[t].known = "error" /\ tab[t].load = "idle"
  /\ tab' = [tab EXCEPT ![t].load = "status"]
  /\ calls' = calls \cup {CallOf(t, "status", NoOne, cookies)}
  /\ current' = current \cup {t}
  /\ failed' = failed \ {t}
  /\ UNCHANGED <<csrfVars, server, cookies, storage, flows, spoiled>>

\* A form is sent.  Those of the sign-in pages are there while the page still loads.
Submit(t, what, who) ==
  /\ Act
  /\ ~ tab[t].busy
  /\ tab' = [tab EXCEPT ![t].busy = TRUE]
  /\ calls' = calls \cup {CallOf(t, what, who, cookies)}
  /\ UNCHANGED <<csrfVars, server, cookies, storage, flows, current, failed, spoiled>>

SubmitLogin(t, u) ==
  /\ tab[t].path = "login" /\ tab[t].known # "error" /\ tab[t].user = NoOne /\ ~ Enforced
  /\ Submit(t, "login", u)

Register(t) ==
  /\ tab[t].path = "register" /\ tab[t].known = "bootstrap"
  /\ Submit(t, "register", Admin)

\* who tells the choice: the administrator for accounts, nobody for none.
Choose(t, who) ==
  /\ tab[t].path = "setup" /\ tab[t].known = "setup" /\ tab[t].load = "idle"
  /\ Submit(t, "choose", who)

Impersonate(t, u) ==
  /\ Inside(tab[t]) /\ u # Admin
  /\ storage.acting = NoOne => tab[t].user = Admin
  /\ Submit(t, "impersonate", u)

Stop(t) ==
  /\ Inside(tab[t]) /\ storage.acting # NoOne
  /\ Submit(t, "stop", NoOne)

\* logout does not wait for its answer.
ClickLogout(t) ==
  /\ Act
  /\ Inside(tab[t])
  /\ Shows(t, [tab[t] EXCEPT !.user = NoOne, !.path = "login"],
           calls, {CallOf(t, "logout", NoOne, cookies)}, cookies)
  /\ UNCHANGED <<server, cookies, storage, flows, current, failed, spoiled>>

\* The button that leads to the provider.
StartOidcSignIn(t) ==
  /\ Act
  /\ tab[t].path \in {"login", "register"} /\ tab[t].load = "idle"
  /\ tab[t].known \in {"bootstrap", "on"} /\ server.way # "local"
  /\ Leaves(t, [tab[t] EXCEPT !.path = "leaving"], calls,
            CallOf(t, "start", NoOne, cookies))
  /\ UNCHANGED <<server, cookies, storage, flows, current, failed, spoiled>>

\* The user signs in at the provider, which sends the browser back; nobody: it
\* reports an error.
Authorise(t, who) ==
  /\ tab[t].path = "provider"
  /\ tab' = [tab EXCEPT ![t].path = "leaving"]
  /\ calls' = calls \cup {[CallOf(t, "callback", who, cookies) EXCEPT !.state = tab[t].flow]}
  /\ UNCHANGED <<csrfVars, server, cookies, storage, flows, acts, current, failed, spoiled>>

-----------------------------------------------------------------------------
(***************************************************************************)
(* The requests of a loading page: loadUser.                               *)
(***************************************************************************)
Loads(m, what) == m \in calls /\ m.what = what /\ ~ m.orphan

StatusAnswered(m) ==
  LET t == m.tab
      phase == server.phase
      x == [tab[t] EXCEPT !.known = phase] IN
    /\ Loads(m, "status")
    /\ storage' = [storage EXCEPT !.enabled = IF phase \in {"on", "bootstrap"} THEN "true" ELSE "false"]
    /\ IF phase \in {"on", "bootstrap"}
         THEN Shows(t, [x EXCEPT !.load = "me"], calls \ {m},
                    {CallOf(t, "me", NoOne, cookies)}, cookies)
         ELSE Shows(t, [x EXCEPT !.load = "idle", !.user = NoOne], calls \ {m}, {}, cookies)
    /\ UNCHANGED <<server, cookies, flows, acts, current, failed, spoiled>>

\* Defect: an access token that has run out is not refreshed.
MeOnce(m) ==
  /\ \E what \in {"me", "again"} : Loads(m, what)
  /\ Shows(m.tab, [tab[m.tab] EXCEPT !.load = "idle",
             !.user = IF Known(m) THEN Sessions[m.session].user ELSE NoOne], calls \ {m}, {}, cookies)
  /\ UNCHANGED <<server, cookies, storage, flows, acts, current, failed, spoiled>>

MeAnswered(m) ==
  LET t == m.tab
      x == [tab[t] EXCEPT !.load = "idle"] IN
    /\ \E what \in {"me", "again"} : Loads(m, what)
    /\ IF Known(m)
         THEN Shows(t, [x EXCEPT !.user = Sessions[m.session].user], calls \ {m}, {}, cookies)
         ELSE IF m.what = "me"
           THEN Shows(t, [x EXCEPT !.load = "refresh"], calls \ {m},
                      {CallOf(t, "refresh", NoOne, cookies)}, cookies)
           ELSE Shows(t, [x EXCEPT !.user = NoOne], calls \ {m}, {}, cookies)
    /\ UNCHANGED <<server, cookies, storage, flows, acts, current, failed, spoiled>>

\* takes: the browser takes the cookies of the answer also when the page is left
Takes(m, jar, takes) ==
  cookies' = IF m.orphan /\ ~ takes THEN cookies ELSE jar

RefreshAnswered(m, takes) ==
  LET t == m.tab
      alive == m.session \in server.live IN
    /\ m \in calls /\ m.what = "refresh"
    /\ Takes(m, IF alive THEN [cookies EXCEPT !.session = m.session, !.fresh = TRUE] ELSE cookies, takes)
    /\ IF m.orphan
         THEN calls' = calls \ {m} /\ UNCHANGED <<csrfVars, tab>>
         ELSE IF alive
           THEN Shows(t, [tab[t] EXCEPT !.load = "again"], calls \ {m},
                      {CallOf(t, "again", NoOne, cookies')}, cookies')
           ELSE Shows(t, [tab[t] EXCEPT !.load = "idle", !.user = NoOne], calls \ {m}, {}, cookies')
    /\ current' = IF cookies'.session = cookies.session THEN current ELSE {}
    /\ UNCHANGED <<server, storage, flows, acts, failed, spoiled>>

-----------------------------------------------------------------------------
(***************************************************************************)
(* Answers that change the session.                                        *)
(***************************************************************************)
\* The first account ends the bootstrap, whichever way it comes.
NewSession(u, by) ==
  server' = [server EXCEPT !.phase = IF @ = "bootstrap" THEN "on" ELSE @,
                           !.sessions = Append(@, [user |-> u, by |-> by]),
                           !.live = @ \cup {Len(Sessions) + 1}]

Holding == [cookies EXCEPT !.session = Len(Sessions) + 1, !.fresh = TRUE]

\* A page that is still loading will hear of the time before a sign-in, and one
\* that shows the choice does not ask again; the banner of a page that is inside
\* already is there, and does not ask again either.
Hears(x) ==
  /\ x.load = "idle" /\ x.known # "setup"
  /\ Inside(x) => storage.acting = NoOne

\* login and register of AuthContext: the user is shown, and nothing is asked.
SignedIn(m, u) ==
  LET x == [tab[m.tab] EXCEPT !.user = u, !.busy = FALSE, !.path = "app",
              !.known = IF @ \in {"setup", "bootstrap"} THEN @ ELSE "on"] IN
    /\ IF m.orphan THEN calls' = calls \ {m} /\ UNCHANGED <<csrfVars, tab>>
                   ELSE Shows(m.tab, x, calls \ {m}, {}, cookies')
    /\ current' = IF ~ m.orphan /\ Hears(tab[m.tab]) THEN {m.tab} ELSE {}
    /\ failed' = failed

\* The form shows what went wrong.
Refused(m) ==
  /\ tab' = IF m.orphan THEN tab ELSE [tab EXCEPT ![m.tab].busy = FALSE]
  /\ calls' = calls \ {m}
  /\ UNCHANGED <<csrfVars, server, cookies, storage, current, failed>>

LoginAnswered(m, takes) ==
  /\ m \in calls /\ m.what = "login"
  /\ IF server.phase = "on"
       THEN /\ NewSession(m.who, NoOne)
            /\ Takes(m, Holding, takes)
            /\ SignedIn(m, m.who)
            /\ UNCHANGED storage
       ELSE Refused(m)
  /\ UNCHANGED <<flows, acts, spoiled>>

RegisterAnswered(m, takes) ==
  /\ m \in calls /\ m.what = "register"
  /\ IF server.phase = "bootstrap"
       THEN /\ NewSession(m.who, NoOne)
            /\ Takes(m, Holding, takes)
            /\ SignedIn(m, m.who)
            /\ UNCHANGED storage
       ELSE Refused(m)
  /\ UNCHANGED <<flows, acts, spoiled>>

\* POST /onboarding-choice; the page goes where the choice leads.
ChooseAnswered(m) ==
  LET on == m.who # NoOne IN
    /\ m \in calls /\ m.what = "choose"
    /\ IF server.phase = "setup"
         THEN /\ server' = [server EXCEPT !.phase = IF on THEN "bootstrap" ELSE "off"]
              /\ IF m.orphan
                   THEN /\ calls' = calls \ {m} /\ current' = {}
                        /\ UNCHANGED <<csrfVars, tab, failed, storage>>
                   ELSE /\ storage' = [storage EXCEPT !.enabled = IF on THEN "true" ELSE "false"]
                        /\ Opens(m.tab, Opened(IF on THEN "register" ELSE "app"), calls \ {m}, cookies)
                        /\ current' = {m.tab}
              /\ UNCHANGED cookies
         ELSE Refused(m)
    /\ UNCHANGED <<flows, acts, spoiled>>

\* POST /logout: with the access token it is known whose sessions end.
LogoutAnswered(m, takes) ==
  LET t == m.tab
      user == IF Known(m) THEN Sessions[m.session].user ELSE NoOne IN
    /\ m \in calls /\ m.what = "logout"
    /\ server' = [server EXCEPT !.live = {i \in @ : Sessions[i].user # user}]
    /\ Takes(m, [cookies EXCEPT !.session = 0, !.fresh = FALSE], takes)
    /\ calls' = calls \ {m}
    /\ current' = IF ~ m.orphan /\ tab[t].user = NoOne /\ tab[t].load = "idle"
                       /\ tab[t].known = server.phase
                    THEN {t} ELSE {}
    /\ UNCHANGED <<csrfVars, storage, tab, flows, acts, failed, spoiled>>

-----------------------------------------------------------------------------
(***************************************************************************)
(* The identity provider.                                                  *)
(***************************************************************************)
Started == DOMAIN flows

\* Defect: a flow that is under way is not replaced.
StartOnce(m, takes) ==
  LET n == Len(flows) + 1 IN
    /\ m \in calls /\ m.what = "start"
    /\ flows' = Append(flows, m.tab)
    /\ Takes(m, [cookies EXCEPT !.flow = IF @ = 0 THEN n ELSE @], takes)
    /\ spoiled' = IF m.orphan /\ ~ takes THEN spoiled ELSE spoiled \cup Started
    /\ tab' = IF m.orphan THEN tab
              ELSE [tab EXCEPT ![m.tab] = [Opened("provider") EXCEPT !.load = "idle", !.flow = n]]
    /\ calls' = calls \ {m}
    /\ UNCHANGED <<csrfVars, server, storage, acts, current, failed>>

\* GET /oidc/start: one flow cookie for all tabs, the newest flow in it.
StartAnswered(m, takes) ==
  LET n == Len(flows) + 1 IN
    /\ m \in calls /\ m.what = "start"
    /\ flows' = Append(flows, m.tab)
    /\ Takes(m, [cookies EXCEPT !.flow = n], takes)
    /\ spoiled' = IF cookies'.flow = n THEN spoiled \cup Started ELSE spoiled
    /\ tab' = IF m.orphan THEN tab
              ELSE [tab EXCEPT ![m.tab] = [Opened("provider") EXCEPT !.load = "idle", !.flow = n]]
    /\ calls' = calls \ {m}
    /\ UNCHANGED <<csrfVars, server, storage, acts, current, failed>>

\* Why a callback is refused; trusted: the provider's answer holds good and names
\* an account that may sign in.
Reason(m, trusted) ==
  IF m.flow = 0 THEN "missing_flow"
  ELSE IF m.who = NoOne THEN "provider_error"
  ELSE IF m.state # m.flow THEN "callback_failed"
  ELSE IF trusted THEN "none" ELSE "rejected"

\* GET /oidc/callback: the flow cookie goes in every case.
CallbackAnswered(m, takes, trusted) ==
  LET why == Reason(m, trusted)
      page == [Opened(IF why = "none" THEN "app" ELSE "login")
                 EXCEPT !.error = why, !.flow = m.state] IN
    /\ m \in calls /\ m.what = "callback"
    /\ IF why = "none" THEN NewSession(m.who, NoOne) ELSE UNCHANGED server
    /\ Takes(m, IF why = "none" THEN [Holding EXCEPT !.flow = 0]
                               ELSE [cookies EXCEPT !.flow = 0], takes)
    /\ spoiled' = spoiled \cup (Started \ {m.state})
    /\ IF m.orphan THEN calls' = calls \ {m} /\ UNCHANGED <<csrfVars, tab, failed>>
                   ELSE Opens(m.tab, page, calls \ {m}, cookies')
    /\ current' = (IF why = "none" THEN {} ELSE current) \cup (IF m.orphan THEN {} ELSE {m.tab})
    /\ UNCHANGED <<storage, flows, acts>>

-----------------------------------------------------------------------------
(***************************************************************************)
(* Acting as another user.                                                 *)
(***************************************************************************)
Acting(m) == Known(m) /\ Sessions[m.session].by # NoOne
Actor(m) == IF Acting(m) THEN Sessions[m.session].by ELSE Sessions[m.session].user

ImpersonateAnswered(m, takes) ==
  /\ m \in calls /\ m.what = "impersonate"
  /\ IF Known(m) /\ Actor(m) = Admin
       THEN /\ NewSession(m.who, Admin)
            /\ Takes(m, Holding, takes)
            /\ IF m.orphan
                 THEN /\ calls' = calls \ {m} /\ current' = {}
                      /\ UNCHANGED <<csrfVars, tab, failed, storage>>
                 ELSE /\ storage' = [storage EXCEPT !.acting = Admin]
                      /\ Opens(m.tab, Opened("app"), calls \ {m}, cookies')
                      /\ current' = {m.tab}
       ELSE Refused(m)
  /\ UNCHANGED <<flows, acts, spoiled>>

\* The page opens again also when the server says that nobody is acted as.
StopAnswered(m, takes) ==
  /\ m \in calls /\ m.what = "stop"
  /\ IF Known(m)
       THEN /\ IF Acting(m) THEN NewSession(Actor(m), NoOne) /\ Takes(m, Holding, takes)
                            ELSE UNCHANGED <<server, cookies>>
            /\ current' = (IF Acting(m) THEN {} ELSE current) \cup (IF m.orphan THEN {} ELSE {m.tab})
            /\ IF m.orphan
                 THEN calls' = calls \ {m} /\ UNCHANGED <<csrfVars, tab, failed, storage>>
                 ELSE /\ storage' = [storage EXCEPT !.acting = NoOne]
                      /\ Opens(m.tab, Opened("app"), calls \ {m}, cookies')
       ELSE Refused(m)
  /\ UNCHANGED <<flows, acts, spoiled>>

\* The answer clears the key that the tabs share; it may be older than the key.
VerifyAnswered(m) ==
  /\ Loads(m, "verify")
  /\ storage' = IF Acting(m) THEN storage ELSE [storage EXCEPT !.acting = NoOne]
  /\ calls' = calls \ {m}
  /\ UNCHANGED <<csrfVars, server, cookies, tab, flows, acts, current, failed, spoiled>>

-----------------------------------------------------------------------------
(***************************************************************************)
(* What goes wrong.                                                        *)
(***************************************************************************)
\* What a page does without an answer.  The mode that it knew last decides whether
\* the app opens without a sign-in.
Unanswered(x, what) ==
  CASE what = "status" -> [x EXCEPT !.load = "idle", !.user = NoOne,
                             !.known = IF storage.enabled = "false" THEN "off" ELSE "error"]
    [] what \in {"refresh", "again"} -> [x EXCEPT !.load = "idle", !.user = NoOne]
    [] what = "me" -> [x EXCEPT !.load = "refresh"]
    [] what \in {"logout", "verify"} -> x
    [] OTHER -> [x EXCEPT !.busy = FALSE]

\* An address that does not answer leaves the browser's own page.
Fail(m) ==
  LET t == m.tab IN
    /\ acts.failed < MaxFailures /\ acts' = [acts EXCEPT !.failed = @ + 1]
    /\ m \in calls /\ ~ m.orphan
    /\ IF m.what \in {"start", "callback"}
         THEN calls' = calls \ {m} /\ UNCHANGED <<csrfVars, tab>>
         ELSE Shows(t, Unanswered(tab[t], m.what), calls \ {m},
                    IF m.what = "me" THEN {CallOf(t, "refresh", NoOne, cookies)} ELSE {}, cookies)
    /\ failed' = failed \cup {t}
    /\ UNCHANGED <<server, cookies, storage, flows, current, spoiled>>

\* The access token runs out, or the flow cookie does after ten minutes.
CookiesExpire ==
  /\ ~ acts.expired /\ acts' = [acts EXCEPT !.expired = TRUE]
  /\ \/ /\ cookies.fresh
        /\ cookies' = [cookies EXCEPT !.fresh = FALSE]
        /\ current' = IF cookies.session \in server.live THEN current ELSE {}
        /\ UNCHANGED spoiled
     \/ /\ cookies.flow # 0
        /\ cookies' = [cookies EXCEPT !.flow = 0]
        /\ spoiled' = spoiled \cup {cookies.flow}
        /\ UNCHANGED current
  /\ UNCHANGED <<csrfVars, server, storage, tab, calls, flows, failed>>

-----------------------------------------------------------------------------
\* Both tabs are opened on the app; an installation may have no administrator yet.
SignOnInit ==
  /\ CsrfInit
  /\ \E way \in {"local", "hybrid", "enforced"}, phase \in Phase, signedIn \in BOOLEAN :
       /\ way = "hybrid" => phase \in {"bootstrap", "on"}
       /\ way = "enforced" \/ signedIn => phase = "on"
       /\ server = [phase |-> phase, way |-> way,
                    sessions |-> IF signedIn THEN <<[user |-> Admin, by |-> NoOne]>> ELSE <<>>,
                    live |-> IF signedIn THEN {1} ELSE {}]
       /\ cookies = [session |-> IF signedIn THEN 1 ELSE 0, fresh |-> signedIn, flow |-> 0]
  /\ storage = [acting |-> NoOne, enabled |-> "unknown"]
  /\ tab = [t \in Tabs |-> Opened("app")]
  /\ calls = {CallOf(t, "status", NoOne, cookies) : t \in Tabs}
  /\ flows = <<>> /\ acts = [done |-> 0, failed |-> 0, expired |-> FALSE]
  /\ current = Tabs /\ failed = {} /\ spoiled = {}

Does(t) ==
  \/ \E path \in {"app", "login"} : Open(t, path)
  \/ Retry(t) \/ Register(t) \/ Stop(t) \/ ClickLogout(t) \/ StartOidcSignIn(t)
  \/ \E u \in Person : SubmitLogin(t, u) \/ Impersonate(t, u)
  \/ \E who \in {Admin, NoOne} : Choose(t, who)
  \/ \E who \in {Admin, NoOne} : Authorise(t, who)
  \/ Act /\ (\E w \in Write : BeginWrite(t, w)) /\ Inside(tab[t])
       /\ UNCHANGED <<server, cookies, storage, tab, calls, flows, current, failed, spoiled>>

IsAnswered(m) ==
  \/ StatusAnswered(m) \/ MeAnswered(m) \/ ChooseAnswered(m) \/ VerifyAnswered(m)
  \/ \E takes \in BOOLEAN :
       /\ ~ takes => m.orphan
       /\ \/ RefreshAnswered(m, takes) \/ LoginAnswered(m, takes) \/ RegisterAnswered(m, takes)
          \/ LogoutAnswered(m, takes) \/ StartAnswered(m, takes)
          \/ ImpersonateAnswered(m, takes) \/ StopAnswered(m, takes)
          \/ \E trusted \in BOOLEAN : CallbackAnswered(m, takes, trusted)

SignOnNext ==
  \/ \E t \in Tabs : Does(t)
  \/ \E m \in calls : IsAnswered(m) \/ Fail(m)
  \/ CookiesExpire
  \/ CsrfStep /\ UNCHANGED signOnVars

SignOnSpec == SignOnInit /\ [][SignOnNext]_browserVars

-----------------------------------------------------------------------------
(***************************************************************************)
(* A sign-in through the provider that the user completes is refused only  *)
(* by the provider or because of its account: its flow is not lost, unless *)
(* another tab started one of its own, or came back from one, in between,  *)
(* or the ten minutes have passed.                                         *)
(***************************************************************************)
LastFlowSucceeds ==
  \A t \in Tabs : tab[t].error \in {"missing_flow", "callback_failed"} => tab[t].flow \in spoiled

\* Whose session the cookies hold.
Holder ==
  LET s == cookies.session IN
    IF s # 0 /\ (s \in server.live \/ cookies.fresh) THEN Sessions[s].user ELSE NoOne

Due(x) ==
  IF server.phase = "setup" THEN x.path = "setup"
  ELSE IF server.phase = "off" THEN x.path = "app"
  ELSE IF Enforced /\ x.path = "login" THEN x.error # "none"
  ELSE IF Holder # NoOne
    THEN /\ x.path = "app" /\ x.user = Holder
         /\ storage.acting # NoOne => Sessions[cookies.session].by = storage.acting
  ELSE x.path = IF server.phase = "bootstrap" THEN "register" ELSE "login"

(***************************************************************************)
(* Once nothing is under way, a page that has asked for its session, or    *)
(* was told of it, since it last changed shows the page that is due: the   *)
(* choice, the first registration, the sign-in, or the app as the user     *)
(* whose session the cookies hold; and no banner claims that this user is  *)
(* another one.  Left out are pages with a failed request, pages at the    *)
(* provider, and three that a sign-in of their own tells too little: one   *)
(* that is still loading (what it asked before may end in a sign-in page   *)
(* for a user who has just signed in), one that shows the choice (it stays *)
(* there, whatever another tab chose), and one that is inside already      *)
(* while another tab acts as somebody (its banner asks once, when it       *)
(* appears).                                                               *)
(***************************************************************************)
PagesShowTheSession ==
  calls = {} => \A t \in Tabs : t \in current \ failed =>
                 tab[t].path \in {"provider", "leaving"} \/ Due(tab[t])
=============================================================================
