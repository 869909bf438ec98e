----------------------------- MODULE UpdateCheck -----------------------------
(***************************************************************************)
(* The check for a newer release: the route /system/update and its cache   *)
(* of one answer (update.ts), GitHub's list of releases behind it, and the *)
(* page in front of it: the banner (UpdateBanner.tsx), which remembers     *)
(* answers in the browser, and the card of the settings (Settings.tsx).    *)
(***************************************************************************)
EXTENDS Naturals, FiniteSets, Sequences

CONSTANTS
  Version,   \* what is released: [core, pre], see Compare
  Running,   \* the version that runs
  Check,     \* the calls of /system/update
  TTL,       \* UPDATE_CHECK_TTL_MS
  Interval,  \* CHECK_INTERVAL_MS
  MaxTime, MaxClicks, MaxTroubles  \* bounds

ASSUME UpdateAssumption ==
  /\ TTL \in Nat \ {0} /\ Interval \in Nat /\ MaxTime \in Nat /\ MaxClicks \in Nat /\ MaxTroubles \in Nat

VARIABLES
  outbound,  \* UPDATE_CHECK_OUTBOUND
  releases,  \* external: what GitHub lists
  answered,  \* the module variable cache of update.ts
  check,     \* the calls under way
  banner, card,  \* the state of UpdateBanner and of the settings
  browser,   \* local and session storage
  now,
  clicks, troubles,
  was        \* history: the releases GitHub listed at each time

updates == <<outbound, releases, answered, check, banner, card, browser, now, clicks, troubles, was>>

Channel == {"stable", "prerelease"}
None == [version |-> "none"]
NoVersion == [core |-> 0, pre |-> <<>>]

-----------------------------------------------------------------------------
(***************************************************************************)
(* semver.ts.  major, minor and patch are one number, core; an identifier  *)
(* of pre is a number or a word, words are numbered in their order.        *)
(***************************************************************************)
CompareNumbers(a, b) == IF a = b THEN 0 ELSE IF a < b THEN 0 - 1 ELSE 1

CompareIdentifiers(a, b) ==
  IF a.word = b.word THEN CompareNumbers(a.value, b.value) ELSE IF a.word THEN 1 ELSE 0 - 1

ComparePre(a, b) ==
  LET differ == {i \in 1..Len(a) \cup 1..Len(b) :
                   i > Len(a) \/ i > Len(b) \/ (i <= Len(a) /\ i <= Len(b) /\ a[i] # b[i])} IN
    IF differ = {} THEN 0
    ELSE IF a = <<>> THEN 1 ELSE IF b = <<>> THEN 0 - 1
    ELSE LET i == CHOOSE j \in differ : \A k \in differ : j <= k IN
      IF i > Len(a) THEN 0 - 1 ELSE IF i > Len(b) THEN 1 ELSE CompareIdentifiers(a[i], b[i])

\* compareSemver
Compare(v, w) ==
  IF v.core = w.core THEN ComparePre(v.pre, w.pre) ELSE CompareNumbers(v.core, w.core)

\* The reference: one order of all versions, on a sample with every kind of identifier.
Sample ==
  LET identifiers == [word : {FALSE}, value : {1, 2}] \cup [word : {TRUE}, value : {1}] IN
    [core : {1, 2}, pre : UNION {[1..n -> identifiers] : n \in 0..2}]

ASSUME SemverOrders ==
  \A u, v, w \in Sample :
    /\ Compare(u, v) = 0 <=> u = v
    /\ Compare(u, v) > 0 <=> Compare(v, u) < 0
    /\ Compare(u, v) > 0 /\ Compare(v, w) > 0 => Compare(u, w) > 0

Candidates(list, c) == IF c = "prerelease" THEN list ELSE {v \in list : v.pre = <<>>}

\* pickLatestRelease
PickLatest(list, c) ==
  LET found == Candidates(list, c) IN
    IF found = {} THEN NoVersion ELSE CHOOSE v \in found : \A w \in found : Compare(v, w) >= 0

\* computeIsUpdateAvailable
IsNewer(v) == v # NoVersion /\ Compare(v, Running) > 0

-----------------------------------------------------------------------------
(***************************************************************************)
(* A call: who made it, for which channel, and when.  An answer carries an *)
(* error or a version, NoVersion when there is no release or no check.     *)
(* mixed is history: the answer is that of a 304 for another list.         *)
(***************************************************************************)
Idle == [stage |-> "idle"]

Answer(c, version, error) == [channel |-> c, version |-> version, error |-> error]

Starts(q, from, c) ==
  /\ check[q] = Idle
  /\ check' = [check EXCEPT ![q] = [stage |-> "asked", from |-> from, channel |-> c, at |-> now]]

NoCache == [channel |-> "none"]

UpdateInit ==
  /\ outbound \in BOOLEAN
  /\ releases = {Running}
  /\ answered = NoCache
  /\ check = [q \in Check |-> Idle]
  /\ browser = [channel |-> "stable", ignored |-> NoVersion,
                info |-> [c \in Channel |-> None], checked |-> [c \in Channel |-> {}],
                closed |-> [c \in Channel |-> NoVersion]]
  /\ banner = [mounted |-> FALSE]
  /\ card = [open |-> FALSE]
  /\ now = 0 /\ clicks = 0 /\ troubles = 0
  /\ was = [t \in 0..MaxTime |-> IF t = 0 THEN {releases} ELSE {}]

-----------------------------------------------------------------------------
(***************************************************************************)
(* GitHub, and time.  Node gives a request up after five minutes, and the  *)
(* cache is good for ten: a tick passes only when no request to GitHub     *)
(* would reach the age at which its answer would already be stale.         *)
(***************************************************************************)
Publish(v) ==
  /\ v \notin releases
  /\ releases' = releases \cup {v}
  /\ was' = [was EXCEPT ![now] = @ \cup {releases'}]
  /\ UNCHANGED <<outbound, answered, check, banner, card, browser, now, clicks, troubles>>

Tick ==
  /\ now < MaxTime
  /\ \A q \in Check : check[q].stage \notin {"idle", "asked", "answered"} => now + 1 - check[q].at < TTL
  /\ now' = now + 1
  /\ was' = [was EXCEPT ![now + 1] = {releases}]
  /\ UNCHANGED <<outbound, releases, answered, check, banner, card, browser, clicks, troubles>>

-----------------------------------------------------------------------------
(***************************************************************************)
(* GET /system/update: fetchLatest.                                        *)
(***************************************************************************)
Concludes(q, answer) ==
  check' = [check EXCEPT ![q] = [stage |-> "answered", from |-> @.from, channel |-> @.channel,
                                 at |-> IF @.stage = "asked" THEN now ELSE @.at, answer |-> answer,
                                 mixed |-> answered'.mixed]]

\* Defect: the age of an answer counts from when it arrived.
RememberArrival(q, etag, answer) ==
  answered' = [channel |-> check[q].channel, at |-> now, etag |-> etag, answer |-> answer,
               mixed |-> FALSE]

Remember(q, etag, answer) ==
  answered' = [channel |-> check[q].channel, at |-> check[q].at, etag |-> etag, answer |-> answer,
               mixed |-> FALSE]

IsCached(c) == answered.channel = c

Ask(q) ==
  LET c == check[q].channel IN
    /\ check[q].stage = "asked"
    /\ \/ /\ IsCached(c) /\ now - answered.at < TTL
          /\ UNCHANGED answered
          /\ Concludes(q, answered.answer)
       \/ /\ ~ (IsCached(c) /\ now - answered.at < TTL) /\ ~ outbound
          /\ Remember(q, {}, Answer(c, NoVersion, FALSE))
          /\ Concludes(q, Answer(c, NoVersion, FALSE))
       \/ /\ ~ (IsCached(c) /\ now - answered.at < TTL) /\ outbound
          /\ check' = [check EXCEPT ![q] = [stage |-> "fetching", from |-> @.from, channel |-> c, at |-> now,
                                            etag |-> IF IsCached(c) THEN answered.etag ELSE {}]]
          /\ UNCHANGED answered
    /\ UNCHANGED <<outbound, releases, banner, card, browser, now, clicks, troubles, was>>

\* External: the ETag stands for the list; a response may be an error.
Serve(q) ==
  /\ check[q].stage = "fetching"
  /\ \/ UNCHANGED troubles
        /\ check' = [check EXCEPT ![q].stage =
                       IF check[q].etag = releases THEN "unchanged" ELSE "served",
                     ![q].etag = releases]
     \/ troubles < MaxTroubles /\ troubles' = troubles + 1
        /\ check' = [check EXCEPT ![q].stage = "refused"]
  /\ UNCHANGED <<outbound, releases, answered, banner, card, browser, now, clicks, was>>

\* 304 counts only while the cache is still about the channel, and then for
\* whatever list it holds by now.
Unchanged(q) ==
  /\ check[q].stage = "unchanged" /\ IsCached(check[q].channel)
  /\ answered' = [answered EXCEPT !.at = check[q].at, !.mixed = answered.etag # check[q].etag]
  /\ Concludes(q, answered.answer)
  /\ UNCHANGED <<outbound, releases, banner, card, browser, now, clicks, troubles, was>>

Refused(q) ==
  LET c == check[q].channel IN
    /\ \/ check[q].stage = "refused"
       \/ check[q].stage = "unchanged" /\ ~ IsCached(c)
    /\ Remember(q, {}, Answer(c, NoVersion, TRUE))
    /\ Concludes(q, Answer(c, NoVersion, TRUE))
    /\ UNCHANGED <<outbound, releases, banner, card, browser, now, clicks, troubles, was>>

Served(q) ==
  LET c == check[q].channel
      answer == Answer(c, PickLatest(check[q].etag, c), FALSE) IN
    /\ check[q].stage = "served"
    /\ Remember(q, check[q].etag, answer)
    /\ Concludes(q, answer)
    /\ UNCHANGED <<outbound, releases, banner, card, browser, now, clicks, troubles, was>>

-----------------------------------------------------------------------------
(***************************************************************************)
(* The banner, which every page with the layout mounts.                    *)
(***************************************************************************)
\* shouldCheckNow
IsDue(c) == \A t \in browser.checked[c] : now - t >= Interval

\* load: answers of an earlier banner belong to nobody.
Loads(c) ==
  IF IsDue(c) THEN \E q \in Check : Starts(q, "banner", c) ELSE UNCHANGED check

Banner(c) ==
  [mounted |-> TRUE, channel |-> c, info |-> browser.info[c], ignored |-> browser.ignored,
   closed |-> browser.closed[c], crossed |-> FALSE]

Click == clicks < MaxClicks /\ clicks' = clicks + 1

Mount ==
  /\ Click /\ ~ banner.mounted
  /\ banner' = Banner(browser.channel)
  /\ Loads(browser.channel)
  /\ UNCHANGED <<outbound, releases, answered, card, browser, now, troubles, was>>

\* The page is left; calls go on, and their answers are only remembered.
Unmount ==
  /\ banner.mounted
  /\ banner' = [mounted |-> FALSE] /\ card' = [open |-> FALSE]
  /\ check' = [q \in Check |-> IF check[q] = Idle THEN Idle
                               ELSE [check[q] EXCEPT !.from = IF @ = "banner" THEN "left" ELSE "gone"]]
  /\ UNCHANGED <<outbound, releases, answered, browser, now, clicks, troubles, was>>

\* The banner shows when there is something to offer.
Offers ==
  /\ banner.mounted /\ banner.info # None
  /\ IsNewer(banner.info.version) /\ banner.info.version \notin {banner.ignored, banner.closed}

SelectChannel(c) ==
  /\ Click /\ Offers /\ c # banner.channel
  /\ browser' = [browser EXCEPT !.channel = c]
  /\ banner' = [Banner(c) EXCEPT !.ignored = banner.ignored]
  /\ Loads(c)
  /\ UNCHANGED <<outbound, releases, answered, card, now, troubles, was>>

CheckAgain ==
  /\ Click /\ Offers /\ \A q \in Check : check[q] # Idle => check[q].from # "banner"
  /\ \E q \in Check : Starts(q, "banner", banner.channel)
  /\ UNCHANGED <<outbound, releases, answered, banner, card, browser, now, troubles, was>>

CloseBanner ==
  /\ Click /\ Offers
  /\ browser' = [browser EXCEPT !.closed[banner.channel] = banner.info.version]
  /\ banner' = [banner EXCEPT !.closed = banner.info.version]
  /\ UNCHANGED <<outbound, releases, answered, check, card, now, troubles, was>>

IgnoreVersion ==
  /\ Click /\ Offers
  /\ browser' = [browser EXCEPT !.ignored = banner.info.version]
  /\ banner' = [banner EXCEPT !.ignored = banner.info.version]
  /\ UNCHANGED <<outbound, releases, answered, check, card, now, troubles, was>>

\* Defect: the answer is stored under the channel that is selected by now.
StoredForSelected(q) ==
  [browser EXCEPT !.info[browser.channel] = check[q].answer,
                  !.checked[browser.channel] = IF check[q].from \in {"banner", "left"} THEN {now} ELSE @]

\* What a call that succeeds leaves in the storage: under the channel it was for.
Stored(q) ==
  LET c == check[q].channel IN
    [browser EXCEPT !.info[c] = check[q].answer,
                    !.checked[c] = IF check[q].from \in {"banner", "left"} THEN {now} ELSE @]

Arrive(q) ==
  LET answer == check[q].answer  from == check[q].from IN
    /\ check[q].stage = "answered"
    /\ browser' = Stored(q)
    /\ check' = [check EXCEPT ![q] = Idle]
    /\ banner' = IF from # "banner" THEN banner
                 ELSE [banner EXCEPT !.info = answer, !.ignored = browser.ignored,
                                     !.closed = browser.closed[banner.channel],
                                     !.crossed = answer.channel # banner.channel]
    /\ card' = IF from # "card" THEN card
               ELSE [card EXCEPT !.info = answer, !.loading = FALSE,
                                 !.crossed = answer.channel # card.channel]
    /\ UNCHANGED <<outbound, releases, answered, now, clicks, troubles, was>>

\* The call fails, on its way or because fetch throws; the banner counts it all the same.
CheckFails(q) ==
  LET c == check[q].channel IN
    /\ check[q] # Idle
    /\ troubles < MaxTroubles /\ troubles' = troubles + 1
    /\ browser' = IF check[q].from \in {"banner", "left"} THEN [browser EXCEPT !.checked[c] = {now}] ELSE browser
    /\ card' = IF check[q].from = "card" THEN [card EXCEPT !.error = TRUE, !.loading = FALSE] ELSE card
    /\ check' = [check EXCEPT ![q] = Idle]
    /\ UNCHANGED <<outbound, releases, answered, banner, now, clicks, was>>

-----------------------------------------------------------------------------
(***************************************************************************)
(* The card of the settings, on a page that has the banner as well.  The   *)
(* first of its calls to end makes it look idle, whatever the others do.   *)
(***************************************************************************)
CardChecks(c) == \E q \in Check : Starts(q, "card", c)

OpenSettings ==
  /\ Click /\ banner.mounted /\ ~ card.open
  /\ card' = [open |-> TRUE, channel |-> browser.channel, info |-> None, loading |-> TRUE, error |-> FALSE,
              crossed |-> FALSE]
  /\ CardChecks(browser.channel)
  /\ UNCHANGED <<outbound, releases, answered, banner, browser, now, troubles, was>>

CardSelects(c) ==
  /\ Click /\ card.open /\ c # card.channel
  /\ browser' = [browser EXCEPT !.channel = c]
  /\ card' = [card EXCEPT !.channel = c, !.loading = TRUE, !.error = FALSE, !.crossed = card.info # None]
  /\ CardChecks(c)
  /\ UNCHANGED <<outbound, releases, answered, banner, now, troubles, was>>

CheckNow ==
  /\ Click /\ card.open /\ ~ card.loading
  /\ card' = [card EXCEPT !.loading = TRUE, !.error = FALSE]
  /\ CardChecks(card.channel)
  /\ UNCHANGED <<outbound, releases, answered, banner, browser, now, troubles, was>>

UpdateNext ==
  \/ \E v \in Version : Publish(v)
  \/ Tick \/ Mount \/ Unmount \/ CheckAgain \/ CloseBanner \/ IgnoreVersion \/ OpenSettings \/ CheckNow
  \/ \E c \in Channel : SelectChannel(c) \/ CardSelects(c)
  \/ \E q \in Check : Ask(q) \/ Serve(q) \/ Unchanged(q) \/ Refused(q) \/ Served(q) \/ Arrive(q) \/ CheckFails(q)

-----------------------------------------------------------------------------
(***************************************************************************)
(* An answer without an error names the latest release that GitHub listed  *)
(* for the channel at some time in the ten minutes before the answer,      *)
(* however calls for both channels overlap on the one cache entry.  If a   *)
(* 304 was applied to another list than it was about, the one that a slow  *)
(* call left in the cache after a quicker one, it is twenty: the old list  *)
(* passes for fresh.                                                       *)
(***************************************************************************)
AnswersAreRecent ==
  \A q \in Check : check[q].stage = "answered" /\ ~ check[q].answer.error /\ outbound =>
    \E t \in 0..now : /\ check[q].at - t < IF check[q].mixed THEN 2 * TTL ELSE TTL
                      /\ \E list \in was[t] : PickLatest(list, check[q].channel) = check[q].answer.version

(***************************************************************************)
(* What the browser remembers for a channel is about that channel, and so  *)
(* is what the banner and the card show, except that a late answer for     *)
(* the channel selected before is shown until the next one: neither        *)
(* compares an answer with the channel that is selected when it arrives.   *)
(***************************************************************************)
ChannelsStayApart ==
  /\ \A c \in Channel : browser.info[c] # None => browser.info[c].channel = c
  /\ banner.mounted /\ banner.info # None /\ ~ banner.crossed => banner.info.channel = banner.channel
  /\ card.open /\ card.info # None /\ ~ card.crossed => card.info.channel = card.channel

UpdatesAreTrue == AnswersAreRecent /\ ChannelsStayApart
=============================================================================
