----------------------------- MODULE VoiceCopilot -----------------------------
(***************************************************************************)
(* The voice co-pilot of the editor: the client that opens a session with  *)
(* the voice service, await by await (realtime.ts), and the panel that     *)
(* starts it, shows its state, cancels it, and opens and mutes the         *)
(* microphone (CopilotPanel.tsx).  Each start makes a client of its own;   *)
(* what an earlier one still has under way goes on.                        *)
(***************************************************************************)
EXTENDS Naturals

CONSTANTS
  NoClient,
  MaxStarts,  \* bound: the clients that are made
  MaxMounts,  \* bound: the times the panel is mounted
  MaxActs     \* bound: server events, sent texts, presses, changes of the mode

ASSUME CopilotAssumption ==
  /\ MaxStarts \in Nat \ {0} /\ MaxMounts \in Nat \ {0} /\ MaxActs \in Nat
  /\ NoClient \notin 1 .. MaxStarts

VARIABLES
  client,  \* the instances of RealtimeCopilot
  panel,   \* the panel, its state and its rtRef
  held,    \* what the user holds down to talk
  stuck,   \* history: a release was not noticed, and nothing set the microphone since
  acts     \* how many acts there were, for MaxActs

copilotVars == <<client, panel, held, stuck, acts>>

Client == 1 .. MaxStarts
Hold == {"pointer", "space", "key"}

(***************************************************************************)
(* step: the await at which connect() stands.  mic: the answer to the      *)
(* prompt, and what became of the track; "late" and "stray" are a prompt   *)
(* that was given up and a track granted after that.  cancelled, busy:     *)
(* history, disconnect() ran while connect() or a tool call was under way; *)
(* minting: it was before there was a connection.                          *)
(***************************************************************************)
Fresh(mount) ==
  [mount |-> mount, state |-> "connecting", step |-> "mint", pc |-> "none", mic |-> "none",
   enabled |-> FALSE, timer |-> FALSE, tool |-> FALSE,
   cancelled |-> FALSE, minting |-> FALSE, busy |-> FALSE]

NotMade == [Fresh(0) EXCEPT !.state = "idle", !.step = "none"]

Connecting(c) == client[c].step \in {"mint", "mic", "offer", "answer"}

\* pressed: what the talk button knows to be down.
NewPanel(mount) ==
  [mount |-> mount, mounted |-> TRUE, open |-> FALSE, state |-> "idle", rt |-> NoClient,
   micAvailable |-> TRUE, micMode |-> "ptt", pressed |-> {}]

CopilotInit ==
  /\ client = [c \in Client |-> NotMade]
  /\ panel = NewPanel(1)
  /\ held = {} /\ stuck = FALSE /\ acts = 0

Act == acts < MaxActs /\ acts' = acts + 1

-----------------------------------------------------------------------------
(***************************************************************************)
(* The panel after something changed: React runs the effects on state,     *)
(* micMode and micAvailable, which open or mute the microphone of rtRef,   *)
(* and takes the talk button away when it is not to be shown.              *)
(***************************************************************************)
PushToTalk(p) == p.state = "live" /\ p.micMode = "ptt" /\ p.micAvailable

WithMic(clients, c, on) ==
  IF c = NoClient \/ clients[c].mic # "on" THEN clients ELSE [clients EXCEPT ![c].enabled = on]

Watched(p) == <<p.state, p.micMode, p.micAvailable>>

\* Defect: leaving the open mode does not mute the microphone.
OpenOnly(clients, p) ==
  IF Watched(p) # Watched(panel) /\ p.state = "live" /\ p.micAvailable /\ p.micMode = "open"
  THEN WithMic(clients, p.rt, TRUE) ELSE clients

Effects(clients, p) ==
  IF Watched(p) = Watched(panel) THEN clients
  ELSE IF p.state = "live" /\ p.micAvailable THEN WithMic(clients, p.rt, p.micMode = "open")
  ELSE IF PushToTalk(panel) THEN WithMic(clients, p.rt, FALSE)
  ELSE clients

Render(clients, p) ==
  /\ client' = Effects(clients, p)
  /\ panel' = [p EXCEPT !.pressed = IF p.open /\ PushToTalk(p) THEN @ ELSE {}]
  /\ stuck' = (stuck /\ Watched(p) = Watched(panel))

\* onState and onEvent of a client, which set the state of the panel that made it.
Hears(p, c) == p.mounted /\ client[c].mount = p.mount

ShownAs(p, c, s) == IF Hears(p, c) THEN [p EXCEPT !.state = s] ELSE p

Off(r) ==
  [r EXCEPT !.timer = FALSE, !.enabled = FALSE,
            !.mic = IF @ = "on" THEN "stopped" ELSE @,
            !.pc = IF @ = "open" THEN "closed" ELSE @,
            !.state = IF @ = "error" THEN @ ELSE "idle",
            !.cancelled = @ \/ r.step \in {"mint", "mic", "offer", "answer"},
            !.minting = @ \/ r.step = "mint",
            !.busy = @ \/ r.tool]

Disconnected(clients, c) ==
  IF c = NoClient THEN clients ELSE [clients EXCEPT ![c] = Off(@)]

\* The panel after disconnect() of c: it is told, unless the client failed.
Told(p, c) == IF c = NoClient \/ client[c].state = "error" THEN p ELSE ShownAs(p, c, "idle")

-----------------------------------------------------------------------------
(***************************************************************************)
(* connect(), from one await to the next.                                  *)
(***************************************************************************)
\* The catch: the state is "error" first, so that disconnect() says nothing.
Fail(c, clients, p) ==
  Render([clients EXCEPT ![c] = Off([@ EXCEPT !.state = "error", !.step = "done"])],
         ShownAs(p, c, "error"))

\* The session route: a secret, or the voice service is not configured, not
\* reached, or answers something else.
Minted == {"secret", "refused"}

Mint(c) ==
  /\ client[c].step = "mint"
  /\ \E answer \in Minted :
       IF answer = "secret"
       THEN Render([client EXCEPT ![c].step = "mic", ![c].pc = "open", ![c].mic = "asked"], panel)
       ELSE Fail(c, client, panel)
  /\ UNCHANGED <<held, acts>>

TextOnly(c) == IF Hears(panel, c) THEN [panel EXCEPT !.micAvailable = FALSE] ELSE panel

\* The rest of connect() before the offer.  A connection that was closed
\* meanwhile takes no track, which is reported as a missing microphone, and
\* then throws.
AfterMic(c, mic, p) ==
  LET clients == [client EXCEPT ![c].mic = mic, ![c].step = "offer"] IN
    IF client[c].pc = "open" THEN Render(clients, p) ELSE Fail(c, clients, TextOnly(c))

Microphone(c) ==
  /\ client[c].step = "mic"
  /\ \/ AfterMic(c, "on", panel)
     \/ AfterMic(c, "none", TextOnly(c))
     \/ AfterMic(c, "late", TextOnly(c))
  /\ UNCHANGED <<held, acts>>

\* The prompt is answered after the six seconds: nobody takes the track.
LateMicrophone(c) ==
  /\ client[c].mic = "late"
  /\ \E mic \in {"stray", "none"} : Render([client EXCEPT ![c].mic = mic], panel)
  /\ UNCHANGED <<held, acts>>

\* createOffer and setLocalDescription; on a connection that was closed
\* meanwhile they fail, or never settle.
Offer(c) ==
  /\ client[c].step = "offer"
  /\ IF client[c].pc = "open"
     THEN Render([client EXCEPT ![c].step = "answer"], panel)
     ELSE Fail(c, client, panel)
  /\ UNCHANGED <<held, acts>>

\* Defect: the timer waits for the first event.
LiveUntimed(r) == [r EXCEPT !.state = "live", !.step = "done"]

Live(r) == [r EXCEPT !.state = "live", !.step = "done", !.timer = TRUE]

Answer(c) ==
  /\ client[c].step = "answer"
  /\ \/ /\ client[c].pc = "open"
        /\ Render([client EXCEPT ![c] = Live(@)], ShownAs(panel, c, "live"))
     \/ Fail(c, client, panel)
  /\ UNCHANGED <<held, acts>>

Talks(c) == client[c].pc = "open" /\ client[c].step = "done"

\* The data channel opens or brings an event, which may call a tool.
ServerEvent(c) ==
  /\ Talks(c) /\ Act
  /\ \E call \in BOOLEAN :
       Render([client EXCEPT ![c].timer = TRUE, ![c].tool = @ \/ call], panel)
  /\ UNCHANGED held

\* The answer of the tool is sent if there is still a channel, and the timer
\* is set in any case.
ToolDone(c) ==
  /\ client[c].tool
  /\ Render([client EXCEPT ![c].tool = FALSE, ![c].timer = TRUE], panel)
  /\ UNCHANGED <<held, acts>>

IdleTimeout(c) ==
  /\ client[c].timer
  /\ Render(Disconnected(client, c), Told(panel, c))
  /\ UNCHANGED <<held, acts>>

-----------------------------------------------------------------------------
(***************************************************************************)
(* The panel.                                                              *)
(***************************************************************************)
SetOpen(open) ==
  /\ panel.mounted /\ panel.open # open
  /\ Render(client, [panel EXCEPT !.open = open])
  /\ UNCHANGED <<held, acts>>

\* start and retry: what rtRef holds is disposed of first.
Start ==
  /\ panel.mounted /\ panel.open /\ panel.state \in {"idle", "error"}
  /\ \E c \in Client :
       /\ client[c] = NotMade /\ \A d \in Client : client[d] = NotMade => c <= d
       /\ Render([Disconnected(client, panel.rt) EXCEPT ![c] = Fresh(panel.mount)],
                 [panel EXCEPT !.state = "connecting", !.rt = c, !.micAvailable = TRUE])
  /\ UNCHANGED <<held, acts>>

\* Stop, or Cancel while the client is connecting.
Stop ==
  /\ panel.mounted /\ panel.open /\ panel.state \in {"connecting", "live"}
  /\ Render(Disconnected(client, panel.rt), [panel EXCEPT !.state = "idle", !.rt = NoClient])
  /\ UNCHANGED <<held, acts>>

Unmount ==
  /\ panel.mounted
  /\ client' = Disconnected(client, panel.rt)
  /\ panel' = [NewPanel(panel.mount) EXCEPT !.mounted = FALSE]
  /\ stuck' = FALSE
  /\ UNCHANGED <<held, acts>>

Mount ==
  /\ ~ panel.mounted /\ panel.mount < MaxMounts
  /\ panel' = NewPanel(panel.mount + 1)
  /\ UNCHANGED <<client, held, stuck, acts>>

SendText ==
  /\ panel.mounted /\ panel.open /\ panel.state = "live" /\ panel.rt # NoClient /\ Act
  /\ Render([client EXCEPT ![panel.rt].timer = TRUE], panel)
  /\ UNCHANGED held

ToggleMicMode ==
  /\ panel.mounted /\ panel.open /\ panel.state = "live" /\ panel.micAvailable /\ Act
  /\ Render(client, [panel EXCEPT !.micMode = IF @ = "ptt" THEN "open" ELSE "ptt"])
  /\ UNCHANGED held

\* Holding the button with the pointer or the space bar, or the ` key down
\* wherever the user is.
Press(how) ==
  /\ panel.mounted /\ PushToTalk(panel) /\ how \notin held /\ Act
  /\ how = "key" \/ panel.open
  /\ held' = held \cup {how}
  /\ client' = WithMic(client, panel.rt, TRUE)
  /\ panel' = [panel EXCEPT !.pressed = IF how = "key" THEN @ ELSE @ \cup {how}]
  /\ stuck' = FALSE

Hearing(how) ==
  panel.mounted /\ (IF how = "key" THEN PushToTalk(panel) ELSE how \in panel.pressed)

Release(how) ==
  /\ how \in held /\ Hearing(how)
  /\ held' = held \ {how}
  /\ client' = WithMic(client, panel.rt, FALSE)
  /\ panel' = [panel EXCEPT !.pressed = @ \ {how}]
  /\ stuck' = FALSE
  /\ UNCHANGED acts

\* The button is gone, the focus has left it, or another window has the key.
ReleaseUnheard(how) ==
  /\ how \in held /\ (how = "pointer" => ~ Hearing(how))
  /\ held' = held \ {how}
  /\ panel' = [panel EXCEPT !.pressed = @ \ {how}]
  /\ stuck' = TRUE
  /\ UNCHANGED <<client, acts>>

-----------------------------------------------------------------------------
ClientStep(c) ==
  \/ Mint(c) \/ Microphone(c) \/ Offer(c) \/ Answer(c)
  \/ LateMicrophone(c) \/ ServerEvent(c) \/ ToolDone(c) \/ IdleTimeout(c)

PanelStep ==
  \/ \E open \in BOOLEAN : SetOpen(open)
  \/ Start \/ Stop \/ Unmount \/ Mount \/ SendText \/ ToggleMicMode
  \/ \E how \in Hold : Press(how) \/ Release(how) \/ ReleaseUnheard(how)

CopilotNext == (\E c \in Client : ClientStep(c)) \/ PanelStep

CopilotSpec == CopilotInit /\ [][CopilotNext]_copilotVars

(***************************************************************************)
(* Requests are answered or fail, the prompt has its six seconds, tools    *)
(* return, and a timer that nobody sets again fires.                       *)
(***************************************************************************)
FairSpec ==
  /\ CopilotSpec
  /\ \A c \in Client :
       /\ WF_copilotVars(Mint(c)) /\ WF_copilotVars(Microphone(c)) /\ WF_copilotVars(Answer(c))
       /\ WF_copilotVars(client[c].pc = "open" /\ Offer(c))
       /\ WF_copilotVars(ToolDone(c)) /\ WF_copilotVars(IdleTimeout(c))

-----------------------------------------------------------------------------
(***************************************************************************)
(* A connection to the voice service and a microphone that is on belong to *)
(* the client that the panel on the screen can stop.  Excepted are a start *)
(* that was cancelled before there was a connection to close, and a prompt *)
(* that was answered after the client had given it up (realtime.ts:71, 95).*)
(***************************************************************************)
NothingRunsUnseen ==
  \A c \in Client :
    \/ client[c].pc # "open" /\ client[c].mic \notin {"on", "stray"}
    \/ panel.mounted /\ panel.rt = c
    \/ client[c].minting \/ client[c].mic = "stray"

\* Defect excepted below: a client of this panel that still had something to report.
Disturbed ==
  \E c \in Client : client[c].mount = panel.mount /\ (client[c].cancelled \/ client[c].busy)

(***************************************************************************)
(* The panel shows the talk button, and "Live", exactly when its client    *)
(* has a connection and a microphone, unless a client was stopped before   *)
(* it had connected or while a tool was running: what these report later   *)
(* is taken for the state of the client after them.                        *)
(***************************************************************************)
PanelShowsItsClient ==
  panel.mounted /\ ~ Disturbed =>
    /\ panel.state = "live" <=> (panel.rt # NoClient /\ Talks(panel.rt))
    /\ panel.state = "live" => (panel.micAvailable <=> client[panel.rt].mic = "on")

(***************************************************************************)
(* The microphone hears only what it is meant to: it is open in the mode   *)
(* for that and the panel says that the session is live, or something is   *)
(* held down.  Excepted are a release that nobody noticed, and what        *)
(* PanelShowsItsClient excepts.                                            *)
(***************************************************************************)
HeardOnlyOnPurpose ==
  \A c \in Client : client[c].enabled =>
    /\ panel.mounted /\ panel.rt = c
    /\ \/ panel.micMode = "open" /\ (panel.state = "live" \/ Disturbed)
       \/ held # {} \/ stuck

PanelControlsItsClient == NothingRunsUnseen /\ PanelShowsItsClient /\ HeardOnlyOnPurpose

(***************************************************************************)
(* Every connection is closed in the end, also one that nobody can stop:   *)
(* the idle timer is set as soon as there is a session (the cost guardrail *)
(* of realtime.ts:53).                                                     *)
(***************************************************************************)
EverySessionEnds ==
  \A c \in Client : client[c].pc = "open" ~> client[c].pc # "open"
=============================================================================
