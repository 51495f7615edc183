-------------------------------- MODULE Viewers --------------------------------
(***************************************************************************)
(* A browser tab (web/src/App.tsx) and the server it watches               *)
(* (server/index.ts).  The tab keeps the latest snapshot it was sent, asks *)
(* for the stream of the project it looks at, follows the designated       *)
(* project if it has chosen none, comes back after errors, and lets its    *)
(* visitor raise a hand, write a prompt and send it.  Requests, answers    *)
(* and events of the stream pass each other on their way.                  *)
(*                                                                         *)
(* The floor is that of the designated project as this visitor sees it:    *)
(* free, his own to speak, or busy with anything else.  StageFloor says    *)
(* how it moves; every other project is idle (OnlySelectedWorks of         *)
(* ProjectSwitch).  A visitor may have other tabs, and those of other      *)
(* visitors show in the moves of the floor and of the designation.         *)
(***************************************************************************)
EXTENDS Naturals, Sequences

CONSTANTS
  Project,
  Gone,       \* an id a tab remembers of a project that is not there any more
  Own,        \* no project chosen: the designated one
  NoText,     \* an empty prompt
  MaxInbox    \* bound: events of a stream on their way

ASSUME GoneAssumption ==
  Gone \notin Project /\ Own \notin Project \cup {Gone} /\ NoText \notin Project
ASSUME InboxAssumption == MaxInbox \in Nat \ {0}

VARIABLES     \* the server
  active,     \* activeId
  alive,      \* the tab's cookie names a session
  floor,      \* of the active project: "free", "mine" (this visitor speaks), or "busy"
  scheduled   \* a broadcast is due within 30 ms

VARIABLES     \* the tab, and what is on its way to it
  stream,     \* the EventSource: "none", "connecting", "open", "closed"
  inbox,      \* the snapshots on their way through it
  check,      \* onerror's question whether the session and the project are there
  late,       \* such a question of a stream closed since is answered: no session
  request,    \* the request under way
  shown,      \* snapshot
  view,       \* viewProject
  connected,
  project,    \* projectRef
  prompt      \* the project the text in the composer was written at

serverState == <<active, alive, floor, scheduled>>
viewerVars == <<serverState, stream, inbox, check, late, request, shown, view, connected,
                project, prompt>>

\* A snapshot of project p as the server makes it now.
Snapshot(p) ==
  [project |-> p, designated |-> p = active, floor |-> IF p = active THEN floor ELSE "free",
   event |-> FALSE]

Snapshots ==
  [project : Project, designated : BOOLEAN, floor : {"free", "mine", "busy"}, event : BOOLEAN]

Nothing == [project |-> Gone, designated |-> FALSE, floor |-> "free", event |-> FALSE]

NoRequest == [kind |-> "none", at |-> "-", project |-> Own, text |-> NoText, event |-> FALSE,
              snapshot |-> Nothing]

Requests ==
  [kind : {"none", "me", "join", "login", "raise", "release", "prompt"}, at : {"-", "sent", "ok"},
   project : Project \cup {Own}, text : Project \cup {NoText}, event : BOOLEAN,
   snapshot : Snapshots \cup {Nothing}]

ViewersTypeOK ==
  /\ active \in Project /\ {alive, scheduled, connected} \subseteq BOOLEAN
  /\ floor \in {"free", "mine", "busy"}
  /\ stream \in {"none", "connecting", "open", "closed"}
  /\ inbox \in Seq(Snapshots) /\ Len(inbox) <= MaxInbox
  /\ check \in {"no", "asked", "missing", "out"} /\ late \in BOOLEAN
  /\ request \in Requests /\ shown \in Snapshots \cup {Nothing}
  /\ view \in Project \cup {Own, Gone}
  /\ project \in Project \cup {Own} /\ prompt \in Project \cup {NoText}

\* The page has just been loaded, with what it remembers of an earlier visit.
ViewersInit ==
  /\ active \in Project
  /\ alive \in BOOLEAN
  /\ floor = "free"
  /\ scheduled = FALSE
  /\ stream = "none" /\ inbox = <<>> /\ check = "no" /\ late = FALSE
  /\ request = [NoRequest EXCEPT !.kind = "me", !.at = "sent"]
  /\ shown = Nothing
  /\ view \in Project \cup {Own, Gone}
  /\ connected = FALSE
  /\ project = Own /\ prompt = NoText

-------------------------------------------------------------------------------
(* The server *)

\* Somebody else, or this visitor in another tab, raises, releases, starts or ends
\* something, or the lease lapses.
FloorMoves ==
  /\ floor' \in {"free", "mine", "busy"} \ {floor}
  /\ floor' = "mine" => floor = "free" /\ alive
  /\ scheduled' = TRUE
  /\ UNCHANGED <<active, alive, stream, inbox, check, late, request, shown, view, connected,
                 project, prompt>>

\* switchProject(): nobody speaks and nothing runs.
Designate(p) ==
  /\ floor = "free" /\ p # active
  /\ active' = p
  /\ scheduled' = TRUE
  /\ UNCHANGED <<alive, floor, stream, inbox, check, late, request, shown, view, connected,
                 project, prompt>>

\* broadcastState() after its 30 ms, through sendState() to a stream that may be pinned.
Broadcast ==
  /\ scheduled
  /\ scheduled' = FALSE
  /\ IF stream = "open"
       THEN /\ Len(inbox) < MaxInbox
            /\ inbox' = Append(inbox, Snapshot(IF view = Own THEN active ELSE view))
       ELSE UNCHANGED inbox
  /\ UNCHANGED <<active, alive, floor, stream, check, late, request, shown, view, connected,
                 project, prompt>>

\* Mutant: the first snapshot of a stream comes with the next change.
FirstEvents == <<>>

\* The events route sends the state at once.
FirstEvent == <<Snapshot(IF view = Own THEN active ELSE view)>>

\* Mutant: requests do not say which project they mean.
AnyProject(r) == TRUE

\* A request that changes something is bound to the project the tab showed.
MeansActive(r) == r.project = active

\* The requests that are answered with a snapshot.
Asking == {"me", "join", "login"}

\* What the server makes of a request of the tab: it needs a session, and the floor.
Granted(r) ==
  CASE r.kind = "join" -> TRUE
    [] r.kind = "me" -> alive
    [] r.kind = "login" -> alive
    [] r.kind = "raise" -> alive /\ MeansActive(r) /\ floor = "free"
    [] OTHER -> alive /\ MeansActive(r) /\ floor = "mine"

\* The request arrives.  A right password is one of the things a login may bring.  A refusal
\* ends the request.
Arrives ==
  /\ request.at = "sent"
  /\ \/ /\ Granted(request)
        /\ request' = [request EXCEPT !.at = "ok",
                          !.snapshot = IF request.kind \in Asking THEN Snapshot(active) ELSE @]
        /\ alive' = TRUE
        /\ floor' = CASE request.kind = "raise" -> "mine"
                      [] request.kind = "release" -> "free"
                      [] request.kind = "prompt" -> "busy"
                      [] OTHER -> floor
     \/ /\ ~Granted(request) \/ request.kind \in {"join", "login"}
        /\ request' = NoRequest
        /\ UNCHANGED <<alive, floor>>
  /\ scheduled' = (scheduled \/ request.kind # "me")
  /\ UNCHANGED <<active, stream, inbox, check, late, shown, view, connected, project, prompt>>

-------------------------------------------------------------------------------
(* The stream *)

\* onerror: not connected any more, and is the session still there?
OnError ==
  /\ connected' = FALSE
  /\ check' = IF check = "no" THEN "asked" ELSE check

\* Six hours without a request, or a restart of the server: the session is gone and its
\* streams end.
Expire ==
  /\ alive
  /\ alive' = FALSE
  /\ floor' = IF floor = "mine" THEN "free" ELSE floor
  /\ scheduled' = TRUE
  /\ IF stream = "open"
       THEN stream' = "connecting" /\ inbox' = <<>> /\ OnError
       ELSE UNCHANGED <<stream, inbox, connected, check>>
  /\ UNCHANGED <<active, late, request, shown, view, project, prompt>>

\* The events route answers.  The browser does not ask again after a refusal: no session,
\* no such project, five streams already, or a project that cannot be opened.
Accept ==
  /\ stream = "connecting" /\ alive /\ view # Gone
  /\ stream' = "open"
  /\ inbox' = FirstEvent
  /\ UNCHANGED <<serverState, check, late, request, shown, view, connected, project, prompt>>

Refuse ==
  /\ stream = "connecting"
  /\ stream' = "closed"
  /\ OnError
  /\ UNCHANGED <<serverState, inbox, late, request, shown, view, project, prompt>>

\* The connection breaks, or is destroyed because too much waits in it; the browser connects
\* again after a moment.
Lose ==
  /\ stream \in {"connecting", "open"}
  /\ stream' = "connecting"
  /\ inbox' = <<>>
  /\ OnError
  /\ UNCHANGED <<serverState, late, request, shown, view, project, prompt>>

\* The state event.  The text of another project is not kept.
Receive ==
  /\ inbox # <<>>
  /\ LET next == Head(inbox) IN
       /\ shown' = [next EXCEPT !.event = TRUE]
       /\ project' = next.project
       /\ prompt' = IF next.project # project THEN NoText ELSE prompt
  /\ connected' = TRUE
  /\ inbox' = Tail(inbox)
  /\ UNCHANGED <<serverState, stream, check, late, request, view>>

\* Mutant: what is on its way is still taken.
ReopenOnly ==
  /\ stream' = "connecting"
  /\ late' = (late \/ check = "out" \/ (check = "asked" /\ ~alive))
  /\ check' = "no"
  /\ UNCHANGED inbox

\* A new EventSource.  The old one is closed, and nothing of it is taken any more.
Reopen ==
  /\ stream' = "connecting"
  /\ inbox' = <<>>
  /\ late' = (late \/ check = "out" \/ (check = "asked" /\ ~alive))
  /\ check' = "no"

\* GET /api/me for the project of the stream.  Nothing follows when all is well.
CheckArrives ==
  /\ check = "asked"
  /\ check' = IF ~alive THEN "out" ELSE IF view = Gone THEN "missing" ELSE "no"
  /\ UNCHANGED <<serverState, stream, inbox, late, request, shown, view, connected, project,
                 prompt>>

\* The session has ended: back to the entry.
Out ==
  /\ stream' = "none"
  /\ inbox' = <<>>
  /\ shown' = Nothing

Answered ==
  /\ \/ check = "missing" /\ Reopen /\ view' = Own /\ UNCHANGED shown
     \/ check = "out" /\ Out /\ check' = "no" /\ UNCHANGED <<late, view>>
  /\ UNCHANGED <<serverState, request, connected, project, prompt>>

\* Neither the session nor the project is at fault: the network or the server is.
CheckLost ==
  /\ check # "no"
  /\ check' = "no"
  /\ UNCHANGED <<serverState, stream, inbox, late, request, shown, view, connected, project,
                 prompt>>

\* Mutant: the answer is taken whoever asked.
LateOut == Out
\* Nobody waits for it any more.
LateIgnored == UNCHANGED <<stream, inbox, shown>>

LateAnswer ==
  /\ late
  /\ late' = FALSE
  /\ LateIgnored
  /\ UNCHANGED <<serverState, check, request, view, connected, project, prompt>>

-------------------------------------------------------------------------------
(* The visitor.  perform() is pending while a request is under way; bound: one at once.    *)

Pending == request # NoRequest

CanInteract == shown.designated /\ connected
IsSpeaker == shown.designated /\ shown.floor = "mine"

Send(kind, text) ==
  /\ request' = [NoRequest EXCEPT !.kind = kind, !.at = "sent", !.text = text,
                    !.event = (kind = "prompt" /\ shown.event),
                    !.project = IF kind \in Asking THEN Own ELSE shown.project]
  /\ UNCHANGED <<serverState, stream, inbox, check, late, shown, view, connected, project,
                 prompt>>

Join == ~Pending /\ shown = Nothing /\ Send("join", NoText)
Login == ~Pending /\ shown # Nothing /\ Send("login", NoText)
Raise == ~Pending /\ CanInteract /\ shown.floor = "free" /\ Send("raise", NoText)
Release == ~Pending /\ IsSpeaker /\ Send("release", NoText)
SubmitPrompt ==
  ~Pending /\ IsSpeaker /\ connected /\ prompt # NoText /\ Send("prompt", prompt)

\* The composer is there for the speaker, connected or not.  (What is written in the moment
\* in which an answer to a request is shown is left out.)
Write ==
  /\ IsSpeaker /\ shown.event /\ prompt = NoText
  /\ prompt' = shown.project
  /\ UNCHANGED <<serverState, stream, inbox, check, late, request, shown, view, connected,
                 project>>

\* The answer.  A snapshot is shown as it is, whichever project it is of, and the first
\* one opens the stream.  A prompt that was taken empties the composer.
TakeAnswer ==
  /\ request.at = "ok"
  /\ IF request.kind \in Asking
       THEN /\ shown' = request.snapshot
            /\ IF stream = "none" THEN Reopen ELSE UNCHANGED <<stream, inbox, check, late>>
       ELSE UNCHANGED <<shown, stream, inbox, check, late>>
  /\ prompt' = IF request.kind = "prompt" THEN NoText ELSE prompt
  /\ request' = NoRequest
  /\ UNCHANGED <<serverState, view, connected, project>>

\* The request or its answer is lost; the visitor sees an error either way.
RequestLost ==
  /\ Pending
  /\ request' = NoRequest
  /\ UNCHANGED <<serverState, stream, inbox, check, late, shown, view, connected, project,
                 prompt>>

Choose(p) ==
  /\ connected' = FALSE
  /\ view' = p
  /\ IF p # view THEN Reopen ELSE UNCHANGED <<stream, inbox, check, late>>
  /\ UNCHANGED <<serverState, request, shown, project, prompt>>

SelectProject(p) == shown # Nothing /\ connected /\ p # shown.project /\ Choose(p)

ReturnToActive == shown # Nothing /\ ~shown.designated /\ Choose(Own)

\* The page is loaded again; of all this only sessionStorage is left.
Reload ==
  /\ stream' = "none" /\ inbox' = <<>> /\ check' = "no" /\ late' = FALSE
  /\ request' = [NoRequest EXCEPT !.kind = "me", !.at = "sent"]
  /\ shown' = Nothing
  /\ connected' = FALSE
  /\ project' = Own /\ prompt' = NoText
  /\ UNCHANGED <<serverState, view>>

-------------------------------------------------------------------------------

\* What goes on by itself.
Machinery ==
  \/ Broadcast \/ Arrives
  \/ Accept \/ Refuse \/ Receive
  \/ CheckArrives \/ Answered \/ LateAnswer \/ TakeAnswer

ViewersNext ==
  \/ Machinery
  \/ FloorMoves \/ Expire \/ Lose \/ CheckLost \/ RequestLost
  \/ \E p \in Project : Designate(p) \/ SelectProject(p)
  \/ ReturnToActive \/ Reload
  \/ Join \/ Login \/ Raise \/ Release \/ Write \/ SubmitPrompt

ViewersSpec == ViewersInit /\ [][ViewersNext]_viewerVars

\* Timers fire, and what was sent arrives and is answered unless it is lost.  Nobody has to
\* touch the page.
ViewersFairness == WF_viewerVars(Machinery)

FairViewersSpec == ViewersSpec /\ ViewersFairness

-------------------------------------------------------------------------------

\* While the page says that it is connected, a project the stream shows is the one this
\* visitor chose, or one that was designated when it was sent.
ShownIsChosen ==
  connected /\ shown # Nothing /\ shown.event =>
    IF view = Own THEN shown.designated ELSE shown.project = view

ViewersInv == ViewersTypeOK /\ ShownIsChosen

\* What a visitor asks for takes effect on the project he saw when he asked, and a prompt
\* sent while the stream's project was shown goes to the project it was written
\* at.  (The answer to an administrator's login shows the designated project, whichever is
\* viewed, without emptying the composer.)
ActsWhereShown ==
  [][Arrives /\ request'.at = "ok" /\ request.kind \in {"raise", "release", "prompt"} =>
       /\ request.project = active
       /\ request.kind = "prompt" /\ request.event => request.text = active]_viewerVars

\* A visitor is sent back to the entry only when his session has ended, by an answer about
\* the session he has.
SessionKept == [][Answered \/ LateAnswer => (shown' = Nothing /\ shown # Nothing => ~alive)]_viewerVars

Current ==
  connected /\ shown = [Snapshot(IF view = Own THEN active ELSE view) EXCEPT !.event = TRUE]

\* When the server and the visitor leave it at that and the network works, the page comes to
\* show the present state of the project chosen, or the entry, unless the server refused its
\* stream, which the browser does not ask for again, or an answer was shown last.
Follows ==
  <>[][Machinery]_viewerVars =>
    <>[](Current \/ shown = Nothing \/ stream = "closed" \/ ~shown.event)

===============================================================================
