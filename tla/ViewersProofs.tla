----------------------------- MODULE ViewersProofs -----------------------------
(***************************************************************************)
(* Theorems about a tab and the server it watches, for any number of       *)
(* projects and of events on their way.                                    *)
(***************************************************************************)
EXTENDS Viewers, TLAPS

\* What is on its way through the stream is of the project chosen.
InboxIsChosen ==
  \A i \in 1..Len(inbox) : IF view = Own THEN inbox[i].designated ELSE inbox[i].project = view

\* Nothing comes of a project that is gone.
GoneIsDark == view = Gone => ~connected /\ inbox = <<>> /\ stream # "open"

\* At the entry there is no stream.
EntryIsQuiet == shown = Nothing => stream = "none" /\ inbox = <<>> /\ check = "no"

\* What a check has found still holds when it is told.
CheckIsTrue == (check = "missing" => view = Gone) /\ (check = "out" => ~alive)

\* What a request knows of the page that sent it.
RequestIsTrue ==
  /\ request.kind \in {"me", "join"} => shown = Nothing
  /\ request.kind = "prompt" /\ request.event => request.text = request.project
  /\ request.at = "ok" /\ request.kind \in Asking => request.snapshot \in Snapshots
  /\ ~request.snapshot.event

\* The text in the composer is of the project the stream showed last.
TextIsHere == (shown.event => shown.project = project) /\ (prompt # NoText => prompt = project)

ViewersIInv ==
  /\ ViewersTypeOK /\ ShownIsChosen
  /\ InboxIsChosen /\ GoneIsDark /\ EntryIsQuiet /\ CheckIsTrue /\ RequestIsTrue /\ TextIsHere

-------------------------------------------------------------------------------

\* Nothing is no snapshot of a project.
LEMMA NothingIsNoSnapshot == Nothing \notin Snapshots /\ Nothing.event = FALSE /\ ~Nothing.designated
  BY GoneAssumption DEF Nothing, Snapshots

\* Nothing is on its way.
LEMMA EmptyInbox ==
  ASSUME NEW q, q = <<>>
  PROVE  q \in Seq(Snapshots) /\ Len(q) <= MaxInbox /\ Len(q) = 0
  BY InboxAssumption

\* What the server makes is a snapshot, of the project and in the state it is asked for.
LEMMA SnapshotIs ==
  ASSUME NEW p \in Project, active \in Project, floor \in {"free", "mine", "busy"}
  PROVE  /\ Snapshot(p) \in Snapshots
         /\ Snapshot(p).project = p /\ Snapshot(p).designated = (p = active)
         /\ ~Snapshot(p).event
  BY DEF Snapshot, Snapshots

\* What the page shows, marked as an event of the stream.
LEMMA EventIs ==
  ASSUME NEW s \in Snapshots
  PROVE  LET e == [s EXCEPT !.event = TRUE] IN
           /\ e \in Snapshots /\ e.event
           /\ e.project = s.project /\ e.designated = s.designated
           /\ s.project \in Project
  BY DEF Snapshots

\* What the page shows, if it is at the entry or not.
LEMMA ShownIs ==
  ASSUME NEW s \in Snapshots \cup {Nothing}
  PROVE  s.event \in BOOLEAN /\ (s.designated => s.project \in Project)
<1>1. CASE s = Nothing
  BY <1>1, NothingIsNoSnapshot
<1>2. CASE s \in Snapshots
  BY <1>2 DEF Snapshots
<1>3. QED
  BY <1>1, <1>2

\* A request that is just made.
LEMMA NoRequestIs == NoRequest \in Requests /\ ~NoRequest.snapshot.event
  BY NothingIsNoSnapshot DEF NoRequest, Requests

\* The question of a page that has just been loaded.
LEMMA MeIs ==
  LET r == [NoRequest EXCEPT !.kind = "me", !.at = "sent"] IN
    r \in Requests /\ ~r.snapshot.event /\ r.kind = "me" /\ r.at = "sent"
  BY NothingIsNoSnapshot DEF NoRequest, Requests

LEMMA ViewersIInvInit == ViewersInit => ViewersIInv
<1> SUFFICES ASSUME ViewersInit PROVE ViewersIInv
  OBVIOUS
<1> USE MeIs DEF ViewersInit
<1>1. ViewersTypeOK
  BY EmptyInbox DEF ViewersTypeOK
<1>2. RequestIsTrue
  BY DEF RequestIsTrue
<1>3. ShownIsChosen
  BY DEF ShownIsChosen
<1>4. InboxIsChosen
  BY DEF InboxIsChosen
<1>5. GoneIsDark
  BY DEF GoneIsDark
<1>6. EntryIsQuiet
  BY DEF EntryIsQuiet
<1>7. CheckIsTrue
  BY DEF CheckIsTrue
<1>8. TextIsHere
  BY NothingIsNoSnapshot DEF TextIsHere
<1>9. QED
  BY <1>1, <1>2, <1>3, <1>4, <1>5, <1>6, <1>7, <1>8 DEF ViewersIInv

-------------------------------------------------------------------------------

\* What the actions of the server make of the types.
LEMMA ServerTypes ==
  ASSUME ViewersTypeOK, GoneIsDark,
         FloorMoves \/ Broadcast \/ Arrives \/ Expire \/ \E p \in Project : Designate(p)
  PROVE  ViewersTypeOK'
<1> USE DEF ViewersTypeOK
<1>1. CASE FloorMoves
  BY <1>1 DEF FloorMoves
<1>2. CASE Broadcast
  <2>1. CASE stream = "open"
    <3> DEFINE new == Snapshot(IF view = Own THEN active ELSE view)
    <3>1. new \in Snapshots
      BY <2>1, SnapshotIs DEF GoneIsDark
    <3>2. Append(inbox, new) \in Seq(Snapshots) /\ Len(Append(inbox, new)) = Len(inbox) + 1
      BY <3>1
    <3>3. Len(inbox) \in Nat
      OBVIOUS
    <3>4. inbox' \in Seq(Snapshots) /\ Len(inbox') <= MaxInbox
      BY <1>2, <2>1, <3>2, <3>3, InboxAssumption DEF Broadcast
    <3>5. QED
      BY <1>2, <3>4 DEF Broadcast
  <2>2. CASE stream # "open"
    BY <1>2, <2>2 DEF Broadcast
  <2>3. QED
    BY <2>1, <2>2
<1>3. CASE Arrives
  <2>1. ASSUME request' = [request EXCEPT !.at = "ok",
                  !.snapshot = IF request.kind \in Asking THEN Snapshot(active) ELSE @]
        PROVE  request' \in Requests
    <3>1. Snapshot(active) \in Snapshots
      BY SnapshotIs
    <3>2. QED
      BY <2>1, <3>1 DEF Requests
  <2>2. request' \in Requests
    BY <1>3, <2>1, NoRequestIs DEF Arrives
  <2>3. alive' \in BOOLEAN /\ scheduled' \in BOOLEAN /\ floor' \in {"free", "mine", "busy"}
    BY <1>3 DEF Arrives
  <2>4. QED
    BY <1>3, <2>2, <2>3 DEF Arrives
<1>4. CASE Expire
  <2>1. floor' \in {"free", "mine", "busy"} /\ check' \in {"no", "asked", "missing", "out"}
    BY <1>4 DEF Expire, OnError
  <2>2. inbox' \in Seq(Snapshots) /\ Len(inbox') <= MaxInbox
    <3>1. inbox' = inbox \/ inbox' = <<>>
      BY <1>4 DEF Expire
    <3>2. QED
      BY <3>1, EmptyInbox
  <2>3. QED
    BY <1>4, <2>1, <2>2 DEF Expire, OnError
<1>5. ASSUME NEW p \in Project, Designate(p)
      PROVE  ViewersTypeOK'
  BY <1>5 DEF Designate
<1>6. QED
  BY <1>1, <1>2, <1>3, <1>4, <1>5

\* What the stream and the answer to its question make of the types.
LEMMA StreamTypes ==
  ASSUME ViewersTypeOK,
         Accept \/ Refuse \/ Lose \/ Receive \/ CheckArrives \/ Answered \/ CheckLost \/ LateAnswer
  PROVE  ViewersTypeOK'
<1> USE DEF ViewersTypeOK
<1>1. CASE Accept
  <2>1. inbox' \in Seq(Snapshots) /\ Len(inbox') <= MaxInbox
    BY <1>1, SnapshotIs, InboxAssumption DEF Accept, FirstEvent
  <2>2. QED
    BY <1>1, <2>1 DEF Accept, serverState
<1>2. CASE Refuse
  BY <1>2 DEF Refuse, OnError, serverState
<1>3. CASE Lose
  BY <1>3, EmptyInbox DEF Lose, OnError, serverState
<1>4. CASE Receive
  <2>1. Head(inbox) \in Snapshots /\ inbox' \in Seq(Snapshots) /\ Len(inbox') <= MaxInbox
    BY <1>4, InboxAssumption DEF Receive
  <2>2. shown' \in Snapshots /\ project' \in Project
    BY <1>4, <2>1, EventIs DEF Receive
  <2>3. QED
    BY <1>4, <2>1, <2>2 DEF Receive, serverState
<1>5. CASE CheckArrives \/ CheckLost
  BY <1>5 DEF CheckArrives, CheckLost, serverState
<1>6. CASE Answered
  BY <1>6, EmptyInbox DEF Answered, Reopen, Out, serverState
<1>7. CASE LateAnswer
  BY <1>7 DEF LateAnswer, LateIgnored, serverState
<1>8. QED
  BY <1>1, <1>2, <1>3, <1>4, <1>5, <1>6, <1>7

\* A request is well typed when it is sent.
LEMMA SendTypes ==
  ASSUME ViewersTypeOK,
         NEW kind \in {"join", "login", "raise", "release", "prompt"},
         NEW text \in Project \cup {NoText},
         kind \in Asking \/ shown.designated,
         Send(kind, text)
  PROVE  /\ ViewersTypeOK' /\ ~request'.snapshot.event
         /\ request'.kind = kind /\ request'.at = "sent" /\ request'.text = text
         /\ request'.event = (kind = "prompt" /\ shown.event)
         /\ kind \notin Asking => request'.project = shown.project
<1> DEFINE event == kind = "prompt" /\ shown.event
           meant == IF kind \in Asking THEN Own ELSE shown.project
<1>1. shown.event \in BOOLEAN /\ (shown.designated => shown.project \in Project)
  BY ShownIs DEF ViewersTypeOK
<1>2. event \in BOOLEAN
  BY <1>1
<1>3. meant \in Project \cup {Own}
  BY <1>1
<1>4. request' = [NoRequest EXCEPT !.kind = kind, !.at = "sent", !.text = text,
                    !.event = event, !.project = meant]
  BY DEF Send
<1> HIDE DEF event, meant
<1>5. /\ request' \in Requests /\ ~request'.snapshot.event
      /\ request'.kind = kind /\ request'.at = "sent" /\ request'.text = text
      /\ request'.event = event /\ request'.project = meant
  BY <1>2, <1>3, <1>4, NothingIsNoSnapshot DEF NoRequest, Requests
<1>6. QED
  BY <1>5 DEF Send, ViewersTypeOK, serverState, event, meant

\* What the visitor makes of the types.
LEMMA VisitorTypes ==
  ASSUME ViewersTypeOK, RequestIsTrue,
         \/ Join \/ Login \/ Raise \/ Release \/ SubmitPrompt \/ Write \/ TakeAnswer \/ RequestLost
         \/ ReturnToActive \/ Reload \/ \E p \in Project : SelectProject(p)
  PROVE  ViewersTypeOK'
<1>1. CASE Join \/ Login
  BY <1>1, SendTypes DEF Join, Login, Asking
<1>2. CASE Raise \/ Release
  BY <1>2, SendTypes DEF Raise, Release, CanInteract, IsSpeaker
<1>3. CASE SubmitPrompt
  <2>1. prompt \in Project \cup {NoText}
    BY DEF ViewersTypeOK
  <2>2. QED
    BY <1>3, <2>1, SendTypes DEF SubmitPrompt, IsSpeaker
<1>4. CASE Write
  BY <1>4, ShownIs DEF Write, IsSpeaker, ViewersTypeOK, serverState
<1>5. CASE TakeAnswer
  <2>1. shown' \in Snapshots \cup {Nothing}
    BY <1>5 DEF TakeAnswer, ViewersTypeOK, Requests
  <2>2. /\ inbox' \in Seq(Snapshots) /\ Len(inbox') <= MaxInbox
        /\ stream' \in {"none", "connecting", "open", "closed"}
        /\ check' \in {"no", "asked", "missing", "out"} /\ late' \in BOOLEAN
    BY <1>5, EmptyInbox DEF TakeAnswer, Reopen, ViewersTypeOK
  <2>3. request' \in Requests /\ prompt' \in Project \cup {NoText}
    BY <1>5, NoRequestIs DEF TakeAnswer, ViewersTypeOK
  <2>4. QED
    BY <1>5, <2>1, <2>2, <2>3 DEF TakeAnswer, ViewersTypeOK, serverState
<1>6. CASE RequestLost
  BY <1>6, NoRequestIs DEF RequestLost, ViewersTypeOK, serverState
<1>7. CASE Reload
  BY <1>7, MeIs, EmptyInbox DEF Reload, ViewersTypeOK, serverState
<1>8. ASSUME NEW v \in Project \cup {Own}, Choose(v)
      PROVE  ViewersTypeOK'
  BY <1>8, EmptyInbox DEF Choose, Reopen, ViewersTypeOK, serverState
<1>9. QED
  BY <1>1, <1>2, <1>3, <1>4, <1>5, <1>6, <1>7, <1>8 DEF ReturnToActive, SelectProject

\* The rest of the invariant, part by part, through the actions that touch what it is about.
LEMMA ViewersTypesNext ==
  ASSUME ViewersTypeOK, GoneIsDark, RequestIsTrue, [ViewersNext]_viewerVars
  PROVE  ViewersTypeOK'
<1>1. CASE UNCHANGED viewerVars
  BY <1>1 DEF viewerVars, serverState, ViewersTypeOK
<1>2. CASE ViewersNext
  BY <1>2, ServerTypes, StreamTypes, VisitorTypes DEF ViewersNext, Machinery
<1>3. QED
  BY <1>1, <1>2

-------------------------------------------------------------------------------

\* The steps that neither take an event nor turn to another project.
Onlooking ==
  UNCHANGED <<view, inbox, stream, connected, shown, check, project, prompt>>

\* A stream that is gone, or has yet to be answered, carries nothing.
StreamStarts == stream' # "open" /\ inbox' = <<>>

LEMMA ReopenStarts ==
  ASSUME Reopen
  PROVE  StreamStarts /\ check' = "no"
  BY DEF Reopen, StreamStarts

\* What every step does with the project chosen, the stream, what comes through it, and
\* what is shown.
LEMMA ViewersSteps ==
  ASSUME ViewersIInv, [ViewersNext]_viewerVars
  PROVE  \/ Onlooking
         \/ Broadcast \/ Expire \/ Accept \/ Refuse \/ Lose \/ Receive \/ CheckArrives \/ CheckLost
         \/ Answered \/ Write \/ TakeAnswer \/ Reload
         \/ ReturnToActive \/ \E p \in Project : SelectProject(p)
<1> USE DEF Onlooking
<1>1. CASE FloorMoves \/ Arrives \/ LateAnswer \/ RequestLost \/ UNCHANGED viewerVars
  BY <1>1 DEF FloorMoves, Arrives, LateAnswer, LateIgnored, RequestLost, viewerVars
<1>2. CASE Join \/ Login \/ Raise \/ Release \/ SubmitPrompt
  BY <1>2 DEF Join, Login, Raise, Release, SubmitPrompt, Send
<1>3. ASSUME NEW p \in Project, Designate(p)
      PROVE  Onlooking
  BY <1>3 DEF Designate
<1>4. QED
  BY <1>1, <1>2, <1>3 DEF ViewersNext, Machinery

\* What comes is of the project chosen, nothing comes of one that is gone, and what the
\* page shows while it is connected is the project chosen.
LEMMA ChosenNext ==
  ASSUME ViewersIInv, [ViewersNext]_viewerVars
  PROVE  InboxIsChosen' /\ GoneIsDark' /\ ShownIsChosen'
<1> USE DEF ViewersIInv
<1> DEFINE chosen == InboxIsChosen' /\ GoneIsDark' /\ ShownIsChosen'
<1>1. ASSUME inbox' = <<>>, stream' # "open", ~connected'
      PROVE  chosen
  BY <1>1, EmptyInbox DEF InboxIsChosen, GoneIsDark, ShownIsChosen
<1>2. CASE Onlooking \/ CheckArrives \/ CheckLost \/ Write
  BY <1>2 DEF Onlooking, CheckArrives, CheckLost, Write, InboxIsChosen, GoneIsDark, ShownIsChosen
<1>3. CASE Broadcast
  <2>1. CASE stream # "open"
    BY <1>3, <2>1 DEF Broadcast, InboxIsChosen, GoneIsDark, ShownIsChosen
  <2>2. CASE stream = "open"
    <3> DEFINE at == IF view = Own THEN active ELSE view
    <3>1. at \in Project
      BY <2>2 DEF GoneIsDark, ViewersTypeOK
    <3>2. /\ Snapshot(at) \in Snapshots /\ Snapshot(at).project = at
          /\ Snapshot(at).designated = (at = active)
      BY <3>1, SnapshotIs DEF ViewersTypeOK
    <3>3. IF view = Own THEN Snapshot(at).designated ELSE Snapshot(at).project = view
      BY <3>2
    <3>4. inbox' = Append(inbox, Snapshot(at)) /\ view' = view
      BY <1>3, <2>2 DEF Broadcast
    <3>5. inbox \in Seq(Snapshots)
      BY DEF ViewersTypeOK
    <3> HIDE DEF at
    <3>6. InboxIsChosen'
      BY <3>2, <3>3, <3>4, <3>5 DEF InboxIsChosen
    <3>7. QED
      BY <1>3, <2>2, <3>6 DEF Broadcast, GoneIsDark, ShownIsChosen
  <2>3. QED
    BY <2>1, <2>2
<1>4. CASE Accept
  <2> DEFINE at == IF view = Own THEN active ELSE view
  <2>1. at \in Project
    BY <1>4 DEF Accept, ViewersTypeOK
  <2>2. /\ Snapshot(at) \in Snapshots /\ Snapshot(at).project = at
        /\ Snapshot(at).designated = (at = active)
    BY <2>1, SnapshotIs DEF ViewersTypeOK
  <2>3. IF view = Own THEN Snapshot(at).designated ELSE Snapshot(at).project = view
    BY <2>2
  <2>4. inbox' = <<Snapshot(at)>> /\ view' = view
    BY <1>4 DEF Accept, FirstEvent
  <2> HIDE DEF at
  <2>5. InboxIsChosen'
    BY <2>3, <2>4 DEF InboxIsChosen
  <2>6. QED
    BY <1>4, <2>5 DEF Accept, GoneIsDark, ShownIsChosen
<1>5. CASE Expire
  BY <1>5, EmptyInbox DEF Expire, OnError, InboxIsChosen, GoneIsDark, ShownIsChosen
<1>6. CASE Refuse \/ Lose
  BY <1>6, EmptyInbox DEF Refuse, Lose, OnError, InboxIsChosen, GoneIsDark, ShownIsChosen
<1>7. CASE Receive
  <2>1. inbox \in Seq(Snapshots) /\ inbox # <<>> /\ Head(inbox) \in Snapshots
    BY <1>7 DEF Receive, ViewersTypeOK
  <2>2. view' = view /\ inbox' = Tail(inbox) /\ shown' = [Head(inbox) EXCEPT !.event = TRUE]
    BY <1>7 DEF Receive
  <2>3. InboxIsChosen'
    BY <2>1, <2>2 DEF InboxIsChosen
  <2>4. IF view = Own THEN Head(inbox).designated ELSE Head(inbox).project = view
    BY <2>1 DEF InboxIsChosen
  <2>5. ShownIsChosen'
    BY <2>1, <2>2, <2>4, EventIs DEF ShownIsChosen
  <2>6. GoneIsDark'
    BY <2>1, <2>2 DEF GoneIsDark
  <2>7. QED
    BY <2>3, <2>5, <2>6
<1>8. CASE Answered
  <2>1. CASE check = "missing"
    BY <1>1, <1>8, <2>1, ReopenStarts DEF Answered, CheckIsTrue, GoneIsDark, StreamStarts
  <2>2. CASE check # "missing"
    <3>1. inbox' = <<>> /\ stream' = "none" /\ shown' = Nothing /\ view' = view /\ connected' = connected
      BY <1>8, <2>2 DEF Answered, Out
    <3>2. QED
      BY <3>1, EmptyInbox DEF InboxIsChosen, GoneIsDark, ShownIsChosen
  <2>3. QED
    BY <2>1, <2>2
<1>9. CASE TakeAnswer
  <2>1. UNCHANGED <<view, connected>>
    BY <1>9 DEF TakeAnswer
  <2>2. UNCHANGED <<stream, inbox>> \/ StreamStarts
    BY <1>9, ReopenStarts DEF TakeAnswer
  <2>3. shown' = shown \/ ~shown'.event
    BY <1>9 DEF TakeAnswer, RequestIsTrue
  <2>4. QED
    BY <2>1, <2>2, <2>3, EmptyInbox DEF StreamStarts, InboxIsChosen, GoneIsDark, ShownIsChosen
<1>10. CASE Reload
  BY <1>1, <1>10 DEF Reload
<1>11. ASSUME NEW v \in Project \cup {Own}, Choose(v)
       PROVE  chosen
  <2>1. ~connected' /\ view' # Gone
    BY <1>11, GoneAssumption DEF Choose
  <2>2. CASE v = view
    BY <1>11, <2>1, <2>2 DEF Choose, InboxIsChosen, GoneIsDark, ShownIsChosen
  <2>3. CASE v # view
    BY <1>1, <1>11, <2>1, <2>3, ReopenStarts DEF Choose, StreamStarts
  <2>4. QED
    BY <2>2, <2>3
<1>12. QED
  BY <1>2, <1>3, <1>4, <1>5, <1>6, <1>7, <1>8, <1>9, <1>10, <1>11, ViewersSteps
     DEF ReturnToActive, SelectProject

\* At the entry there is no stream, and what a check found still holds.
LEMMA ChecksNext ==
  ASSUME ViewersIInv, [ViewersNext]_viewerVars
  PROVE  EntryIsQuiet' /\ (check' = "missing" => view' = Gone)
<1> USE DEF ViewersIInv, EntryIsQuiet, CheckIsTrue
<1>1. CASE Onlooking
  BY <1>1 DEF Onlooking
<1>2. CASE Broadcast \/ Accept \/ Write
  BY <1>2 DEF Broadcast, Accept, Write
<1>3. CASE Expire \/ Refuse \/ Lose
  BY <1>3 DEF Expire, Refuse, Lose, OnError
<1>4. CASE Receive
  <2>1. Head(inbox) \in Snapshots
    BY <1>4 DEF Receive, ViewersTypeOK
  <2>2. shown' # Nothing
    BY <1>4, <2>1, EventIs, NothingIsNoSnapshot DEF Receive
  <2>3. QED
    BY <1>4, <2>2 DEF Receive
<1>5. CASE CheckArrives \/ CheckLost
  BY <1>5 DEF CheckArrives, CheckLost
<1>6. CASE Answered
  BY <1>6, ReopenStarts DEF Answered, Out
<1>7. CASE TakeAnswer
  <2>1. CASE request.kind \in Asking
    <3>1. shown' # Nothing
      BY <1>7, <2>1, NothingIsNoSnapshot DEF TakeAnswer, RequestIsTrue
    <3>2. QED
      BY <1>7, <3>1, ReopenStarts DEF TakeAnswer
  <2>2. CASE request.kind \notin Asking
    BY <1>7, <2>2 DEF TakeAnswer
  <2>3. QED
    BY <2>1, <2>2
<1>8. CASE Reload
  BY <1>8 DEF Reload
<1>9. CASE ReturnToActive
  BY <1>9, ReopenStarts, NothingIsNoSnapshot DEF ReturnToActive, Choose
<1>10. ASSUME NEW p \in Project, SelectProject(p)
       PROVE  EntryIsQuiet' /\ (check' = "missing" => view' = Gone)
  BY <1>10, ReopenStarts DEF SelectProject, Choose
<1>11. QED
  BY <1>1, <1>2, <1>3, <1>4, <1>5, <1>6, <1>7, <1>8, <1>9, <1>10, ViewersSteps

\* Only a visitor at the entry is given a session he did not have.
LEMMA SessionNext ==
  ASSUME ViewersIInv, [ViewersNext]_viewerVars
  PROVE  check' = "out" => ~alive'
<1> USE DEF ViewersIInv, CheckIsTrue
<1>1. CASE UNCHANGED <<check, alive>>
  BY <1>1
<1>2. CASE FloorMoves \/ Broadcast \/ Accept \/ Receive \/ Write \/ LateAnswer \/ RequestLost
  BY <1>2 DEF FloorMoves, Broadcast, Accept, Receive, Write, LateAnswer, RequestLost, serverState
<1>3. CASE Join \/ Login \/ Raise \/ Release \/ SubmitPrompt
  BY <1>3 DEF Join, Login, Raise, Release, SubmitPrompt, Send, serverState
<1>4. CASE Arrives
  BY <1>4 DEF Arrives, Granted, RequestIsTrue, EntryIsQuiet, Requests, ViewersTypeOK
<1>5. CASE Expire \/ Refuse \/ Lose
  BY <1>5 DEF Expire, Refuse, Lose, OnError, serverState
<1>6. CASE CheckArrives \/ CheckLost \/ Answered \/ Reload
  BY <1>6, ReopenStarts DEF CheckArrives, CheckLost, Answered, Reload, serverState
<1>7. CASE TakeAnswer
  BY <1>7, ReopenStarts DEF TakeAnswer, serverState
<1>8. ASSUME NEW v \in Project \cup {Own}, Choose(v)
      PROVE  check' = "out" => ~alive'
  BY <1>8, ReopenStarts DEF Choose, serverState
<1>9. ASSUME NEW p \in Project, Designate(p)
      PROVE  UNCHANGED <<check, alive>>
  BY <1>9 DEF Designate
<1>10. CASE UNCHANGED viewerVars
  BY <1>1, <1>10 DEF viewerVars, serverState
<1>11. QED
  BY <1>1, <1>2, <1>3, <1>4, <1>5, <1>6, <1>7, <1>8, <1>9, <1>10
     DEF ViewersNext, Machinery, ReturnToActive, SelectProject

\* The composer's text is of the project the stream showed last.
LEMMA TextNext ==
  ASSUME ViewersIInv, [ViewersNext]_viewerVars
  PROVE  TextIsHere'
<1> USE DEF ViewersIInv, TextIsHere
<1>1. CASE Onlooking
  BY <1>1 DEF Onlooking
<1>2. CASE Broadcast \/ Expire \/ Accept \/ Refuse \/ Lose \/ CheckArrives \/ CheckLost
  BY <1>2 DEF Broadcast, Expire, Accept, Refuse, Lose, CheckArrives, CheckLost
<1>3. CASE Receive
  <2>1. Head(inbox) \in Snapshots
    BY <1>3 DEF Receive, ViewersTypeOK
  <2>2. shown'.project = Head(inbox).project
    BY <1>3, <2>1, EventIs DEF Receive
  <2>3. QED
    BY <1>3, <2>2 DEF Receive
<1>4. CASE Answered
  BY <1>4, NothingIsNoSnapshot DEF Answered, Out
<1>5. CASE Write
  BY <1>5 DEF Write
<1>6. CASE TakeAnswer
  BY <1>6 DEF TakeAnswer, RequestIsTrue
<1>7. CASE Reload
  BY <1>7, NothingIsNoSnapshot DEF Reload
<1>8. ASSUME NEW v \in Project \cup {Own}, Choose(v)
      PROVE  TextIsHere'
  BY <1>8 DEF Choose
<1>9. QED
  BY <1>1, <1>2, <1>3, <1>4, <1>5, <1>6, <1>7, <1>8, ViewersSteps
     DEF ReturnToActive, SelectProject

\* What a request knows of its page stays true until it is answered.
LEMMA RequestNext ==
  ASSUME ViewersIInv, [ViewersNext]_viewerVars
  PROVE  RequestIsTrue'
<1> USE DEF ViewersIInv, RequestIsTrue
<1>1. ASSUME request' = NoRequest
      PROVE  RequestIsTrue'
  BY <1>1, NoRequestIs DEF NoRequest
<1>2. CASE TakeAnswer \/ RequestLost
  BY <1>1, <1>2 DEF TakeAnswer, RequestLost
<1>3. CASE Arrives
  <2>1. CASE request' = NoRequest
    BY <1>1, <2>1
  <2>2. CASE request' # NoRequest
    <3>1. /\ request' = [request EXCEPT !.at = "ok",
                           !.snapshot = IF request.kind \in Asking THEN Snapshot(active) ELSE @]
          /\ shown' = shown
      BY <1>3, <2>2 DEF Arrives
    <3>2. Snapshot(active) \in Snapshots /\ ~Snapshot(active).event
      BY SnapshotIs DEF ViewersTypeOK
    <3>3. request \in Requests
      BY DEF ViewersTypeOK
    <3>4. QED
      BY <3>1, <3>2, <3>3 DEF Requests
  <2>3. QED
    BY <2>1, <2>2
<1>4. CASE Join \/ Login \/ Raise \/ Release
  <2>1. request'.kind \in {"join", "login", "raise", "release"} /\ request'.at = "sent"
    BY <1>4, SendTypes DEF Join, Login, Raise, Release, CanInteract, IsSpeaker, Asking
  <2>2. ~request'.snapshot.event
    BY <1>4, SendTypes DEF Join, Login, Raise, Release, CanInteract, IsSpeaker, Asking
  <2>3. request'.kind = "join" => shown' = Nothing
    BY <1>4, SendTypes DEF Join, Login, Raise, Release, Send, CanInteract, IsSpeaker, Asking
  <2>4. QED
    BY <2>1, <2>2, <2>3
<1>5. CASE SubmitPrompt
  <2>1. prompt \in Project \cup {NoText}
    BY DEF ViewersTypeOK
  <2>2. /\ request'.kind = "prompt" /\ request'.at = "sent" /\ request'.text = prompt
        /\ (request'.event => shown.event) /\ request'.project = shown.project
        /\ ~request'.snapshot.event
    BY <1>5, <2>1, SendTypes DEF SubmitPrompt, IsSpeaker, Asking
  <2>3. shown.event => prompt = shown.project
    BY <1>5 DEF SubmitPrompt, TextIsHere
  <2>4. QED
    BY <2>2, <2>3
<1>6. CASE Reload
  BY <1>6, MeIs DEF Reload
<1>7. ASSUME UNCHANGED request, shown = Nothing => shown' = Nothing
      PROVE  RequestIsTrue'
  BY <1>7
<1>8. CASE Receive
  BY <1>7, <1>8 DEF Receive, EntryIsQuiet
<1>9. CASE FloorMoves \/ Broadcast \/ Expire \/ Accept \/ Refuse \/ Lose \/ CheckArrives \/ CheckLost
  BY <1>7, <1>9 DEF FloorMoves, Broadcast, Expire, Accept, Refuse, Lose, CheckArrives, CheckLost
<1>10. CASE Answered \/ LateAnswer \/ Write \/ UNCHANGED viewerVars
  BY <1>7, <1>10 DEF Answered, Out, LateAnswer, LateIgnored, Write, viewerVars
<1>11. ASSUME NEW p \in Project, Designate(p)
       PROVE  RequestIsTrue'
  BY <1>7, <1>11 DEF Designate
<1>12. ASSUME NEW v \in Project \cup {Own}, Choose(v)
       PROVE  RequestIsTrue'
  BY <1>7, <1>12 DEF Choose
<1>13. QED
  BY <1>2, <1>3, <1>4, <1>5, <1>6, <1>8, <1>9, <1>10, <1>11, <1>12
     DEF ViewersNext, Machinery, ReturnToActive, SelectProject

LEMMA ViewersIInvNext == ViewersIInv /\ [ViewersNext]_viewerVars => ViewersIInv'
<1> SUFFICES ASSUME ViewersIInv, [ViewersNext]_viewerVars
             PROVE  ViewersIInv'
  OBVIOUS
<1>1. ViewersTypeOK'
  BY ViewersTypesNext DEF ViewersIInv
<1>2. QED
  BY <1>1, ChosenNext, ChecksNext, SessionNext, TextNext, RequestNext DEF ViewersIInv, CheckIsTrue

LEMMA ViewersIInvHolds == ViewersSpec => []ViewersIInv
  BY ViewersIInvInit, ViewersIInvNext, PTL DEF ViewersSpec

-------------------------------------------------------------------------------

\* Whatever is delayed, lost or asked for again, the page that says it is connected shows
\* the project its visitor chose (App.tsx: the stream's effect and its state event).
THEOREM ViewersInvHolds == ViewersSpec => []ViewersInv
<1>1. ViewersIInv => ViewersInv
  BY DEF ViewersIInv, ViewersInv
<1>2. QED
  BY <1>1, ViewersIInvHolds, PTL

\* A hand is raised, the floor given back and a prompt submitted on the project its visitor
\* saw, and text on the project it was written at (projectRef and the bound requests).
THEOREM ActsWhereShownHolds == ViewersSpec => ActsWhereShown
<1>1. ASSUME ViewersIInv, Arrives, request'.at = "ok", request.kind \in {"raise", "release", "prompt"}
      PROVE  /\ request.project = active
             /\ request.kind = "prompt" /\ request.event => request.text = active
  <2>1. Granted(request)
    BY <1>1 DEF Arrives, NoRequest
  <2>2. MeansActive(request)
    BY <1>1, <2>1 DEF Granted
  <2>3. QED
    BY <1>1, <2>2 DEF MeansActive, ViewersIInv, RequestIsTrue
<1>2. QED
  BY <1>1, ViewersIInvHolds, PTL DEF ViewersSpec, ActsWhereShown

\* Only the end of his session sends a visitor back to the entry (the checks of onerror and
\* their disposed guard).
THEOREM SessionKeptHolds == ViewersSpec => SessionKept
<1>1. ASSUME ViewersIInv, Answered \/ LateAnswer, shown' = Nothing, shown # Nothing
      PROVE  ~alive
  BY <1>1 DEF Answered, LateAnswer, LateIgnored, ViewersIInv, CheckIsTrue
<1>2. QED
  BY <1>1, ViewersIInvHolds, PTL DEF ViewersSpec, SessionKept

===============================================================================
