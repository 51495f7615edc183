--------------------------- MODULE TuiSessionProofs ---------------------------
(***************************************************************************)
(* Theorems about the floor and about the session that runs on it, for     *)
(* any number of sessions, tokens and inputs in flight, every lease, every *)
(* fault and both modes.  The floor: speaker and job exclude each other,   *)
(* nobody takes a live lease, and it implements FloorControl.  The         *)
(* session: no container is forgotten and no two of them ever share a      *)
(* workspace; its job stays fenced by the token it was begun under; only   *)
(* who drives types, and on a line without an old draft; and its steps on  *)
(* the floor are steps of the floor.                                       *)
(***************************************************************************)
EXTENDS TuiSession, TLAPS

(* The floor alone, under FloorSpec.                                       *)
\* The constructor of the stage establishes the types and the exclusion of
\* speaker and job, which are inductive together.
LEMMA FloorInvInit == FloorInit => FloorInv
  BY TimeAssumption DEF FloorInit, FloorInv, FloorTypeOK, FloorExclusive

\* Every request, completion and tick of the timer keeps both.
LEMMA FloorInvNext == FloorInv /\ [FloorNext]_floorVars => FloorInv'
<1> SUFFICES ASSUME FloorInv, [FloorNext]_floorVars
             PROVE  FloorInv'
  OBVIOUS
<1> USE SessionAssumption, TurnAssumption, TimeAssumption
        DEF FloorInv, FloorTypeOK, FloorExclusive
<1>1. ASSUME NEW s \in Session, Join(s) PROVE FloorInv'
  BY <1>1 DEF Join
<1>2. ASSUME NEW s \in Session, Leave(s) PROVE FloorInv'
  BY <1>2 DEF Leave
<1>3. ASSUME NEW s \in Session, AdminLogin(s) PROVE FloorInv'
  BY <1>3 DEF AdminLogin
<1>4. ASSUME NEW s \in Session, AdminLogout(s) PROVE FloorInv'
  BY <1>4 DEF AdminLogout
<1>5. ASSUME NEW s \in Session, Raise(s) PROVE FloorInv'
  BY <1>5 DEF Raise
<1>6. ASSUME NEW s \in Session, Release(s) PROVE FloorInv'
  BY <1>6 DEF Release
<1>7. ASSUME NEW s \in Session, HoldTuiSubmission(s) PROVE FloorInv'
  BY <1>7 DEF HoldTuiSubmission, SpeakerNow, Lapsed
<1>8. ASSUME NEW s \in Session, NEW id \in TurnId, Begin(s, id) PROVE FloorInv'
  BY <1>8 DEF Begin, StartTurn
<1>9. ASSUME NEW s \in Session, NEW id \in TurnId, BeginTui(s, id) PROVE FloorInv'
  BY <1>9 DEF BeginTui, StartTurn
<1>10. ASSUME NEW id \in TurnId, Finish(id) PROVE FloorInv'
  BY <1>10 DEF Finish
<1>11. CASE Reset
  BY <1>11 DEF Reset
<1>12. CASE Elapse
  BY <1>12 DEF Elapse
<1>13. CASE Tick
  BY <1>13 DEF Tick, Lapsed
<1>14. CASE UNCHANGED floorVars
  BY <1>14 DEF floorVars
<1>15. QED
  BY <1>1, <1>2, <1>3, <1>4, <1>5, <1>6, <1>7, <1>8, <1>9, <1>10, <1>11,
     <1>12, <1>13, <1>14 DEF FloorNext

\* The types of the floor hold in every reachable state.
THEOREM FloorTypesHold == FloorSpec => []FloorTypeOK
<1>1. FloorInv => FloorTypeOK
  BY DEF FloorInv
<1>2. QED
  BY <1>1, FloorInvInit, FloorInvNext, PTL DEF FloorSpec

\* Both together, which the operations of the stage keep only together: a job that ends leaves
\* no lease because it had none.
THEOREM FloorInvHolds == FloorSpec => []FloorInv
  BY FloorInvInit, FloorInvNext, PTL DEF FloorSpec

\* No reachable state has both a speaker and a job, a job without an owner, or
\* a lease that outlives its speaker.
THEOREM FloorExclusiveHolds == FloorSpec => []FloorExclusive
<1>1. FloorInv => FloorExclusive
  BY DEF FloorInv
<1>2. QED
  BY <1>1, FloorInvInit, FloorInvNext, PTL DEF FloorSpec

-------------------------------------------------------------------------------

\* Every step of the floor is a step of FloorControl, or none: the lapse of a
\* lease is the abstract Yield, and the timer's later clean-up is invisible.
LEMMA FloorStepRefines ==
  FloorInv /\ [FloorNext]_floorVars => [Control!Next]_(Control!vars)
<1> SUFFICES ASSUME FloorInv, [FloorNext]_floorVars
             PROVE  [Control!Next]_(Control!vars)
  OBVIOUS
<1> USE SessionAssumption, TurnAssumption, TimeAssumption
        DEF FloorInv, FloorTypeOK, FloorExclusive, Driver, SpeakerNow, Lapsed
<1> USE DEF Control!Next, Control!vars
<1>1. ASSUME NEW s \in Session, Join(s) PROVE UNCHANGED (Control!vars)
  BY <1>1 DEF Join
<1>2. ASSUME NEW s \in Session, Leave(s) PROVE Control!ChangePrivilege
  BY <1>2 DEF Leave, Control!ChangePrivilege
<1>3. ASSUME NEW s \in Session, AdminLogin(s) PROVE Control!ChangePrivilege
  BY <1>3 DEF AdminLogin, Control!ChangePrivilege
<1>4. ASSUME NEW s \in Session, AdminLogout(s) PROVE Control!ChangePrivilege
  BY <1>4 DEF AdminLogout, Control!ChangePrivilege
<1>5. ASSUME NEW s \in Session, Raise(s) PROVE Control!Grant(s)
  BY <1>5 DEF Raise, Control!Grant
<1>6. ASSUME NEW s \in Session, Release(s)
      PROVE  Control!Yield \/ UNCHANGED (Control!vars)
  BY <1>6 DEF Release, Control!Yield
<1>7. ASSUME NEW s \in Session, HoldTuiSubmission(s) PROVE UNCHANGED (Control!vars)
  BY <1>7 DEF HoldTuiSubmission
<1>8. ASSUME NEW s \in Session, NEW id \in TurnId, Begin(s, id)
      PROVE  Control!StartWork(s)
  BY <1>8 DEF Begin, StartTurn, Control!StartWork
<1>9. ASSUME NEW s \in Session, NEW id \in TurnId, BeginTui(s, id)
      PROVE  Control!StartWork(s)
  BY <1>9 DEF BeginTui, StartTurn, Controls, Control!StartWork
<1>10. ASSUME NEW id \in TurnId, Finish(id) PROVE Control!EndWork
  BY <1>10 DEF Finish, Control!EndWork
<1>11. ASSUME Reset PROVE Control!EndWork \/ Control!Yield
  BY <1>11 DEF Reset, Control!EndWork, Control!Yield
<1>12. ASSUME Elapse PROVE Control!Yield \/ UNCHANGED (Control!vars)
  BY <1>12 DEF Elapse, Control!Yield
<1>13. ASSUME Tick PROVE UNCHANGED (Control!vars)
  BY <1>13 DEF Tick
<1>14. ASSUME UNCHANGED floorVars PROVE UNCHANGED (Control!vars)
  BY <1>14 DEF floorVars
<1>15. QED
  BY <1>1, <1>2, <1>3, <1>4, <1>5, <1>6, <1>7, <1>8, <1>9, <1>10, <1>11,
     <1>12, <1>13, <1>14 DEF FloorNext

\* The floor implements FloorControl for every lease and every hold: control
\* goes from one session to another only through a free floor or by right of
\* an administrator.
THEOREM FloorImplementsControl == FloorSpec => ImplementsFloorControl
<1>1. FloorInit => Control!Init
  BY SessionAssumption, TurnAssumption
     DEF FloorInit, Control!Init, Driver, SpeakerNow, Lapsed
<1>2. QED
  BY <1>1, FloorInvInit, FloorInvNext, FloorStepRefines, PTL
     DEF FloorSpec, ImplementsFloorControl, Control!Spec
-------------------------------------------------------------------------------

\* A live lease is never taken by somebody without the right to take it.
LEMMA LeaseKeptNext ==
  ASSUME FloorInv, [FloorNext]_floorVars,
         NEW s \in Session, speaker = s, ~Lapsed, speaker' # s
  PROVE  \/ speaker' = NoOne /\ turn' # NoTurn /\ owner' \in admins \cup {s}
         \/ s \notin participants'
         \/ \E a \in (admins \cup {s}) \cap participants : Release(a)
         \/ Reset
<1> USE SessionAssumption, TurnAssumption DEF FloorInv, FloorTypeOK, FloorExclusive
<1>1. /\ ~\E r \in Session : \/ Join(r) \/ AdminLogin(r) \/ AdminLogout(r)
                              \/ Raise(r) \/ HoldTuiSubmission(r)
      /\ ~Elapse /\ ~Tick /\ ~UNCHANGED floorVars
      /\ ~\E id \in TurnId : Finish(id)
  BY DEF Join, AdminLogin, AdminLogout, Raise, HoldTuiSubmission, SpeakerNow,
         Elapse, Tick, floorVars, Finish
<1>2. ASSUME NEW r \in Session, Leave(r) PROVE s \notin participants'
  BY <1>2 DEF Leave
<1>3. ASSUME NEW r \in Session, Release(r)
      PROVE  \E a \in (admins \cup {s}) \cap participants : Release(a)
  BY <1>3 DEF Release
<1>4. ASSUME NEW r \in Session, NEW id \in TurnId, Begin(r, id) \/ BeginTui(r, id)
      PROVE  speaker' = NoOne /\ turn' # NoTurn /\ owner' \in admins \cup {s}
  BY <1>4 DEF Begin, BeginTui, StartTurn, Controls, Driver, SpeakerNow
<1>5. QED
  BY <1>1, <1>2, <1>3, <1>4 DEF FloorNext

\* LeaseKept for every run of the floor: raise, beginTui, finish and the timer
\* never take a live lease from its speaker.
THEOREM LeaseKeptHolds == FloorSpec => LeaseKept
<1>1. FloorInv /\ [FloorNext]_floorVars =>
        [\A s \in Session :
           speaker = s /\ ~Lapsed /\ speaker' # s =>
             \/ speaker' = NoOne /\ turn' # NoTurn /\ owner' \in admins \cup {s}
             \/ s \notin participants'
             \/ \E a \in (admins \cup {s}) \cap participants : Release(a)
             \/ Reset]_floorVars
  BY LeaseKeptNext
<1>2. QED
  BY <1>1, FloorInvInit, FloorInvNext, PTL DEF FloorSpec, LeaseKept

-------------------------------------------------------------------------------
(* The session.                                                            *)

\* A server that starts has no container.
LEMMA ContainersInit == TuiInit => ContainerAccounted
  BY DEF TuiInit, ContainerAccounted

\* Only a launch boots a container, and ensure() lets one begin only while the
\* server knows of no other.
LEMMA LaunchAlone ==
  ASSUME ContainerAccounted, CanEnsure, ~process, launching = "no"
  PROVE  container = "none"
  BY DEF ContainerAccounted, CanEnsure

\* The steps that leave the container and the server's hold on it alone.
Elsewhere == UNCHANGED <<container, serverVars>>

\* Requests that only touch the floor, hooks, and the parts of an input after its
\* launch neither take nor lose a container.
LEMMA ElsewhereSteps ==
  ASSUME \/ ResetStage \/ Timer \/ SessionChanges \/ ClearDraft \/ PollReads
         \/ PollRuns \/ PollResumes \/ HookBeginsTurn \/ HookRead \/ PollEnds
         \/ AgentNext \/ TimePasses \/ UNCHANGED vars
         \/ \E s \in Session : \/ RaiseHand(s) \/ GiveBack(s) \/ RenameStageFile(s)
                               \/ SendEnter(s) \/ CommitWrite(s)
  PROVE  Elsewhere
<1> USE DEF Elsewhere
<1>1. CASE ResetStage \/ Timer \/ SessionChanges \/ ClearDraft
  BY <1>1 DEF ResetStage, Timer, SessionChanges, ClearDraft
<1>2. CASE PollReads \/ PollRuns \/ PollResumes
  BY <1>2 DEF PollReads, PollRuns, PollResumes
<1>3. CASE HookBeginsTurn \/ HookRead \/ PollEnds
  BY <1>3 DEF HookBeginsTurn, HookRead, PollEnds
<1>4. CASE AgentNext
  BY <1>4 DEF AgentNext, StartHook, StopHook, EnterIgnored
<1>5. CASE TimePasses \/ UNCHANGED vars
  BY <1>5 DEF TimePasses, vars, tuiVars
<1>6. ASSUME NEW s \in Session,
             RaiseHand(s) \/ GiveBack(s) \/ RenameStageFile(s) \/ SendEnter(s) \/ CommitWrite(s)
      PROVE  Elsewhere
  BY <1>6 DEF RaiseHand, GiveBack, RenameStageFile, SendEnter, CommitWrite
<1>7. QED
  BY <1>1, <1>2, <1>3, <1>4, <1>5, <1>6

\* The actions that launch, stop or lose a container, and the rest.
LEMMA NextCases ==
  ASSUME [Next]_vars
  PROVE  \/ Launch \/ LaunchSucceeds \/ LaunchCanceled \/ LaunchFails
         \/ AdminStops \/ StopAfterLaunch \/ StopEnds \/ ProcessExits \/ PollFails
         \/ \E s \in Session, enter, public \in BOOLEAN : StartWrite(s, enter, public)
         \/ Elsewhere
<1>1. CASE UNCHANGED vars
  BY <1>1, ElsewhereSteps
<1>2. CASE Continuation
  BY <1>2, ElsewhereSteps DEF Continuation
<1>3. CASE ServerNext
  BY <1>3, ElsewhereSteps DEF ServerNext
<1>4. CASE PollFails \/ AgentNext \/ TimePasses
  BY <1>4, ElsewhereSteps
<1>5. QED
  BY <1>1, <1>2, <1>3, <1>4 DEF Next

-------------------------------------------------------------------------------

\* Whatever is launched, stopped, lost or refused, a container stays accounted
\* for: it has a handle, a launch or a stop under way, or the session is locked.
LEMMA ContainersNext == ContainerAccounted /\ [Next]_vars => ContainerAccounted'
<1> SUFFICES ASSUME ContainerAccounted, [Next]_vars
             PROVE  ContainerAccounted'
  OBVIOUS
<1> USE DEF ContainerAccounted, serverVars
<1>1. CASE Launch
  BY <1>1 DEF Launch, BeginLaunch
<1>2. CASE LaunchSucceeds
  BY <1>2 DEF LaunchSucceeds
<1>3. CASE LaunchCanceled
  BY <1>3 DEF LaunchCanceled
<1>4. CASE LaunchFails
  BY <1>4 DEF LaunchFails
<1>5. CASE AdminStops
  BY <1>5 DEF AdminStops, BeginStop, CutOff
<1>6. CASE StopAfterLaunch
  BY <1>6 DEF StopAfterLaunch, CutOff
<1>7. CASE StopEnds
  BY <1>7 DEF StopEnds, ContainerStops
<1>8. CASE ProcessExits
  BY <1>8 DEF ProcessExits
<1>9. CASE PollFails
  BY <1>9 DEF PollFails, CutOff
<1>10. ASSUME NEW s \in Session, NEW enter \in BOOLEAN, NEW public \in BOOLEAN,
              StartWrite(s, enter, public)
       PROVE  ContainerAccounted'
  BY <1>10 DEF StartWrite, BeginLaunch
<1>11. CASE Elsewhere
  BY <1>11 DEF Elsewhere
<1>12. QED
  BY <1>1, <1>2, <1>3, <1>4, <1>5, <1>6, <1>7, <1>8, <1>9, <1>10, <1>11, NextCases

\* No container of the session is ever forgotten (launch, stop, fail, onExit).
THEOREM ContainersAccountedFor == Spec => []ContainerAccounted
  BY ContainersInit, ContainersNext, PTL DEF Spec

\* A container boots only where none was.
LEMMA BootsAlone ==
  ASSUME ContainerAccounted, [Next]_vars, container' = "booting"
  PROVE  container \in {"none", "booting"}
<1>1. CASE Launch
  BY <1>1, LaunchAlone DEF Launch
<1>2. CASE LaunchSucceeds \/ LaunchCanceled \/ LaunchFails
  BY <1>2 DEF LaunchSucceeds, LaunchCanceled, LaunchFails
<1>3. CASE AdminStops \/ StopAfterLaunch \/ ProcessExits \/ PollFails
  BY <1>3 DEF AdminStops, StopAfterLaunch, ProcessExits, PollFails
<1>4. CASE StopEnds
  BY <1>4 DEF StopEnds, ContainerStops
<1>5. ASSUME NEW s \in Session, NEW enter \in BOOLEAN, NEW public \in BOOLEAN,
             StartWrite(s, enter, public)
      PROVE  container \in {"none", "booting"}
  BY <1>5, LaunchAlone DEF StartWrite
<1>6. CASE Elsewhere
  BY <1>6 DEF Elsewhere
<1>7. QED
  BY <1>1, <1>2, <1>3, <1>4, <1>5, <1>6, NextCases

\* Two containers of the session never share the project's workspace.
THEOREM OneContainerHolds == Spec => OneContainer
<1>1. ContainerAccounted /\ [Next]_vars =>
        [container' = "booting" => container \in {"none", "booting"}]_vars
  BY BootsAlone
<1>2. QED
  BY <1>1, ContainersInit, ContainersNext, PTL DEF Spec, OneContainer


-------------------------------------------------------------------------------
(* The inductive invariant of the session.                                  *)

\* A token that is no longer one nobody has drawn.
Drawn(t) == t = NoToken \/ submitter[t] # NoOne

\* Every token the server, the container or a hook still holds was drawn by an
\* Enter, so that a newly drawn one meets no copy of itself.
DrawnTokens ==
  /\ Drawn(token) /\ Drawn(stageFile) /\ Drawn(context)
  /\ \A s \in Session : Drawn(writes[s].tok)
  /\ \A i \in DOMAIN journal : Drawn(journal[i].tok)
  /\ \A i \in DOMAIN poll.batch : Drawn(poll.batch[i].tok)

\* A session that runs is neither being launched nor stopped, a launch nobody
\* overtook meets no stop, and only a running session's poll is current.
LaunchesAlone ==
  /\ process => launching = "no" /\ stopping = "no"
  /\ launching = "current" => stopping = "no"
  /\ poll.current => process

\* What a poll still holds of a session that is over is under no token of now.
OrphansMatchNothing ==
  ~process => \A i \in DOMAIN poll.batch : poll.batch[i].tok # token

TuiIInv ==
  FloorInv /\ TypeOK /\ JobFenced /\ DrawnTokens /\ LaunchesAlone /\ OrphansMatchNothing

\* The steps of Next, flat.
LEMMA TuiCases ==
  ASSUME [Next]_vars
  PROVE  \/ Launch \/ LaunchSucceeds \/ LaunchCanceled \/ LaunchFails
         \/ AdminStops \/ StopAfterLaunch \/ StopEnds \/ ProcessExits \/ ResetStage
         \/ Timer \/ SessionChanges \/ ClearDraft \/ PollReads \/ PollRuns \/ PollResumes
         \/ HookBeginsTurn \/ HookRead \/ PollEnds \/ PollFails
         \/ StartHook \/ StopHook \/ EnterIgnored \/ TimePasses \/ UNCHANGED vars
         \/ \E s \in Session, enter, public \in BOOLEAN : StartWrite(s, enter, public)
         \/ \E s \in Session : \/ RaiseHand(s) \/ GiveBack(s) \/ RenameStageFile(s)
                               \/ SendEnter(s) \/ CommitWrite(s)
  BY DEF Next, ServerNext, Continuation, AgentNext

\* Whatever the session does to the floor is one of the floor's own operations.
LEMMA FloorSteps ==
  ASSUME FloorTypeOK, inputOwner \in Session \cup {NoOne}, [Next]_vars
  PROVE  [FloorNext]_floorVars
<1> USE DEF FloorNext
<1>1. CASE \/ Launch \/ LaunchSucceeds \/ LaunchCanceled \/ LaunchFails \/ AdminStops
           \/ StopAfterLaunch \/ ProcessExits \/ ClearDraft \/ PollReads \/ PollRuns
           \/ PollResumes \/ HookRead \/ PollFails \/ StartHook \/ StopHook
           \/ EnterIgnored \/ UNCHANGED vars
  BY <1>1 DEF Launch, LaunchSucceeds, LaunchCanceled, LaunchFails, AdminStops,
     StopAfterLaunch, ProcessExits, ClearDraft, PollReads, PollRuns, PollResumes,
     HookRead, PollFails, StartHook, StopHook, EnterIgnored, vars
<1>2. CASE ResetStage \/ Timer \/ TimePasses
  BY <1>2 DEF ResetStage, Timer, TimePasses
<1>3. CASE SessionChanges
  BY <1>3, SessionsAssumption DEF SessionChanges
<1>4. CASE HookBeginsTurn
  <2>1. PICK id \in TurnId : BeginTui(inputOwner, id)
    BY <1>4 DEF HookBeginsTurn
  <2>2. inputOwner \in Session
    BY <1>4 DEF HookBeginsTurn
  <2>3. QED BY <2>1, <2>2
<1>5. CASE StopEnds \/ PollEnds
  BY <1>5 DEF StopEnds, PollEnds, FloorTypeOK, EndsJob
<1>6. ASSUME NEW s \in Session, NEW enter \in BOOLEAN, NEW public \in BOOLEAN,
             StartWrite(s, enter, public)
      PROVE  [FloorNext]_floorVars
  BY <1>6 DEF StartWrite
<1>7. ASSUME NEW s \in Session,
             RaiseHand(s) \/ GiveBack(s) \/ RenameStageFile(s) \/ SendEnter(s)
      PROVE  [FloorNext]_floorVars
  BY <1>7 DEF RaiseHand, GiveBack, RenameStageFile, SendEnter
<1>8. ASSUME NEW s \in Session, CommitWrite(s) PROVE [FloorNext]_floorVars
  BY <1>8 DEF CommitWrite
<1>9. QED
  BY <1>1, <1>2, <1>3, <1>4, <1>5, <1>6, <1>7, <1>8, TuiCases


-------------------------------------------------------------------------------

\* What the session starts with.
LEMMA TuiInitOK == TuiInit => TuiIInv
<1> SUFFICES ASSUME TuiInit PROVE TuiIInv
  OBVIOUS
<1> USE DEF TuiInit
<1>1. FloorInv
  BY TimeAssumption, SessionsAssumption DEF FloorInv, FloorTypeOK, FloorExclusive
<1>2. TypeOK
  <2>1. clears \in Seq(BOOLEAN) /\ Len(clears) <= MaxClears
    BY BoundAssumption
  <2>2. journal \in Seq(Hook) /\ Len(journal) <= MaxJournal
    BY BoundAssumption
  <2>3. poll \in Poll
    BY DEF Poll, NotPolling
  <2>4. writes \in [Session -> Write]
    BY BoundAssumption DEF Write, Idle
  <2>5. publicMode \in BOOLEAN
    BY ModeAssumption
  <2>6. submitter \in [Token -> Session \cup {NoOne}]
    OBVIOUS
  <2>7. QED
    BY <1>1, <2>1, <2>2, <2>3, <2>4, <2>5, <2>6 DEF TypeOK, FloorInv
<1>3. JobFenced
  BY DEF JobFenced
<1>4. DrawnTokens
  BY DEF DrawnTokens, Drawn, Idle, NotPolling
<1>5. LaunchesAlone
  BY DEF LaunchesAlone, NotPolling
<1>6. OrphansMatchNothing
  BY DEF OrphansMatchNothing, NotPolling
<1>7. QED
  BY <1>1, <1>2, <1>3, <1>4, <1>5, <1>6 DEF TuiIInv

-------------------------------------------------------------------------------
(* One lemma for each part of the invariant.                                *)

\* A generation ends whatever was current, and changes nothing else of the poll.
LEMMA StalePoll ==
  ASSUME poll \in Poll, NewGeneration
  PROVE  /\ poll' \in Poll /\ ~poll'.current
         /\ poll'.at = poll.at /\ poll'.batch = poll.batch /\ poll'.finished = poll.finished
  BY DEF Poll, NewGeneration

\* Only the start of a launch, a stop and the poll change what LaunchesAlone says.
LEMMA LaunchesAloneNext ==
  ASSUME TypeOK, LaunchesAlone, [Next]_vars
  PROVE  LaunchesAlone'
<1> USE DEF LaunchesAlone
<1>0. poll \in Poll /\ process \in BOOLEAN
  BY DEF TypeOK
<1>1. CASE Launch
  BY <1>0, <1>1, StalePoll DEF Launch, BeginLaunch, CanEnsure
<1>2. CASE LaunchSucceeds \/ LaunchCanceled \/ LaunchFails
  BY <1>2 DEF LaunchSucceeds, LaunchCanceled, LaunchFails
<1>3. CASE AdminStops
  <2>1. CASE stopping = "no"
    BY <1>0, <1>3, <2>1, StalePoll DEF AdminStops, BeginStop, CutOff
  <2>2. CASE stopping # "no"
    BY <1>3, <2>2 DEF AdminStops
  <2>3. QED
    BY <2>1, <2>2
<1>4. CASE StopAfterLaunch
  BY <1>4 DEF StopAfterLaunch, CutOff
<1>5. CASE StopEnds
  BY <1>5 DEF StopEnds, NotPolling
<1>6. CASE ProcessExits
  BY <1>0, <1>6, StalePoll DEF ProcessExits, BeginStop, CutOff
<1>7. CASE PollReads \/ PollRuns \/ PollResumes
  BY <1>0, <1>7 DEF PollReads, PollRuns, PollResumes, serverVars, Poll, NotPolling
<1>8. CASE HookBeginsTurn
  <2>1. poll'.current = poll.current
    BY <1>0, <1>8 DEF HookBeginsTurn, Drained, Poll
  <2>2. QED
    BY <1>8, <2>1 DEF HookBeginsTurn, serverVars
<1>9. CASE HookRead
  <2>1. poll'.current = poll.current
    BY <1>0, <1>9 DEF HookRead, Drained, Poll
  <2>2. QED
    BY <1>9, <2>1 DEF HookRead, serverVars
<1>10. CASE PollEnds
  BY <1>10 DEF PollEnds, serverVars, NotPolling
<1>11. CASE PollFails
  <2>1. ~poll'.current
    BY <1>0, <1>11 DEF PollFails, NotPolling
  <2>2. QED
    BY <1>11, <2>1 DEF PollFails, CutOff
<1>12. ASSUME NEW s \in Session, NEW enter \in BOOLEAN, NEW public \in BOOLEAN,
              StartWrite(s, enter, public)
       PROVE  LaunchesAlone'
  <2>1. CASE process \/ launching # "no"
    BY <1>12, <2>1 DEF StartWrite
  <2>2. CASE ~process /\ launching = "no"
    BY <1>0, <1>12, <2>2, StalePoll DEF StartWrite, BeginLaunch, CanEnsure
  <2>3. QED
    BY <2>1, <2>2
<1>13. CASE \/ ResetStage \/ Timer \/ SessionChanges \/ ClearDraft \/ StartHook
            \/ StopHook \/ EnterIgnored \/ TimePasses \/ UNCHANGED vars
  <2>1. CASE ResetStage \/ Timer \/ SessionChanges \/ ClearDraft
    <3>1. UNCHANGED <<serverVars, poll>>
      BY <2>1 DEF ResetStage, Timer, SessionChanges, ClearDraft
    <3>2. QED
      BY <3>1 DEF serverVars
  <2>2. CASE StartHook \/ StopHook \/ EnterIgnored
    BY <2>2 DEF StartHook, StopHook, EnterIgnored, serverVars
  <2>3. CASE TimePasses \/ UNCHANGED vars
    BY <2>3 DEF TimePasses, vars, tuiVars, serverVars
  <2>4. QED
    BY <1>13, <2>1, <2>2, <2>3
<1>14. ASSUME NEW s \in Session,
              RaiseHand(s) \/ GiveBack(s) \/ RenameStageFile(s) \/ SendEnter(s) \/ CommitWrite(s)
       PROVE  LaunchesAlone'
  BY <1>14 DEF RaiseHand, GiveBack, RenameStageFile, SendEnter, CommitWrite, serverVars
<1>15. QED
  BY <1>1, <1>2, <1>3, <1>4, <1>5, <1>6, <1>7, <1>8, <1>9, <1>10, <1>11, <1>12, <1>13,
     <1>14, TuiCases

\* The operations on the floor that leave the running job alone.
LEMMA JobLeftAlone ==
  ASSUME NEW s \in Session, Raise(s) \/ Release(s) \/ HoldTuiSubmission(s)
                            \/ Leave(s) \/ AdminLogout(s) \/ Tick \/ Elapse
  PROVE  turn' = turn
  BY DEF Raise, Release, HoldTuiSubmission, Leave, AdminLogout, Tick, Elapse

\* Launch, input, stop, failure and the poll keep the job fenced.
LEMMA JobFencedNext ==
  ASSUME TypeOK, JobFenced, LaunchesAlone, OrphansMatchNothing, [Next]_vars
  PROVE  JobFenced'
<1> USE DEF JobFenced, LaunchesAlone
<1>0. /\ poll \in Poll /\ process \in BOOLEAN /\ failing \in BOOLEAN
      /\ turn \in TurnId \cup {NoTurn} /\ stopping \in {"no", "starting", "closing"}
      /\ launching \in {"no", "current", "stale"}
  BY DEF TypeOK, FloorTypeOK
<1>1. CASE Launch
  BY <1>0, <1>1 DEF Launch, BeginLaunch, CanEnsure, floorVars, otherVars, historyVars
<1>2. CASE LaunchSucceeds
  BY <1>2 DEF LaunchSucceeds, floorVars
<1>3. CASE LaunchCanceled \/ LaunchFails
  BY <1>3 DEF LaunchCanceled, LaunchFails, floorVars, otherVars, historyVars
<1>4. CASE AdminStops
  <2>1. CASE stopping = "no"
    BY <1>0, <1>4, <2>1 DEF AdminStops, BeginStop, CutOff, floorVars, otherVars, historyVars
  <2>2. CASE stopping # "no"
    BY <1>4, <2>2 DEF AdminStops, floorVars, otherVars, historyVars
  <2>3. QED
    BY <2>1, <2>2
<1>5. CASE StopAfterLaunch
  BY <1>5 DEF StopAfterLaunch, CutOff, floorVars, otherVars, historyVars
<1>6. CASE StopEnds
  BY <1>6 DEF StopEnds, EndsJob, Finish, floorVars, inputVars
<1>7. CASE ProcessExits
  BY <1>7 DEF ProcessExits, BeginStop, CutOff, floorVars
<1>8. CASE ResetStage
  BY <1>8 DEF ResetStage, Reset, serverVars, inputVars
<1>9. CASE HookBeginsTurn
  <2>1. PICK id \in TurnId : BeginTui(inputOwner, id)
    BY <1>9 DEF HookBeginsTurn
  <2>2. turn' = id /\ turn' # NoTurn
    BY <2>1, TurnAssumption DEF BeginTui, StartTurn
  <2>3. poll.batch \in Seq(Hook) /\ poll.batch # <<>>
    BY <1>0, <1>9 DEF HookBeginsTurn, Poll
  <2>4. NextHook = poll.batch[1] /\ 1 \in DOMAIN poll.batch /\ NextHook \in Hook
    BY <2>3 DEF NextHook
  <2>5. NextHook.tok = token /\ NextHook.tok # NoToken
    BY <1>9, <2>4, TokenAssumption DEF HookBeginsTurn, CurrentHook, Hook
  <2>6. process
    BY <2>4, <2>5 DEF OrphansMatchNothing
  <2>7. QED
    BY <1>9, <2>2, <2>5, <2>6 DEF HookBeginsTurn, serverVars
<1>10. CASE PollEnds
  BY <1>10 DEF PollEnds, Finish, floorVars, serverVars, otherVars, historyVars
<1>11. CASE PollFails
  BY <1>11 DEF PollFails, CutOff, floorVars, otherVars, historyVars
<1>12. ASSUME NEW s \in Session, NEW enter \in BOOLEAN, NEW public \in BOOLEAN,
              StartWrite(s, enter, public)
       PROVE  JobFenced'
  BY <1>12 DEF StartWrite, BeginLaunch, floorVars, otherVars, historyVars
<1>13. ASSUME NEW s \in Session, CommitWrite(s)
       PROVE  JobFenced'
  <2>1. turn' = turn
    BY <1>13, JobLeftAlone DEF CommitWrite, floorVars
  <2>2. token' = token \/ turn = NoTurn
    BY <1>13 DEF CommitWrite, FreshToken
  <2>3. QED
    BY <1>13, <2>1, <2>2 DEF CommitWrite, serverVars
<1>14. CASE \/ ClearDraft \/ PollReads \/ PollRuns \/ PollResumes \/ HookRead
            \/ StartHook \/ StopHook \/ EnterIgnored \/ UNCHANGED vars
  BY <1>14 DEF ClearDraft, PollReads, PollRuns, PollResumes, HookRead, StartHook, StopHook,
     EnterIgnored, vars, tuiVars, floorVars, serverVars, inputVars, otherVars, historyVars
<1>15. CASE Timer \/ SessionChanges \/ TimePasses
  <2>1. turn' = turn
    BY <1>15, SessionsAssumption
       DEF Timer, SessionChanges, TimePasses, floorVars, Tick, Elapse, Leave, AdminLogout
  <2>2. QED
    BY <1>15, <2>1 DEF Timer, SessionChanges, TimePasses, tuiVars, serverVars, inputVars,
       otherVars, historyVars
<1>16. ASSUME NEW s \in Session,
              RaiseHand(s) \/ GiveBack(s) \/ RenameStageFile(s) \/ SendEnter(s)
       PROVE  JobFenced'
  <2>1. turn' = turn
    BY <1>16, JobLeftAlone DEF RaiseHand, GiveBack, RenameStageFile, SendEnter, floorVars
  <2>2. QED
    BY <1>16, <2>1 DEF RaiseHand, GiveBack, RenameStageFile, SendEnter, serverVars,
       otherVars, historyVars
<1>17. QED
  BY <1>1, <1>2, <1>3, <1>4, <1>5, <1>6, <1>7, <1>8, <1>9, <1>10, <1>11, <1>12, <1>13,
     <1>14, <1>15, <1>16, TuiCases

\* A hook that is waiting was recorded under a token.
LEMMA HooksHaveTokens ==
  ASSUME NEW q \in Seq(Hook)
  PROVE  \A i \in DOMAIN q : q[i].tok \in Token /\ q[i].tok # NoToken
<1>1. \A i \in DOMAIN q : q[i] \in Hook
  OBVIOUS
<1>2. QED
  BY <1>1, TokenAssumption DEF Hook

\* Handling the first hook leaves the others as they were.
LEMMA OthersStay ==
  ASSUME NEW q \in Seq(Hook), q # <<>>
  PROVE  /\ Tail(q) \in Seq(Hook)
         /\ \A i \in DOMAIN Tail(q) : i + 1 \in DOMAIN q /\ Tail(q)[i] = q[i + 1]
  OBVIOUS

\* A poll that handles a hook takes the first of its batch.
LEMMA HookTaken ==
  ASSUME poll \in Poll, turn \in TurnId \cup {NoTurn}, HookBeginsTurn \/ HookRead
  PROVE  /\ poll' \in Poll
         /\ poll.batch \in Seq(Hook) /\ poll.batch # <<>>
         /\ poll'.batch = Tail(poll.batch)
<1>1. poll.batch \in Seq(Hook) /\ poll.batch # <<>>
  BY DEF HookBeginsTurn, HookRead, Poll
<1>2. Tail(poll.batch) \in Seq(Hook)
  BY <1>1
<1>3. /\ Drained(Tail(poll.batch)) \in Poll
      /\ Drained(Tail(poll.batch)).batch = Tail(poll.batch)
  BY <1>2 DEF Drained, Poll
<1>4. CASE HookBeginsTurn
  BY <1>1, <1>3, <1>4 DEF HookBeginsTurn, Poll
<1>5. CASE HookRead
  <2> DEFINE rest == Drained(Tail(poll.batch))
  <2>1. \/ poll' = [rest EXCEPT !.finished = NoTurn]
        \/ poll' = [rest EXCEPT !.finished = turn]
        \/ poll' = rest
    BY <1>5 DEF HookRead
  <2>2. QED
    BY <1>1, <1>3, <2>1 DEF Poll
<1>6. QED
  BY <1>4, <1>5

\* Only an Enter draws a token, only for the input it is about to send, and
\* none that is already in use.
LEMMA TokenDrawn ==
  ASSUME TypeOK, NEW s \in Session, CommitWrite(s)
  PROVE  \/ UNCHANGED <<token, submitter>>
         \/ /\ turn = NoTurn /\ token' \in Token /\ submitter[token'] = NoOne
            /\ submitter' = [submitter EXCEPT ![token'] = s]
  BY DEF CommitWrite, FreshToken, DrawToken

\* No input in flight.
LEMMA IdleWrite == Idle \in Write /\ Idle.tok = NoToken /\ Idle.at = "idle"
  BY BoundAssumption DEF Idle, Write

\* An input that waits for the launch or the queued clearings.
LEMMA Started ==
  ASSUME NEW at \in {"clearing", "ensure"}, NEW enter \in BOOLEAN, NEW public \in BOOLEAN,
         NEW n \in 0..MaxClears
  PROVE  [Idle EXCEPT !.at = at, !.enter = enter, !.public = public, !.ahead = n] \in Write
  BY BoundAssumption DEF Idle, Write

\* One that waited for the launch now waits for the clearings.
LEMMA Cleared ==
  ASSUME NEW w \in Write, NEW n \in 0..MaxClears
  PROVE  LET v == [w EXCEPT !.at = "clearing", !.ahead = n]
         IN  v \in Write /\ v.tok = w.tok /\ v.at = "clearing"
  BY DEF Write

\* One that waits for its token to be written.
LEMMA Committed ==
  ASSUME NEW w \in Write, NEW t \in Token \cup {NoToken}
  PROVE  LET v == [w EXCEPT !.at = "file", !.tok = t]
         IN  v \in Write /\ v.tok = t /\ v.at = "file"
  BY DEF Write

\* One whose token is in place.
LEMMA Renamed ==
  ASSUME NEW w \in Write
  PROVE  LET v == [w EXCEPT !.at = "send"]
         IN  v \in Write /\ v.tok = w.tok /\ v.at = "send"
  BY DEF Write

\* One that a finished clearing lets advance.
LEMMA Advanced ==
  ASSUME NEW w \in Write, w.ahead > 0
  PROVE  LET v == [w EXCEPT !.ahead = @ - 1]
         IN  v \in Write /\ v.tok = w.tok /\ v.at = w.at
  BY BoundAssumption DEF Write

\* Whoever waited for a launch goes on, or gives up, with the token it had or none.
LEMMA WaitersWoken ==
  ASSUME writes \in [Session -> Write], Len(clears) \in 0..MaxClears, NEW s \in Session
  PROVE  /\ Ensured[s] \in Write /\ Ensured[s].tok = writes[s].tok
         /\ EnsureFailed[s] \in Write /\ EnsureFailed[s].tok \in {writes[s].tok, NoToken}
<1>1. writes[s] \in Write
  OBVIOUS
<1>2. Ensured[s] = [writes[s] EXCEPT !.at = "clearing", !.ahead = Len(clears)] \/ Ensured[s] = writes[s]
  BY DEF Ensured
<1>3. EnsureFailed[s] = Idle \/ EnsureFailed[s] = writes[s]
  BY DEF EnsureFailed
<1>4. Ensured[s] \in Write /\ Ensured[s].tok = writes[s].tok
  <2> DEFINE v == [writes[s] EXCEPT !.at = "clearing", !.ahead = Len(clears)]
  <2>1. v \in Write /\ v.tok = writes[s].tok
    BY <1>1, Cleared
  <2>2. QED
    BY <1>1, <1>2, <2>1
<1>5. EnsureFailed[s] \in Write /\ EnsureFailed[s].tok \in {writes[s].tok, NoToken}
  BY <1>1, <1>3, IdleWrite
<1>6. QED
  BY <1>4, <1>5

\* The server, the container and the hooks only pass on tokens they were given.
LEMMA DrawnTokensNext ==
  ASSUME TypeOK, DrawnTokens, [Next]_vars
  PROVE  DrawnTokens'
<1> USE DEF DrawnTokens, Drawn
<1>0. /\ poll \in Poll /\ poll.batch \in Seq(Hook) /\ journal \in Seq(Hook)
      /\ turn \in TurnId \cup {NoTurn} /\ writes \in [Session -> Write]
      /\ Len(clears) \in 0..MaxClears
  BY DEF TypeOK, FloorTypeOK, Poll
<1>1. CASE Launch
  BY <1>0, <1>1, StalePoll DEF Launch, BeginLaunch, otherVars, historyVars
<1>2. CASE LaunchSucceeds \/ LaunchCanceled \/ LaunchFails
  <2>1. UNCHANGED <<token, stageFile, context, journal, poll, submitter>>
    BY <1>2 DEF LaunchSucceeds, LaunchCanceled, LaunchFails, agentVars, otherVars, historyVars
  <2>2. writes' \in {Ensured, EnsureFailed}
    BY <1>2 DEF LaunchSucceeds, LaunchCanceled, LaunchFails
  <2>3. \A s \in Session : writes'[s].tok \in {writes[s].tok, NoToken}
    BY <1>0, <2>2, WaitersWoken
  <2>4. QED
    BY <2>1, <2>3
<1>3. CASE AdminStops \/ ProcessExits
  <2>1. UNCHANGED <<stageFile, context, journal, submitter, writes>>
    BY <1>3 DEF AdminStops, ProcessExits, agentVars, otherVars, historyVars
  <2>2. token' \in {token, NoToken} /\ poll'.batch = poll.batch
    BY <1>0, <1>3, StalePoll DEF AdminStops, ProcessExits, BeginStop, CutOff
  <2>3. QED
    BY <2>1, <2>2
<1>4. CASE StopAfterLaunch \/ StopEnds \/ PollFails \/ PollEnds
  <2>1. UNCHANGED <<stageFile, context, journal, submitter, writes>>
    BY <1>4 DEF StopAfterLaunch, StopEnds, PollFails, PollEnds, agentVars, inputVars,
       otherVars, historyVars
  <2>2. token' \in {token, NoToken}
    BY <1>4 DEF StopAfterLaunch, StopEnds, PollFails, PollEnds, CutOff, inputVars
  <2>3. poll'.batch \in {poll.batch, <<>>}
    BY <1>4 DEF StopAfterLaunch, StopEnds, PollFails, PollEnds, NotPolling
  <2>4. QED
    BY <2>1, <2>2, <2>3
<1>5. CASE ResetStage \/ Timer \/ SessionChanges \/ TimePasses \/ EnterIgnored \/ UNCHANGED vars
  <2>1. UNCHANGED <<token, stageFile, context, journal, poll, submitter, writes>>
    <3>1. CASE ResetStage \/ Timer \/ SessionChanges
      BY <3>1 DEF ResetStage, Timer, SessionChanges, inputVars, agentVars
    <3>2. CASE TimePasses \/ EnterIgnored \/ UNCHANGED vars
      BY <3>2 DEF TimePasses, EnterIgnored, vars, tuiVars, inputVars, agentVars, otherVars,
         historyVars
    <3>3. QED
      BY <1>5, <3>1, <3>2
  <2>2. QED
    BY <2>1
<1>6. CASE ClearDraft \/ StartHook \/ StopHook
  <2>1. UNCHANGED <<token, stageFile, poll, submitter>>
    BY <1>6 DEF ClearDraft, StartHook, StopHook, inputVars, otherVars, historyVars
  <2>2. context' \in {context, stageFile}
    BY <1>6 DEF ClearDraft, StartHook, StopHook
  <2>3. \/ journal' = journal
        \/ \E e \in {"start", "stop"}, t \in {context, stageFile} \ {NoToken} :
              journal' = Append(journal, [event |-> e, tok |-> t])
    BY <1>6 DEF ClearDraft, StartHook, StopHook, RecordStop
  <2>4. \A i \in DOMAIN journal' : Drawn(journal'[i].tok)
    <3>1. CASE journal' = journal
      BY <3>1
    <3>2. ASSUME NEW e \in {"start", "stop"}, NEW t \in {context, stageFile} \ {NoToken},
                 journal' = Append(journal, [event |-> e, tok |-> t])
          PROVE  \A i \in DOMAIN journal' : Drawn(journal'[i].tok)
      <4>1. \A i \in DOMAIN journal' :
              (i \in DOMAIN journal /\ journal'[i] = journal[i])
                \/ journal'[i] = [event |-> e, tok |-> t]
        BY <1>0, <3>2
      <4>2. QED
        BY <4>1
    <3>3. QED
      BY <2>3, <3>1, <3>2
  <2>5. \A s \in Session : writes'[s].tok = writes[s].tok
    <3>1. CASE ClearDraft
      BY <1>0, <3>1 DEF ClearDraft, Write
    <3>2. CASE StartHook \/ StopHook
      BY <3>2 DEF StartHook, StopHook, inputVars
    <3>3. QED
      BY <1>6, <3>1, <3>2
  <2>6. QED
    BY <2>1, <2>2, <2>4, <2>5
<1>7. CASE PollReads \/ PollRuns \/ PollResumes
  <2>1. UNCHANGED <<token, stageFile, context, submitter, writes>>
    BY <1>7 DEF PollReads, PollRuns, PollResumes, inputVars, agentVars, otherVars, historyVars
  <2>2. /\ poll'.batch \in {poll.batch, journal, <<>>}
        /\ journal' \in {journal, <<>>}
    BY <1>0, <1>7 DEF PollReads, PollRuns, PollResumes, NotPolling, agentVars, Poll
  <2>3. QED
    BY <2>1, <2>2
<1>8. CASE HookBeginsTurn \/ HookRead
  <2>1. UNCHANGED <<token, stageFile, context, journal, submitter, writes>>
    BY <1>8 DEF HookBeginsTurn, HookRead, inputVars, agentVars, otherVars, historyVars
  <2>2. poll.batch \in Seq(Hook) /\ poll.batch # <<>> /\ poll'.batch = Tail(poll.batch)
    BY <1>0, <1>8, HookTaken
  <2>4. \A i \in DOMAIN poll'.batch : Drawn(poll'.batch[i].tok)
    BY <2>2, OthersStay
  <2>5. QED
    BY <2>1, <2>4
<1>9. ASSUME NEW s \in Session, NEW enter \in BOOLEAN, NEW public \in BOOLEAN,
             StartWrite(s, enter, public)
      PROVE  DrawnTokens'
  <2>1. \A w \in Session : writes'[w].tok \in {writes[w].tok, NoToken}
    BY <1>0, <1>9 DEF StartWrite, Idle, Write
  <2>2. submitter' = submitter
    BY <1>9 DEF StartWrite, otherVars, historyVars
  <2>3. /\ token' \in {token, NoToken} /\ stageFile' \in {stageFile, NoToken}
        /\ context' \in {context, NoToken} /\ journal' \in {journal, <<>>}
    BY <1>9 DEF StartWrite, BeginLaunch
  <2>4. poll'.batch = poll.batch
    BY <1>0, <1>9, StalePoll DEF StartWrite, BeginLaunch
  <2>5. QED
    BY <2>1, <2>2, <2>3, <2>4
<1>10. ASSUME NEW s \in Session, RaiseHand(s) \/ GiveBack(s) \/ RenameStageFile(s) \/ SendEnter(s)
       PROVE  DrawnTokens'
  <2>1. UNCHANGED <<token, context, journal, poll, submitter>>
    BY <1>10 DEF RaiseHand, GiveBack, RenameStageFile, SendEnter, agentVars, otherVars,
       historyVars
  <2>2. /\ stageFile' \in {stageFile, writes[s].tok}
        /\ \A w \in Session : writes'[w].tok \in {writes[w].tok, NoToken}
    BY <1>0, <1>10 DEF RaiseHand, GiveBack, RenameStageFile, SendEnter, agentVars, Rejected,
       Idle, Write
  <2>3. QED
    BY <2>1, <2>2
<1>11. ASSUME NEW s \in Session, CommitWrite(s)
       PROVE  DrawnTokens'
  <2>1. UNCHANGED <<stageFile, context, journal, poll>>
    BY <1>11 DEF CommitWrite
  <2>2. \A w \in Session : writes'[w].tok \in {writes[w].tok, NoToken, token'}
    <3>1. \/ writes' = [writes EXCEPT ![s] = Idle]
          \/ writes' = [writes EXCEPT ![s] = [@ EXCEPT !.at = "file", !.tok = token']]
      BY <1>11 DEF CommitWrite, Rejected
    <3>2. writes[s] \in Write
      BY <1>0
    <3>3. token' \in Token \cup {NoToken}
      BY <1>11, TokenDrawn DEF TypeOK
    <3>4. writes'[s].tok \in {NoToken, token'}
      <4>1. CASE writes' = [writes EXCEPT ![s] = Idle]
        BY <1>0, <4>1, IdleWrite
      <4>2. CASE writes' = [writes EXCEPT ![s] = [@ EXCEPT !.at = "file", !.tok = token']]
        <5> DEFINE v == [writes[s] EXCEPT !.at = "file", !.tok = token']
        <5>1. v.tok = token'
          BY <3>2, <3>3, Committed
        <5>2. writes'[s] = v
          BY <1>0, <4>2
        <5>3. QED
          BY <5>1, <5>2
      <4>3. QED
        BY <3>1, <4>1, <4>2
    <3>5. \A w \in Session \ {s} : writes'[w] = writes[w]
      BY <1>0, <3>1
    <3>6. QED
      BY <3>4, <3>5
  <2>3. \A t \in Token : submitter[t] # NoOne => submitter'[t] # NoOne
    BY <1>11, TokenDrawn, SessionAssumption DEF TypeOK
  <2>4. token' = token \/ (token' \in Token /\ submitter'[token'] # NoOne)
    BY <1>11, TokenDrawn, SessionAssumption DEF TypeOK
  <2>5. /\ {token, stageFile, context} \subseteq Token \cup {NoToken}
        /\ \A w \in Session : writes[w].tok \in Token \cup {NoToken}
        /\ \A i \in DOMAIN journal : journal[i].tok \in Token
        /\ \A i \in DOMAIN poll.batch : poll.batch[i].tok \in Token
    BY <1>0, HooksHaveTokens DEF TypeOK, Write
  <2>6. QED
    BY <2>1, <2>2, <2>3, <2>4, <2>5
<1>12. QED
  BY <1>1, <1>2, <1>3, <1>4, <1>5, <1>6, <1>7, <1>8, <1>9, <1>10, <1>11, TuiCases

\* A hook of a session that is over begins no job in the next one.
LEMMA OrphansNext ==
  ASSUME TypeOK, DrawnTokens, LaunchesAlone, OrphansMatchNothing, [Next]_vars
  PROVE  OrphansMatchNothing'
<1> USE DEF OrphansMatchNothing
<1>0. /\ poll \in Poll /\ poll.batch \in Seq(Hook)
      /\ turn \in TurnId \cup {NoTurn}
  BY DEF TypeOK, FloorTypeOK, Poll
<1>1. \A i \in DOMAIN poll.batch : poll.batch[i].tok # NoToken
  BY <1>0, HooksHaveTokens
<1>2. CASE Launch
  BY <1>0, <1>1, <1>2, StalePoll DEF Launch, BeginLaunch
<1>3. CASE LaunchSucceeds
  BY <1>3 DEF LaunchSucceeds
<1>4. CASE \/ LaunchCanceled \/ LaunchFails \/ ResetStage \/ Timer \/ SessionChanges
           \/ ClearDraft \/ StartHook \/ StopHook \/ EnterIgnored \/ TimePasses \/ UNCHANGED vars
  <2>1. UNCHANGED <<process, token, poll>>
    <3>1. CASE LaunchCanceled \/ LaunchFails \/ ResetStage \/ Timer \/ SessionChanges
      BY <3>1 DEF LaunchCanceled, LaunchFails, ResetStage, Timer, SessionChanges, serverVars,
         inputVars
    <3>2. CASE \/ ClearDraft \/ StartHook \/ StopHook \/ EnterIgnored \/ TimePasses
               \/ UNCHANGED vars
      BY <3>2 DEF ClearDraft, StartHook, StopHook, EnterIgnored, TimePasses, vars, tuiVars,
         serverVars, inputVars
    <3>3. QED
      BY <1>4, <3>1, <3>2
  <2>2. QED
    BY <2>1
<1>5. CASE AdminStops \/ ProcessExits
  <2>1. poll'.batch = poll.batch
    BY <1>0, <1>5, StalePoll DEF AdminStops, ProcessExits, BeginStop
  <2>2. token' = NoToken \/ UNCHANGED <<token, process>>
    BY <1>5 DEF AdminStops, ProcessExits, BeginStop, CutOff
  <2>3. QED
    BY <1>1, <2>1, <2>2
<1>6. CASE StopAfterLaunch \/ PollFails \/ PollEnds
  <2>1. token' = NoToken \/ UNCHANGED <<token, process>>
    BY <1>6 DEF StopAfterLaunch, PollFails, PollEnds, CutOff, serverVars
  <2>2. poll'.batch \in {poll.batch, <<>>}
    BY <1>6 DEF StopAfterLaunch, PollFails, PollEnds, NotPolling
  <2>3. QED
    BY <1>1, <2>1, <2>2
<1>7. CASE StopEnds
  BY <1>7 DEF StopEnds, NotPolling, inputVars
<1>8. CASE PollReads \/ PollRuns \/ PollResumes
  <2>1. UNCHANGED <<process, token>>
    BY <1>8 DEF PollReads, PollRuns, PollResumes, serverVars, inputVars
  <2>2. process \/ poll'.batch \in {poll.batch, <<>>}
    BY <1>0, <1>8 DEF PollReads, PollRuns, PollResumes, NotPolling, Poll
  <2>3. QED
    BY <2>1, <2>2
<1>9. CASE HookBeginsTurn \/ HookRead
  <2>1. UNCHANGED <<process, token>>
    BY <1>9 DEF HookBeginsTurn, HookRead, serverVars, inputVars
  <2>2. poll.batch \in Seq(Hook) /\ poll.batch # <<>> /\ poll'.batch = Tail(poll.batch)
    BY <1>0, <1>9, HookTaken
  <2>3. QED
    BY <2>1, <2>2, OthersStay
<1>10. ASSUME NEW s \in Session, NEW enter \in BOOLEAN, NEW public \in BOOLEAN,
              StartWrite(s, enter, public)
       PROVE  OrphansMatchNothing'
  <2>1. poll'.batch = poll.batch
    BY <1>0, <1>10, StalePoll DEF StartWrite, BeginLaunch
  <2>2. process' = process /\ token' \in {token, NoToken}
    BY <1>10 DEF StartWrite, BeginLaunch
  <2>3. QED
    BY <1>1, <2>1, <2>2
<1>11. ASSUME NEW s \in Session, RaiseHand(s) \/ GiveBack(s) \/ RenameStageFile(s) \/ SendEnter(s)
       PROVE  OrphansMatchNothing'
  BY <1>11 DEF RaiseHand, GiveBack, RenameStageFile, SendEnter, serverVars
<1>12. ASSUME NEW s \in Session, CommitWrite(s)
       PROVE  OrphansMatchNothing'
  <2>1. UNCHANGED <<process, poll>>
    BY <1>12 DEF CommitWrite, serverVars
  <2>2. token' = token \/ (token' # NoToken /\ submitter[token'] = NoOne)
    BY <1>12, TokenDrawn, TokenAssumption
  <2>3. \A i \in DOMAIN poll.batch : submitter[poll.batch[i].tok] # NoOne
    BY <1>1 DEF DrawnTokens, Drawn
  <2>4. QED
    BY <2>1, <2>2, <2>3
<1>13. QED
  BY <1>2, <1>3, <1>4, <1>5, <1>6, <1>7, <1>8, <1>9, <1>10, <1>11, <1>12, TuiCases

-------------------------------------------------------------------------------
(* Types.                                                                   *)

\* A newer generation, tick() and a finished clearing keep a queue of clearings.
LEMMA ClearsNext ==
  ASSUME TypeOK, [Next]_vars
  PROVE  clears' \in Seq(BOOLEAN) /\ Len(clears') \in 0..MaxClears
<1> DEFINE Queue(q) == q \in Seq(BOOLEAN) /\ Len(q) \in 0..MaxClears
<1>0. Queue(clears)
  BY DEF TypeOK
<1>1. \/ clears' = clears
      \/ clears' = [i \in DOMAIN clears |-> FALSE]
      \/ Len(clears) < MaxClears /\ clears' = Append(clears, TRUE)
      \/ clears # <<>> /\ clears' = Tail(clears)
  <2>1. CASE \/ Launch \/ LaunchSucceeds \/ LaunchCanceled \/ LaunchFails \/ AdminStops
             \/ StopAfterLaunch \/ StopEnds \/ ProcessExits \/ PollFails
    BY <2>1 DEF Launch, BeginLaunch, LaunchSucceeds, LaunchCanceled, LaunchFails, AdminStops,
       BeginStop, StopAfterLaunch, StopEnds, ProcessExits, PollFails, NewGeneration, inputVars
  <2>2. CASE \/ ResetStage \/ SessionChanges \/ PollReads \/ PollRuns \/ PollResumes
             \/ HookBeginsTurn \/ HookRead \/ PollEnds
    BY <2>2 DEF ResetStage, SessionChanges, PollReads, PollRuns, PollResumes, HookBeginsTurn,
       HookRead, PollEnds, inputVars
  <2>3. CASE StartHook \/ StopHook \/ EnterIgnored \/ TimePasses \/ UNCHANGED vars
    BY <2>3 DEF StartHook, StopHook, EnterIgnored, TimePasses, vars, tuiVars, inputVars
  <2>4. CASE Timer \/ ClearDraft
    BY <2>4 DEF Timer, TuiTick, ClearDraft
  <2>5. ASSUME NEW s \in Session, NEW enter \in BOOLEAN, NEW public \in BOOLEAN,
               StartWrite(s, enter, public)
        PROVE  clears' = clears \/ clears' = [i \in DOMAIN clears |-> FALSE]
    BY <2>5 DEF StartWrite, BeginLaunch, NewGeneration
  <2>6. ASSUME NEW s \in Session, RaiseHand(s) \/ GiveBack(s)
        PROVE  clears' = clears \/ (Len(clears) < MaxClears /\ clears' = Append(clears, TRUE))
    BY <2>6 DEF RaiseHand, GiveBack, TuiTick
  <2>7. ASSUME NEW s \in Session, RenameStageFile(s) \/ SendEnter(s) \/ CommitWrite(s)
        PROVE  clears' = clears
    BY <2>7 DEF RenameStageFile, SendEnter, CommitWrite
  <2>8. QED
    BY <2>1, <2>2, <2>3, <2>4, <2>5, <2>6, <2>7, TuiCases
<1>2. ASSUME clears' = [i \in DOMAIN clears |-> FALSE] PROVE Queue(clears')
  <2>1. DOMAIN clears = 1..Len(clears) /\ Len(clears) \in Nat
    BY <1>0
  <2>2. clears' \in [1..Len(clears) -> BOOLEAN]
    BY <1>2, <2>1
  <2>3. clears' \in Seq(BOOLEAN) /\ Len(clears') = Len(clears)
    BY <2>1, <2>2
  <2>4. QED
    BY <1>0, <2>3
<1>3. ASSUME Len(clears) < MaxClears, clears' = Append(clears, TRUE) PROVE Queue(clears')
  BY <1>0, <1>3, BoundAssumption
<1>4. ASSUME clears # <<>>, clears' = Tail(clears) PROVE Queue(clears')
  BY <1>0, <1>4, BoundAssumption
<1>5. QED
  BY <1>0, <1>1, <1>2, <1>3, <1>4

\* A new bridge, and a server that has read everything.
LEMMA NothingWaits == <<>> \in Seq(Hook) /\ Len(<<>>) <= MaxJournal
  BY BoundAssumption

\* Hooks that wait are hooks, and no more of them than the journal is bounded to.
LEMMA JournalNext ==
  ASSUME TypeOK, [Next]_vars
  PROVE  journal' \in Seq(Hook) /\ Len(journal') <= MaxJournal
<1>0. /\ journal \in Seq(Hook) /\ Len(journal) <= MaxJournal
      /\ poll.batch \in Seq(Hook)
      /\ context \in Token \cup {NoToken} /\ stageFile \in Token \cup {NoToken}
  BY DEF TypeOK, Poll
<1>1. \/ journal' \in {journal, <<>>}
      \/ /\ Len(journal) + Len(poll.batch) < MaxJournal
         /\ \E hook \in Hook : journal' = Append(journal, hook)
  <2>1. CASE \/ Launch \/ LaunchSucceeds \/ LaunchCanceled \/ LaunchFails \/ AdminStops
             \/ StopAfterLaunch \/ StopEnds \/ ProcessExits \/ PollFails
    BY <2>1 DEF Launch, BeginLaunch, LaunchSucceeds, LaunchCanceled, LaunchFails, AdminStops,
       StopAfterLaunch, StopEnds, ProcessExits, PollFails, agentVars
  <2>2. CASE \/ ResetStage \/ SessionChanges \/ PollReads \/ PollRuns \/ PollResumes
             \/ HookBeginsTurn \/ HookRead \/ PollEnds \/ Timer
    BY <2>2 DEF ResetStage, SessionChanges, PollReads, PollRuns, PollResumes, HookBeginsTurn,
       HookRead, PollEnds, Timer, agentVars
  <2>3. CASE EnterIgnored \/ TimePasses \/ UNCHANGED vars
    BY <2>3 DEF EnterIgnored, TimePasses, vars, tuiVars, agentVars
  <2>4. CASE StartHook
    BY <1>0, <2>4 DEF StartHook, Hook
  <2>5. CASE StopHook \/ ClearDraft
    BY <1>0, <2>5 DEF StopHook, ClearDraft, RecordStop, Hook
  <2>6. ASSUME NEW s \in Session, NEW enter \in BOOLEAN, NEW public \in BOOLEAN,
               StartWrite(s, enter, public)
        PROVE  journal' \in {journal, <<>>}
    BY <2>6 DEF StartWrite, BeginLaunch
  <2>7. ASSUME NEW s \in Session,
               RaiseHand(s) \/ GiveBack(s) \/ RenameStageFile(s) \/ SendEnter(s) \/ CommitWrite(s)
        PROVE  journal' = journal
    BY <2>7 DEF RaiseHand, GiveBack, RenameStageFile, SendEnter, CommitWrite, agentVars
  <2>8. QED
    BY <2>1, <2>2, <2>3, <2>4, <2>5, <2>6, <2>7, TuiCases
<1>2. CASE journal' \in {journal, <<>>}
  BY <1>0, <1>2, NothingWaits
<1>3. ASSUME NEW hook \in Hook, journal' = Append(journal, hook),
             Len(journal) + Len(poll.batch) < MaxJournal
      PROVE  journal' \in Seq(Hook) /\ Len(journal') <= MaxJournal
  <2>1. Len(journal) \in Nat /\ Len(poll.batch) \in Nat
    BY <1>0
  <2>2. journal' \in Seq(Hook) /\ Len(journal') = Len(journal) + 1
    BY <1>0, <1>3
  <2>3. QED
    BY <1>3, <2>1, <2>2, BoundAssumption
<1>4. QED
  BY <1>1, <1>2, <1>3


\* Every input in flight is at one of its stages.
LEMMA WritesNext ==
  ASSUME TypeOK, [Next]_vars
  PROVE  writes' \in [Session -> Write]
<1>0. writes \in [Session -> Write] /\ Len(clears) \in 0..MaxClears
  BY DEF TypeOK
<1>1. CASE LaunchSucceeds \/ LaunchCanceled \/ LaunchFails
  <2>1. writes' \in {Ensured, EnsureFailed}
    BY <1>1 DEF LaunchSucceeds, LaunchCanceled, LaunchFails
  <2>2. DOMAIN Ensured = Session /\ DOMAIN EnsureFailed = Session
    BY DEF Ensured, EnsureFailed
  <2>3. \A s \in Session : Ensured[s] \in Write /\ EnsureFailed[s] \in Write
    BY <1>0, WaitersWoken
  <2>4. Ensured \in [Session -> Write] /\ EnsureFailed \in [Session -> Write]
    BY <2>2, <2>3 DEF Ensured, EnsureFailed
  <2>5. QED
    BY <2>1, <2>4
<1>2. CASE ClearDraft
  <2>1. writes' = [s \in Session |->
                     IF writes[s].ahead > 0 THEN [writes[s] EXCEPT !.ahead = @ - 1] ELSE writes[s]]
    BY <1>2 DEF ClearDraft
  <2>2. ASSUME NEW s \in Session PROVE writes'[s] \in Write
    BY <1>0, <2>1, Advanced
  <2>3. QED
    BY <2>1, <2>2
<1>3. ASSUME NEW s \in Session, NEW enter \in BOOLEAN, NEW public \in BOOLEAN,
             StartWrite(s, enter, public)
      PROVE  writes' \in [Session -> Write]
  <2> DEFINE at == IF process THEN "clearing" ELSE "ensure"
             n == IF process THEN Len(clears) ELSE 0
             v == [Idle EXCEPT !.at = at, !.enter = enter, !.public = public, !.ahead = n]
  <2>1. writes' = [writes EXCEPT ![s] = v]
    BY <1>3 DEF StartWrite
  <2>2. v \in Write
    <3>1. at \in {"clearing", "ensure"} /\ n \in 0..MaxClears
      BY <1>0, BoundAssumption
    <3> HIDE DEF at, n
    <3>2. QED
      BY <3>1, Started
  <2>3. QED
    BY <1>0, <2>1, <2>2
<1>4. ASSUME NEW s \in Session, RenameStageFile(s)
      PROVE  writes' \in [Session -> Write]
  <2> DEFINE v == [writes[s] EXCEPT !.at = "send"]
  <2>1. v \in Write
    BY <1>0, Renamed
  <2>2. writes' \in {[writes EXCEPT ![s] = v], [writes EXCEPT ![s] = Idle]}
    BY <1>4 DEF RenameStageFile, Rejected
  <2>3. QED
    BY <1>0, <2>1, <2>2, IdleWrite
<1>5. ASSUME NEW s \in Session, SendEnter(s)
      PROVE  writes' \in [Session -> Write]
  BY <1>0, <1>5, IdleWrite DEF SendEnter, Rejected
<1>6. ASSUME NEW s \in Session, CommitWrite(s)
      PROVE  writes' \in [Session -> Write]
  <2> DEFINE v == [writes[s] EXCEPT !.at = "file", !.tok = token']
  <2>1. token' \in Token \cup {NoToken}
    BY <1>6, TokenDrawn DEF TypeOK
  <2>2. v \in Write
    BY <1>0, <2>1, Committed
  <2>3. writes' \in {[writes EXCEPT ![s] = Idle], [writes EXCEPT ![s] = v]}
    BY <1>6 DEF CommitWrite, Rejected
  <2>4. QED
    BY <1>0, <2>2, <2>3, IdleWrite
<1>7. ASSUME NEW s \in Session, RaiseHand(s) \/ GiveBack(s)
      PROVE  writes' \in [Session -> Write]
  BY <1>0, <1>7 DEF RaiseHand, GiveBack
<1>8. CASE \/ Launch \/ AdminStops \/ StopAfterLaunch \/ StopEnds \/ ProcessExits \/ PollFails
           \/ ResetStage \/ Timer \/ SessionChanges
  BY <1>0, <1>8 DEF Launch, AdminStops, StopAfterLaunch, StopEnds, ProcessExits, PollFails,
     ResetStage, Timer, SessionChanges, inputVars
<1>9. CASE \/ PollReads \/ PollRuns \/ PollResumes \/ HookBeginsTurn \/ HookRead \/ PollEnds
           \/ StartHook \/ StopHook \/ EnterIgnored \/ TimePasses \/ UNCHANGED vars
  BY <1>0, <1>9 DEF PollReads, PollRuns, PollResumes, HookBeginsTurn, HookRead, PollEnds,
     StartHook, StopHook, EnterIgnored, TimePasses, vars, tuiVars, inputVars
<1>10. QED
  BY <1>1, <1>2, <1>3, <1>4, <1>5, <1>6, <1>7, <1>8, <1>9, TuiCases

\* A poll that is over, waits for fail(), or runs.
LEMMA PollOver ==
  /\ NotPolling \in Poll
  /\ \A p \in Poll : [p EXCEPT !.at = "failing"] \in Poll /\ [p EXCEPT !.at = "run"] \in Poll
  BY DEF NotPolling, Poll

\* The polling callback keeps its shape.
LEMMA PollNext ==
  ASSUME TypeOK, [Next]_vars
  PROVE  poll' \in Poll
<1>0. /\ poll \in Poll /\ turn \in TurnId \cup {NoTurn}
      /\ journal \in Seq(Hook)
  BY DEF TypeOK, FloorTypeOK
<1>1. NotPolling \in Poll /\ [NotPolling EXCEPT !.at = "failing"] \in Poll
  BY PollOver
<1>2. CASE Launch \/ AdminStops \/ ProcessExits
  BY <1>0, <1>2, StalePoll DEF Launch, BeginLaunch, AdminStops, ProcessExits, BeginStop
<1>3. CASE StopEnds \/ PollFails \/ PollEnds
  <2>1. poll' \in {poll, NotPolling, [NotPolling EXCEPT !.at = "failing"]}
    BY <1>3 DEF StopEnds, PollFails, PollEnds
  <2>2. QED
    BY <1>0, <1>1, <2>1
<1>4. CASE PollReads \/ PollRuns \/ PollResumes
  <2>1. CASE PollReads
    BY <1>0, <2>1 DEF PollReads, Poll
  <2>2. CASE PollRuns \/ PollResumes
    BY <1>0, <1>1, <2>2, PollOver DEF PollRuns, PollResumes
  <2>3. QED
    BY <1>4, <2>1, <2>2
<1>5. CASE HookBeginsTurn \/ HookRead
  BY <1>0, <1>5, HookTaken
<1>6. ASSUME NEW s \in Session, NEW enter \in BOOLEAN, NEW public \in BOOLEAN,
             StartWrite(s, enter, public)
      PROVE  poll' \in Poll
  BY <1>0, <1>6, StalePoll DEF StartWrite, BeginLaunch
<1>7. ASSUME NEW s \in Session,
             RaiseHand(s) \/ GiveBack(s) \/ RenameStageFile(s) \/ SendEnter(s) \/ CommitWrite(s)
      PROVE  poll' \in Poll
  BY <1>0, <1>7 DEF RaiseHand, GiveBack, RenameStageFile, SendEnter, CommitWrite
<1>8. CASE LaunchSucceeds \/ LaunchCanceled \/ LaunchFails \/ StopAfterLaunch
  BY <1>0, <1>8 DEF LaunchSucceeds, LaunchCanceled, LaunchFails, StopAfterLaunch
<1>9. CASE ResetStage \/ Timer \/ SessionChanges \/ ClearDraft
  BY <1>0, <1>9 DEF ResetStage, Timer, SessionChanges, ClearDraft
<1>10. CASE StartHook \/ StopHook \/ EnterIgnored \/ TimePasses \/ UNCHANGED vars
  BY <1>0, <1>10 DEF StartHook, StopHook, EnterIgnored, TimePasses, vars, tuiVars
<1>11. QED
  BY <1>2, <1>3, <1>4, <1>5, <1>6, <1>7, <1>8, <1>9, <1>10, TuiCases

\* The server's own flags.
LEMMA ServerTypes ==
  ASSUME TypeOK, FloorTypeOK', [Next]_vars
  PROVE  /\ container' \in {"none", "booting", "up"}
         /\ process' \in BOOLEAN
         /\ launching' \in {"no", "current", "stale"}
         /\ stopping' \in {"no", "starting", "closing"}
         /\ adminStop' \in TurnId \cup {NoTurn, "none"}
         /\ failing' \in BOOLEAN
         /\ unsafe' \in BOOLEAN
<1> DEFINE Flags == /\ container \in {"none", "booting", "up"}
                    /\ process \in BOOLEAN
                    /\ launching \in {"no", "current", "stale"}
                    /\ stopping \in {"no", "starting", "closing"}
                    /\ adminStop \in TurnId \cup {NoTurn, "none"}
                    /\ failing \in BOOLEAN
                    /\ unsafe \in BOOLEAN
<1>0. Flags /\ turn \in TurnId \cup {NoTurn}
  BY DEF TypeOK, FloorTypeOK
<1>1. CASE Launch
  BY <1>0, <1>1 DEF Launch, BeginLaunch
<1>2. CASE LaunchSucceeds \/ LaunchCanceled
  BY <1>0, <1>2 DEF LaunchSucceeds, LaunchCanceled
<1>3. CASE LaunchFails
  BY <1>0, <1>3 DEF LaunchFails
<1>4. CASE AdminStops
  BY <1>0, <1>4 DEF AdminStops, BeginStop, CutOff
<1>5. CASE StopAfterLaunch
  BY <1>0, <1>5 DEF StopAfterLaunch, CutOff
<1>6. CASE StopEnds
  BY <1>0, <1>6 DEF StopEnds, ContainerStops
<1>7. CASE ProcessExits
  BY <1>0, <1>7 DEF ProcessExits, BeginStop, CutOff
<1>8. CASE PollFails
  BY <1>0, <1>8 DEF PollFails, CutOff
<1>9. ASSUME NEW s \in Session, NEW enter \in BOOLEAN, NEW public \in BOOLEAN,
             StartWrite(s, enter, public)
      PROVE  Flags'
  BY <1>0, <1>9 DEF StartWrite, BeginLaunch
<1>10. CASE Elsewhere
  BY <1>0, <1>10 DEF Elsewhere, serverVars
<1>11. QED
  BY <1>1, <1>2, <1>3, <1>4, <1>5, <1>6, <1>7, <1>8, <1>9, <1>10, NextCases

\* What input() and the lifecycle hooks set.
LEMMA InputTypes ==
  ASSUME TypeOK, FloorTypeOK', [Next]_vars
  PROVE  /\ inputOwner' \in Session \cup {NoOne}
         /\ token' \in Token \cup {NoToken}
         /\ lifecycleTurn' \in TurnId \cup {NoTurn}
         /\ publicSubmission' \in BOOLEAN
         /\ previousSpeaker' \in Session \cup {NoOne}
<1> DEFINE Inputs == /\ inputOwner \in Session \cup {NoOne}
                     /\ token \in Token \cup {NoToken}
                     /\ lifecycleTurn \in TurnId \cup {NoTurn}
                     /\ publicSubmission \in BOOLEAN
                     /\ previousSpeaker \in Session \cup {NoOne}
<1>0. /\ Inputs
      /\ turn' \in TurnId \cup {NoTurn} /\ speaker' \in Session \cup {NoOne}
  BY DEF TypeOK, FloorTypeOK
<1>1. CASE Launch
  BY <1>0, <1>1 DEF Launch, BeginLaunch
<1>2. CASE LaunchSucceeds
  BY <1>0, <1>2 DEF LaunchSucceeds
<1>3. CASE LaunchCanceled \/ LaunchFails
  <2>1. /\ UNCHANGED <<inputOwner, token, lifecycleTurn, previousSpeaker>>
        /\ publicSubmission' \in {publicSubmission, FALSE}
    BY <1>0, <1>3 DEF LaunchCanceled, LaunchFails
  <2>2. QED
    BY <1>0, <2>1
<1>4. CASE AdminStops \/ ProcessExits
  BY <1>0, <1>4 DEF AdminStops, ProcessExits, BeginStop, CutOff
<1>5. CASE StopAfterLaunch \/ PollFails
  BY <1>0, <1>5 DEF StopAfterLaunch, PollFails, CutOff
<1>6. CASE StopEnds \/ ResetStage \/ SessionChanges
  BY <1>0, <1>6 DEF StopEnds, ResetStage, SessionChanges, inputVars
<1>7. CASE Timer
  BY <1>0, <1>7 DEF Timer, TuiTick
<1>8. CASE ClearDraft
  BY <1>0, <1>8 DEF ClearDraft
<1>9. CASE PollReads \/ PollRuns \/ PollResumes \/ HookRead
  BY <1>0, <1>9 DEF PollReads, PollRuns, PollResumes, HookRead, inputVars
<1>10. CASE HookBeginsTurn
  BY <1>0, <1>10 DEF HookBeginsTurn
<1>11. CASE PollEnds
  BY <1>0, <1>11 DEF PollEnds
<1>12. CASE StartHook \/ StopHook \/ EnterIgnored
  BY <1>0, <1>12 DEF StartHook, StopHook, EnterIgnored, inputVars
<1>13. CASE TimePasses \/ UNCHANGED vars
  BY <1>0, <1>13 DEF TimePasses, vars, tuiVars, inputVars
<1>14. ASSUME NEW s \in Session, NEW enter \in BOOLEAN, NEW public \in BOOLEAN,
              StartWrite(s, enter, public)
       PROVE  Inputs'
  BY <1>0, <1>14 DEF StartWrite, BeginLaunch
<1>15. ASSUME NEW s \in Session, RaiseHand(s) \/ GiveBack(s)
       PROVE  Inputs'
  BY <1>0, <1>15 DEF RaiseHand, GiveBack, TuiTick
<1>16. ASSUME NEW s \in Session, RenameStageFile(s) \/ SendEnter(s)
       PROVE  Inputs'
  <2>1. /\ UNCHANGED <<inputOwner, token, lifecycleTurn, previousSpeaker>>
        /\ publicSubmission' \in {publicSubmission, FALSE}
    BY <1>0, <1>16 DEF RenameStageFile, SendEnter, Rejected
  <2>2. QED
    BY <1>0, <2>1
<1>17. ASSUME NEW s \in Session, CommitWrite(s)
       PROVE  Inputs'
  <2>1. /\ UNCHANGED <<lifecycleTurn, previousSpeaker>>
        /\ inputOwner' \in {inputOwner, s}
        /\ publicSubmission' \in {publicSubmission, FALSE}
    BY <1>0, <1>17 DEF CommitWrite, Rejected
  <2>2. token' \in Token \cup {NoToken}
    BY <1>0, <1>17, TokenDrawn
  <2>3. QED
    BY <1>0, <2>1, <2>2
<1>18. QED
  BY <1>1, <1>2, <1>3, <1>4, <1>5, <1>6, <1>7, <1>8, <1>9, <1>10, <1>11, <1>12, <1>13,
     <1>14, <1>15, <1>16, <1>17, TuiCases

\* What the container holds.
LEMMA AgentTypes ==
  ASSUME TypeOK, [Next]_vars
  PROVE  /\ stageFile' \in Token \cup {NoToken}
         /\ agent' \in {"idle", "prompted", "running"}
         /\ context' \in Token \cup {NoToken}
         /\ draft' \subseteq Session
<1> DEFINE Holds == /\ stageFile \in Token \cup {NoToken}
                    /\ agent \in {"idle", "prompted", "running"}
                    /\ context \in Token \cup {NoToken}
                    /\ draft \subseteq Session
<1>0. Holds
  BY DEF TypeOK
<1>1. CASE Launch \/ LaunchSucceeds \/ LaunchCanceled \/ LaunchFails
  BY <1>0, <1>1 DEF Launch, BeginLaunch, LaunchSucceeds, EmptyDraft, LaunchCanceled,
     LaunchFails, agentVars
<1>2. CASE AdminStops \/ StopAfterLaunch \/ PollFails
  BY <1>0, <1>2 DEF AdminStops, StopAfterLaunch, PollFails, agentVars
<1>3. CASE StopEnds \/ ProcessExits
  BY <1>0, <1>3 DEF StopEnds, ProcessExits, EmptyDraft
<1>4. CASE ResetStage \/ Timer \/ SessionChanges
  BY <1>0, <1>4 DEF ResetStage, Timer, SessionChanges, agentVars
<1>5. CASE ClearDraft
  BY <1>0, <1>5 DEF ClearDraft, EmptyDraft
<1>6. CASE PollReads \/ PollRuns \/ PollResumes \/ HookBeginsTurn \/ HookRead \/ PollEnds
  BY <1>0, <1>6 DEF PollReads, PollRuns, PollResumes, HookBeginsTurn, HookRead, PollEnds,
     agentVars
<1>7. CASE StartHook \/ StopHook \/ EnterIgnored
  BY <1>0, <1>7 DEF StartHook, StopHook, EnterIgnored
<1>8. CASE TimePasses \/ UNCHANGED vars
  BY <1>0, <1>8 DEF TimePasses, vars, tuiVars, agentVars
<1>9. ASSUME NEW s \in Session, NEW enter \in BOOLEAN, NEW public \in BOOLEAN,
             StartWrite(s, enter, public)
      PROVE  Holds'
  BY <1>0, <1>9 DEF StartWrite, BeginLaunch
<1>10. ASSUME NEW s \in Session, RaiseHand(s) \/ GiveBack(s)
       PROVE  Holds'
  BY <1>0, <1>10 DEF RaiseHand, GiveBack, agentVars
<1>11. ASSUME NEW s \in Session, RenameStageFile(s)
       PROVE  Holds'
  <2>1. writes[s].tok \in Token \cup {NoToken}
    BY DEF TypeOK, Write
  <2>2. QED
    BY <1>0, <1>11, <2>1 DEF RenameStageFile
<1>12. ASSUME NEW s \in Session, SendEnter(s)
       PROVE  Holds'
  BY <1>0, <1>12 DEF SendEnter, EmptyDraft
<1>13. ASSUME NEW s \in Session, CommitWrite(s)
       PROVE  Holds'
  BY <1>0, <1>13 DEF CommitWrite
<1>14. QED
  BY <1>1, <1>2, <1>3, <1>4, <1>5, <1>6, <1>7, <1>8, <1>9, <1>10, <1>11, <1>12, <1>13,
     TuiCases

\* The mode, and the history the properties speak about.
LEMMA HistoryTypes ==
  ASSUME TypeOK, FloorTypeOK', [Next]_vars
  PROVE  /\ publicMode' \in BOOLEAN
         /\ submitter' \in [Token -> Session \cup {NoOne}]
         /\ begunWith' \in Token \cup {NoToken}
         /\ abandoned' \subseteq Session
<1> DEFINE History == /\ publicMode \in BOOLEAN
                      /\ submitter \in [Token -> Session \cup {NoOne}]
                      /\ begunWith \in Token \cup {NoToken}
                      /\ abandoned \subseteq Session
<1>0. History /\ draft \subseteq Session /\ speaker \in Session \cup {NoOne}
  BY DEF TypeOK, FloorTypeOK
<1>1. CASE Launch \/ LaunchSucceeds \/ LaunchCanceled \/ LaunchFails
  BY <1>0, <1>1 DEF Launch, LaunchSucceeds, EmptyDraft, LaunchCanceled, LaunchFails,
     otherVars, historyVars
<1>2. CASE AdminStops \/ StopAfterLaunch \/ PollFails
  BY <1>0, <1>2 DEF AdminStops, StopAfterLaunch, PollFails, otherVars, historyVars
<1>3. CASE StopEnds \/ ProcessExits
  BY <1>0, <1>3 DEF StopEnds, ProcessExits, EmptyDraft
<1>4. CASE ResetStage \/ Timer \/ SessionChanges
  BY <1>0, <1>4 DEF ResetStage, Timer, SessionChanges, Abandon
<1>5. CASE ClearDraft
  BY <1>0, <1>5 DEF ClearDraft, EmptyDraft
<1>6. CASE PollReads \/ PollRuns \/ PollResumes \/ HookRead \/ PollEnds
  BY <1>0, <1>6 DEF PollReads, PollRuns, PollResumes, HookRead, PollEnds, otherVars,
     historyVars
<1>7. CASE HookBeginsTurn
  <2>1. poll.batch \in Seq(Hook) /\ poll.batch # <<>>
    BY <1>7 DEF HookBeginsTurn, TypeOK, Poll
  <2>2. NextHook.tok \in Token
    BY <2>1, HooksHaveTokens DEF NextHook
  <2>3. QED
    BY <1>0, <1>7, <2>2 DEF HookBeginsTurn
<1>8. CASE StartHook \/ StopHook \/ EnterIgnored
  BY <1>0, <1>8 DEF StartHook, StopHook, EnterIgnored, otherVars, historyVars
<1>9. CASE TimePasses \/ UNCHANGED vars
  BY <1>0, <1>9 DEF TimePasses, vars, tuiVars, otherVars, historyVars
<1>10. ASSUME NEW s \in Session, NEW enter \in BOOLEAN, NEW public \in BOOLEAN,
              StartWrite(s, enter, public)
       PROVE  History'
  BY <1>0, <1>10 DEF StartWrite, otherVars, historyVars
<1>11. ASSUME NEW s \in Session, RaiseHand(s) \/ GiveBack(s)
       PROVE  History'
  BY <1>0, <1>11 DEF RaiseHand, GiveBack, Abandon
<1>12. ASSUME NEW s \in Session, RenameStageFile(s) \/ SendEnter(s)
       PROVE  History'
  BY <1>0, <1>12 DEF RenameStageFile, SendEnter, EmptyDraft, otherVars, historyVars
<1>13. ASSUME NEW s \in Session, CommitWrite(s)
       PROVE  History'
  <2>1. UNCHANGED <<publicMode, begunWith, abandoned>>
    BY <1>13 DEF CommitWrite
  <2>2. submitter' \in [Token -> Session \cup {NoOne}]
    BY <1>0, <1>13, TokenDrawn
  <2>3. QED
    BY <1>0, <2>1, <2>2
<1>14. QED
  BY <1>1, <1>2, <1>3, <1>4, <1>5, <1>6, <1>7, <1>8, <1>9, <1>10, <1>11, <1>12, <1>13,
     TuiCases

\* All the types, once the floor's are known.
LEMMA TypesNext ==
  ASSUME TypeOK, FloorTypeOK', [Next]_vars
  PROVE  TypeOK'
<1>1. clears' \in Seq(BOOLEAN) /\ Len(clears') <= MaxClears
  BY ClearsNext, BoundAssumption
<1>2. journal' \in Seq(Hook) /\ Len(journal') <= MaxJournal
  BY JournalNext
<1>3. poll' \in Poll /\ writes' \in [Session -> Write]
  BY PollNext, WritesNext
<1>4. QED
  BY <1>1, <1>2, <1>3, ServerTypes, InputTypes, AgentTypes, HistoryTypes DEF TypeOK

-------------------------------------------------------------------------------
(* Theorems.                                                                *)

\* The invariant is inductive.
LEMMA TuiIInvNext == TuiIInv /\ [Next]_vars => TuiIInv' /\ [FloorNext]_floorVars
<1> SUFFICES ASSUME TuiIInv, [Next]_vars
             PROVE  TuiIInv' /\ [FloorNext]_floorVars
  OBVIOUS
<1>1. /\ FloorInv /\ TypeOK /\ JobFenced /\ DrawnTokens /\ LaunchesAlone
      /\ OrphansMatchNothing
  BY DEF TuiIInv
<1>2. [FloorNext]_floorVars
  BY <1>1, FloorSteps DEF TypeOK
<1>3. FloorInv'
  BY <1>1, <1>2, FloorInvNext
<1>4. TypeOK'
  BY <1>1, <1>3, TypesNext DEF FloorInv
<1>5. JobFenced' /\ DrawnTokens' /\ LaunchesAlone' /\ OrphansMatchNothing'
  BY <1>1, JobFencedNext, DrawnTokensNext, LaunchesAloneNext, OrphansNext
<1>6. QED
  BY <1>2, <1>3, <1>4, <1>5 DEF TuiIInv

\* In every run of the session, whatever stops, fails, expires or is typed.
THEOREM TuiIInvHolds == Spec => []TuiIInv
<1>1. TuiIInv /\ [Next]_vars => TuiIInv'
  BY TuiIInvNext
<1>2. QED
  BY <1>1, TuiInitOK, PTL DEF Spec

\* SessionInv for every number of sessions, tokens, inputs and hooks: the job of
\* the session is the stage's job, under the token of the start hook that began
\* it, and a job that lost its session has a stop under way that will end it.
THEOREM SessionInvHolds == Spec => []SessionInv
<1>1. TuiIInv => SessionInv
  BY DEF TuiIInv, SessionInv
<1>2. QED
  BY <1>1, TuiIInvHolds, PTL

\* The session keeps the promises of the floor it drives: its steps, whatever they do
\* besides, are operations of the floor, so that no input, hook, stop or reset of the
\* session takes a live lease from its speaker.
THEOREM SessionKeepsLeases == Spec => LeaseKept
<1>1. TuiIInv /\ [Next]_vars =>
        [\A s \in Session :
           speaker = s /\ ~Lapsed /\ speaker' # s =>
             \/ speaker' = NoOne /\ turn' # NoTurn /\ owner' \in admins \cup {s}
             \/ s \notin participants'
             \/ \E a \in (admins \cup {s}) \cap participants : Release(a)
             \/ Reset]_floorVars
  BY TuiIInvNext, LeaseKeptNext DEF TuiIInv
<1>2. QED
  BY <1>1, TuiIInvHolds, PTL DEF Spec, LeaseKept

\* Only CommitWrite puts keys in the input line, and only SendEnter lets an Enter go.
LEMMA OnlyInputTypes ==
  ASSUME TypeOK, [Next]_vars, NEW s \in Session
  PROVE  /\ s \in draft' \ draft => Controls(s)
         /\ writes[s].at = "send" /\ writes'[s].at # "send"
              /\ (agent' # agent \/ draft' # draft) => Controls(s)
<1>0. writes \in [Session -> Write] /\ Len(clears) \in 0..MaxClears
  BY DEF TypeOK
<1> DEFINE Typed == /\ s \in draft' \ draft => Controls(s)
                    /\ writes[s].at = "send" /\ writes'[s].at # "send"
                         /\ (agent' # agent \/ draft' # draft) => Controls(s)
<1>1. CASE LaunchSucceeds \/ LaunchCanceled \/ LaunchFails
  <2>1. draft' \subseteq draft
    BY <1>1 DEF LaunchSucceeds, EmptyDraft, LaunchCanceled, LaunchFails, agentVars
  <2>2. writes' \in {Ensured, EnsureFailed}
    BY <1>1 DEF LaunchSucceeds, LaunchCanceled, LaunchFails
  <2>3. writes[s].at = "send" => writes'[s] = writes[s]
    BY <2>2 DEF Ensured, EnsureFailed
  <2>4. QED
    BY <2>1, <2>3
<1>2. CASE ClearDraft
  <2>1. draft' \subseteq draft
    BY <1>2 DEF ClearDraft, EmptyDraft
  <2>2. writes'[s] = IF writes[s].ahead > 0 THEN [writes[s] EXCEPT !.ahead = @ - 1]
                                             ELSE writes[s]
    BY <1>2 DEF ClearDraft
  <2>3. writes'[s].at = writes[s].at
    BY <1>0, <2>2, Advanced
  <2>4. QED
    BY <2>1, <2>3
<1>3. CASE \/ Launch \/ AdminStops \/ StopAfterLaunch \/ StopEnds \/ ProcessExits \/ PollFails
           \/ ResetStage \/ Timer \/ SessionChanges
  <2>1. writes' = writes /\ draft' \subseteq draft
    BY <1>3 DEF Launch, AdminStops, StopAfterLaunch, StopEnds, ProcessExits, PollFails,
       ResetStage, Timer, SessionChanges, EmptyDraft, inputVars, agentVars
  <2>2. QED
    BY <2>1
<1>4. CASE \/ PollReads \/ PollRuns \/ PollResumes \/ HookBeginsTurn \/ HookRead \/ PollEnds
           \/ StartHook \/ StopHook \/ EnterIgnored \/ TimePasses \/ UNCHANGED vars
  <2>1. writes' = writes /\ draft' = draft
    BY <1>4 DEF PollReads, PollRuns, PollResumes, HookBeginsTurn, HookRead, PollEnds,
       StartHook, StopHook, EnterIgnored, TimePasses, vars, tuiVars, inputVars, agentVars
  <2>2. QED
    BY <2>1
<1>5. ASSUME NEW r \in Session, NEW enter \in BOOLEAN, NEW public \in BOOLEAN,
             StartWrite(r, enter, public)
      PROVE  Typed
  BY <1>5 DEF StartWrite
<1>6. ASSUME NEW r \in Session, RaiseHand(r) \/ GiveBack(r)
      PROVE  Typed
  BY <1>6 DEF RaiseHand, GiveBack, agentVars
<1>7. ASSUME NEW r \in Session, RenameStageFile(r)
      PROVE  Typed
  BY <1>7 DEF RenameStageFile
<1>8. ASSUME NEW r \in Session, SendEnter(r)
      PROVE  Typed
  <2>1. draft' \subseteq draft
    BY <1>8 DEF SendEnter, EmptyDraft
  <2>2. CASE r # s
    <3>1. writes'[s] = writes[s]
      BY <1>0, <1>8, <2>2 DEF SendEnter, Rejected
    <3>2. QED
      BY <2>1, <3>1
  <2>3. CASE r = s
    BY <1>8, <2>1, <2>3 DEF SendEnter, StillControls
  <2>4. QED
    BY <2>2, <2>3
<1>9. ASSUME NEW r \in Session, CommitWrite(r)
      PROVE  Typed
  <2>1. writes[r].at = "clearing"
    BY <1>9 DEF CommitWrite
  <2>2. writes[s].at = "send" => writes'[s] = writes[s]
    BY <1>0, <1>9, <2>1 DEF CommitWrite, Rejected
  <2>3. s \in draft' \ draft => r = s /\ StillControls(r)
    BY <1>9 DEF CommitWrite
  <2>4. QED
    BY <2>2, <2>3 DEF StillControls
<1>10. QED
  BY <1>1, <1>2, <1>3, <1>4, <1>5, <1>6, <1>7, <1>8, <1>9, TuiCases

\* However many awaits lie between an input's first check and its last, the keys
\* and the Enter that reach the CLI are those of a session that drives it then.
THEOREM OnlyDriverTypesHolds == Spec => OnlyDriverTypes
<1>1. TuiIInv /\ [Next]_vars =>
        [\A s \in Session :
           /\ s \in draft' \ draft => Controls(s)
           /\ writes[s].at = "send" /\ writes'[s].at # "send"
                /\ (agent' # agent \/ draft' # draft) => Controls(s)]_vars
  BY OnlyInputTypes DEF TuiIInv
<1>2. QED
  BY <1>1, TuiIInvHolds, PTL DEF Spec, OnlyDriverTypes

\* Whatever the server does for the terminal, its awaits, faults and hooks
\* included, control passes from one session to another only the way
\* FloorControl says: every step of the session is a step of it, or none.  (Its
\* initial state is not claimed: these behaviours begin with Admins logged in.)
THEOREM SessionKeepsControl == Spec => [][Control!Next]_(Control!vars)
<1>1. TuiIInv => FloorInv
  BY DEF TuiIInv, FloorInv
<1>2. TuiIInv /\ [Next]_vars => [Control!Next]_(Control!vars)
  BY <1>1, TuiIInvNext, FloorStepRefines
<1>3. QED
  BY <1>2, TuiIInvHolds, PTL DEF Spec

-------------------------------------------------------------------------------
(* What a lease leaves in the input line.                                   *)

\* While the session runs, the timer has seen the present speaker; and as long as something is
\* left of an older one, a clearing that counts is queued, and no input has got past it.
Erasing ==
  process =>
    /\ speaker \in {NoOne, previousSpeaker}
    /\ \A i \in DOMAIN clears : clears[i]
    /\ abandoned # {} => clears # <<>> /\ \A s \in Session : ~Ready(s)

\* Leases end where the timer looks at once, and while no input is ready to go on.
LEMMA LeaseCases ==
  ASSUME [Next]_vars, Timer \/ \E s \in Session : RaiseHand(s) \/ GiveBack(s),
         ~(\/ HookBeginsTurn \/ HookRead \/ PollEnds \/ PollFails
           \/ StartHook \/ StopHook \/ EnterIgnored \/ TimePasses \/ UNCHANGED vars
           \/ \E s \in Session : CommitWrite(s))
  PROVE  \A s \in Session : ~Ready(s)
  BY DEF Next, Continuation, AgentNext, Occupied

\* What leaves the queue of clearings alone and makes no input ready keeps it.
LEMMA ErasingStays ==
  ASSUME Erasing, process' => process, speaker' \in {speaker, NoOne},
         previousSpeaker' = previousSpeaker, clears' = clears, abandoned' \in {abandoned, {}},
         \A s \in Session : Ready(s)' => Ready(s)
  PROVE  Erasing'
  BY DEF Erasing

\* A lease that ends without a job has its clearing queued by the same call.
LEMMA LeaseEndsErasing ==
  ASSUME TypeOK, Erasing, TuiTick, Abandon, UNCHANGED <<process, writes>>,
         \A s \in Session : ~Ready(s)
  PROVE  Erasing'
<1> SUFFICES ASSUME process
             PROVE  /\ speaker' \in {NoOne, previousSpeaker'}
                    /\ \A i \in DOMAIN clears' : clears'[i]
                    /\ abandoned' # {} => clears' # <<>>
  BY DEF Erasing, Ready
<1>1. speaker \in {NoOne, previousSpeaker} /\ \A i \in DOMAIN clears : clears[i]
  BY DEF Erasing
<1>2. clears \in Seq(BOOLEAN) /\ clears' \in {clears, Append(clears, TRUE)}
  BY DEF TypeOK, TuiTick
<1>3. \A i \in DOMAIN clears' : clears'[i]
  <2>1. CASE clears' = clears
    BY <1>1, <2>1
  <2>2. CASE clears' = Append(clears, TRUE)
    <3> TAKE i \in DOMAIN clears'
    <3>1. i \in 1..Len(clears) + 1
      BY <1>2, <2>2
    <3>2. CASE i = Len(clears) + 1
      BY <1>2, <2>2, <3>2
    <3>3. CASE i \in 1..Len(clears)
      BY <1>1, <1>2, <2>2, <3>3
    <3>4. QED
      BY <1>2, <3>1, <3>2, <3>3
  <2>3. QED
    BY <1>2, <2>1, <2>2
<1>4. ASSUME abandoned' # {}
      PROVE  clears' # <<>>
  <2>1. CASE clears' = Append(clears, TRUE)
    <3>1. Len(clears') = Len(clears) + 1 /\ Len(clears) \in Nat
      BY <1>2, <2>1
    <3>2. QED
      BY <3>1
  <2>2. CASE clears' # Append(clears, TRUE)
    <3>1. clears' = clears /\ ~(previousSpeaker # NoOne /\ speaker' # previousSpeaker
                                  /\ turn' = NoTurn)
      BY <2>2 DEF TuiTick
    <3>2. abandoned' = abandoned
      BY <1>1, <3>1 DEF Abandon
    <3>3. QED
      BY <1>4, <3>1, <3>2 DEF Erasing
  <2>3. QED
    BY <2>1, <2>2
<1>5. QED
  BY <1>3, <1>4 DEF TuiTick

LEMMA ErasingNext ==
  ASSUME TypeOK, LaunchesAlone, Erasing, [Next]_vars
  PROVE  Erasing'
<1>0. /\ writes \in [Session -> Write] /\ clears \in Seq(BOOLEAN) /\ Len(clears) \in 0..MaxClears
      /\ process \in BOOLEAN
  BY DEF TypeOK
<1>1. CASE ~process'
  BY <1>1 DEF Erasing
<1>2. CASE LaunchSucceeds
  BY <1>2 DEF LaunchSucceeds, TimerFired, EmptyDraft, floorVars, Erasing
<1>3. CASE \/ Launch \/ LaunchCanceled \/ LaunchFails \/ StopAfterLaunch \/ ProcessExits
           \/ ResetStage
  <2>1. ~process'
    BY <1>3 DEF Launch, LaunchCanceled, LaunchFails, StopAfterLaunch, ProcessExits, ResetStage,
       BeginStop, CutOff, LaunchesAlone, serverVars
  <2>2. QED
    BY <1>1, <2>1
<1>4. CASE AdminStops
  <2>1. CASE stopping = "no"
    <3>1. ~process'
      BY <1>4, <2>1 DEF AdminStops, BeginStop, CutOff, LaunchesAlone
    <3>2. QED
      BY <1>1, <3>1
  <2>2. CASE stopping # "no"
    BY <1>4, <2>2, ErasingStays DEF AdminStops, otherVars, historyVars, floorVars, Ready
  <2>3. QED
    BY <2>1, <2>2
<1>5. CASE StopEnds
  <2>1. UNCHANGED <<process, writes, clears, previousSpeaker>>
    BY <1>5 DEF StopEnds, inputVars
  <2>2. speaker' = speaker
    BY <1>5 DEF StopEnds, Finish, floorVars
  <2>3. abandoned' \in {abandoned, {}}
    BY <1>5 DEF StopEnds, EmptyDraft
  <2>4. QED
    BY <2>1, <2>2, <2>3, ErasingStays DEF Ready
<1>6. ASSUME Timer \/ \E s \in Session : RaiseHand(s) \/ GiveBack(s),
             \A s \in Session : ~Ready(s)
      PROVE  Erasing'
  <2>1. TuiTick /\ Abandon /\ UNCHANGED <<process, writes>>
    BY <1>6 DEF Timer, RaiseHand, GiveBack, serverVars
  <2>2. QED
    BY <1>6, <2>1, LeaseEndsErasing
<1>7. CASE SessionChanges
  <2>1. UNCHANGED <<speaker, process, writes, clears, previousSpeaker>>
    BY <1>7 DEF SessionChanges, Leave, AdminLogout, serverVars, inputVars
  <2>2. abandoned' = abandoned
    BY <1>7, <2>1 DEF SessionChanges, Abandon
  <2>3. QED
    BY <2>1, <2>2, ErasingStays DEF Ready
<1>8. CASE ClearDraft
  <2> SUFFICES ASSUME process
               PROVE  Erasing'
    BY <1>1, <1>8 DEF ClearDraft, serverVars
  <2>0. clears # <<>> /\ clears' = Tail(clears) /\ \A i \in DOMAIN clears : clears[i]
    BY <1>8 DEF ClearDraft, Erasing
  <2>1. Head(clears)
    <3>1. Head(clears) = clears[1] /\ 1 \in DOMAIN clears
      BY <1>0, <2>0
    <3>2. QED
      BY <2>0, <3>1
  <2>2. abandoned' = {} /\ UNCHANGED <<speaker, previousSpeaker>>
    BY <1>8, <2>1 DEF ClearDraft, EmptyDraft, floorVars
  <2>3. \A i \in DOMAIN clears' : clears'[i]
    <3> TAKE i \in DOMAIN clears'
    <3>1. clears'[i] = clears[i + 1] /\ i + 1 \in DOMAIN clears
      BY <1>0, <2>0
    <3>2. QED
      BY <2>0, <3>1
  <2>4. QED
    BY <2>2, <2>3 DEF Erasing
<1>9. CASE \/ PollReads \/ PollRuns \/ PollResumes \/ HookRead \/ PollEnds
           \/ StartHook \/ StopHook \/ EnterIgnored \/ TimePasses \/ UNCHANGED vars
  <2>1. UNCHANGED <<process, writes, clears, previousSpeaker, abandoned>>
    BY <1>9 DEF PollReads, PollRuns, PollResumes, HookRead, PollEnds, StartHook, StopHook,
       EnterIgnored, TimePasses, vars, tuiVars, serverVars, inputVars, otherVars, historyVars
  <2>2. speaker' = speaker
    BY <1>9 DEF PollReads, PollRuns, PollResumes, HookRead, PollEnds, StartHook, StopHook,
       EnterIgnored, TimePasses, vars, floorVars, Finish, Elapse
  <2>3. QED
    BY <2>1, <2>2, ErasingStays DEF Ready
<1>10. CASE HookBeginsTurn
  <2>1. UNCHANGED <<process, writes, clears, previousSpeaker, abandoned>> /\ speaker' = NoOne
    BY <1>10 DEF HookBeginsTurn, serverVars, BeginTui, StartTurn
  <2>2. QED
    BY <2>1, ErasingStays DEF Ready
<1>11. CASE PollFails
  <2>1. CASE poll.current
    <3>1. ~process'
      BY <1>11, <2>1 DEF PollFails, CutOff
    <3>2. QED
      BY <1>1, <3>1
  <2>2. CASE ~poll.current
    BY <1>11, <2>2, ErasingStays DEF PollFails, otherVars, historyVars, floorVars, Ready
  <2>3. QED
    BY <2>1, <2>2
<1>12. ASSUME NEW s \in Session, NEW enter \in BOOLEAN, NEW public \in BOOLEAN,
              StartWrite(s, enter, public)
       PROVE  Erasing'
  <2> SUFFICES ASSUME process
               PROVE  Erasing'
    BY <1>1, <1>12 DEF StartWrite
  <2>1. UNCHANGED <<speaker, process, clears, previousSpeaker, abandoned>>
    BY <1>12 DEF StartWrite, floorVars, otherVars, historyVars
  <2>2. writes'[s].ahead = Len(clears) /\ \A r \in Session \ {s} : writes'[r] = writes[r]
    BY <1>0, <1>12 DEF StartWrite, Idle
  <2>3. abandoned # {} => \A r \in Session : ~Ready(r)'
    BY <1>0, <2>2 DEF Erasing, Ready
  <2>4. QED
    BY <2>1, <2>3 DEF Erasing
<1>13. ASSUME NEW s \in Session, RenameStageFile(s) \/ SendEnter(s)
       PROVE  Erasing'
  <2>1. UNCHANGED <<speaker, process, clears, previousSpeaker>> /\ abandoned' \in {abandoned, {}}
    BY <1>13 DEF RenameStageFile, SendEnter, EmptyDraft, floorVars, serverVars, otherVars,
       historyVars
  <2>2. \A r \in Session \ {s} : writes'[r] = writes[r]
    BY <1>0, <1>13 DEF RenameStageFile, SendEnter, Rejected
  <2>3. writes'[s].at # "clearing"
    BY <1>0, <1>13 DEF RenameStageFile, SendEnter, Rejected, Idle, Write
  <2>4. QED
    BY <2>1, <2>2, <2>3, ErasingStays DEF Ready
<1>14. ASSUME NEW s \in Session, CommitWrite(s)
       PROVE  Erasing'
  <2>1. UNCHANGED <<process, clears, previousSpeaker, abandoned>>
    BY <1>14 DEF CommitWrite, serverVars
  <2>2. speaker' \in {speaker, NoOne}
    BY <1>14 DEF CommitWrite, HoldTuiSubmission, SpeakerNow, floorVars
  <2>3. \A r \in Session \ {s} : writes'[r] = writes[r]
    BY <1>0, <1>14 DEF CommitWrite, Rejected
  <2>4. writes'[s].at # "clearing"
    <3>1. CASE StillControls(s) /\ writes[s].enter
      <4>1. writes' = [writes EXCEPT ![s] = [@ EXCEPT !.at = "file", !.tok = token']]
        BY <1>14, <3>1 DEF CommitWrite
      <4>2. QED
        BY <1>0, <4>1 DEF Write
    <3>2. CASE ~(StillControls(s) /\ writes[s].enter)
      <4>1. writes' = [writes EXCEPT ![s] = Idle]
        BY <1>14, <3>2 DEF CommitWrite, Rejected
      <4>2. QED
        BY <1>0, <4>1 DEF Idle
    <3>3. QED
      BY <3>1, <3>2
  <2>5. QED
    BY <2>1, <2>2, <2>3, <2>4, ErasingStays DEF Ready
<1>15. QED
  BY <1>2, <1>3, <1>4, <1>5, <1>6, <1>7, <1>8, <1>9, <1>10, <1>11, <1>12, <1>13, <1>14,
     LeaseCases, TuiCases

\* Only an input that is ready puts keys in the line, and only of a session that runs.
LEMMA KeysComeWhenReady ==
  ASSUME TypeOK, [Next]_vars, draft' \ draft # {}
  PROVE  process /\ \E s \in Session : Ready(s)
<1>1. CASE \/ Launch \/ LaunchSucceeds \/ LaunchCanceled \/ LaunchFails \/ ClearDraft
           \/ AdminStops \/ StopAfterLaunch \/ StopEnds \/ ProcessExits \/ PollFails
           \/ ResetStage \/ Timer \/ SessionChanges
           \/ \E s \in Session : RaiseHand(s) \/ GiveBack(s) \/ RenameStageFile(s) \/ SendEnter(s)
  BY <1>1 DEF Launch, LaunchSucceeds, LaunchCanceled, LaunchFails, ClearDraft, AdminStops,
     StopAfterLaunch, StopEnds, ProcessExits, PollFails, ResetStage, Timer, SessionChanges,
     RaiseHand, GiveBack, RenameStageFile, SendEnter, EmptyDraft, agentVars
<1>2. CASE \/ PollReads \/ PollRuns \/ PollResumes \/ HookBeginsTurn \/ HookRead \/ PollEnds
           \/ StartHook \/ StopHook \/ EnterIgnored \/ TimePasses \/ UNCHANGED vars
           \/ \E s \in Session, enter, public \in BOOLEAN : StartWrite(s, enter, public)
  BY <1>2 DEF PollReads, PollRuns, PollResumes, HookBeginsTurn, HookRead, PollEnds,
     StartHook, StopHook, EnterIgnored, TimePasses, StartWrite, vars, tuiVars, agentVars
<1>3. CASE \E s \in Session : CommitWrite(s)
  BY <1>3 DEF CommitWrite, Ready
<1>4. QED
  BY <1>1, <1>2, <1>3, TuiCases

\* However leases, launches, stops and inputs with their awaits pass each other, no key enters the
\* line while something is left in it of a lease that was returned or ran out (tui.tick() and
\* writeInput()).
THEOREM ReturnedDraftErasedHolds == Spec => ReturnedDraftErased
<1>1. TuiInit => Erasing
  BY DEF TuiInit, Erasing
<1>2. TuiIInv /\ Erasing /\ [Next]_vars => Erasing'
  BY ErasingNext DEF TuiIInv
<1>3. TuiIInv /\ Erasing /\ [Next]_vars => [draft' \ draft # {} => abandoned = {}]_vars
  BY KeysComeWhenReady DEF TuiIInv, Erasing
<1>4. QED
  BY <1>1, <1>2, <1>3, TuiIInvHolds, PTL DEF Spec, ReturnedDraftErased
===============================================================================
