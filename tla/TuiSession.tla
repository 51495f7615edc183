------------------------------- MODULE TuiSession -------------------------------
(***************************************************************************)
(* The long-lived terminal session of one project (server/tui-session.ts)  *)
(* on top of the floor: one CLI container that every driver types into,    *)
(* the tokens that fence its lifecycle hooks, the poll that turns hooks    *)
(* into jobs, and launch, stop and failure.                                *)
(*                                                                         *)
(* JavaScript runs one callback to its next await, so an action is one     *)
(* such stretch; what other callbacks may do in between is what the model  *)
(* interleaves.  A promise that is already settled hands over to nobody    *)
(* else (Occupied, below).  The code compares generation numbers to recognise work    *)
(* begun before the latest launch or stop; the model keeps the outcome of  *)
(* that comparison: every piece of work in flight carries a flag that      *)
(* NewGeneration clears.                                                   *)
(*                                                                         *)
(* The CLI and its hooks (agent/tui-hooks.mjs) run in the container at     *)
(* their own pace.  Hooks read the token from the bridge's stage.json and  *)
(* append to its journal.                                                  *)
(***************************************************************************)
EXTENDS StageFloor, Sequences

CONSTANTS
  Token,       \* the submission tokens (randomUUID)
  NoToken,
  Modes,       \* bound: whether the server may run in public mode, or in private
  Admins,      \* the administrators once everybody has joined
  Faults,      \* bound: the interruptions that may happen, see Fault
  MaxWrites,   \* bound: inputs in flight
  Departing,   \* bound: the sessions that may expire or log out
  MaxJournal,  \* bound: hook events not yet handled
  MaxClears    \* bound: queued draft clearings

ASSUME TokenAssumption == NoToken \notin Token
ASSUME ModeAssumption == Modes \subseteq BOOLEAN
ASSUME SessionsAssumption == Admins \subseteq Session /\ Departing \subseteq Session
ASSUME BoundAssumption == MaxWrites \in Nat /\ MaxJournal \in Nat /\ MaxClears \in Nat

\* "stop": an administrator stops the session; "launch": Docker refuses a launch;
\* "exit": the CLI exits by itself, or its terminal refuses what is written to it; "disk": a
\* file cannot be written or read, or the stage refuses what the poll has read;
\* "unsafe": Docker cannot tell whether a container is gone.
Fault == {"stop", "launch", "exit", "disk", "unsafe"}

\* Each job is begun under a token of its own, so that ids of jobs never run out.
ASSUME TokensAssumption ==
  IsFiniteSet(Token) /\ IsFiniteSet(TurnId) /\ Cardinality(Token) <= Cardinality(TurnId)

ASSUME FaultAssumption == Faults \subseteq Fault

VARIABLES
  container,    \* external: "none", "booting" or "up", the CLI's container
  process,      \* this.process is set
  launching,    \* "no", "current" or "stale": this.starting and its generation
  stopping,     \* this.stopping is set
  adminStop,    \* the job runner.stop() captured, NoTurn, or "none"
  failing,      \* fail() waits for stop()
  unsafe,       \* this.unsafe: a container may have survived; never launch again
  inputOwner,   \* this.inputOwner
  token,        \* this.turnToken
  lifecycleTurn,     \* this.lifecycleTurn
  publicSubmission,  \* this.publicSubmission
  previousSpeaker,   \* this.previousSpeaker
  clears,       \* this.clearing: queued clearings, TRUE while of this generation
  writes,       \* the writeInput call each session has in flight
  poll          \* the polling callback: where it is and what it still holds

VARIABLES       \* the bridge and the CLI in the container
  stageFile,    \* the token in stage.json
  journal,      \* lifecycle.ndjson, the part the server has not read
  agent,        \* "idle", "prompted" or "running"
  context,      \* the token lifecycle-<conversation>.json remembers
  draft         \* the sessions whose keys are in the CLI's input line

VARIABLES
  publicMode    \* fixed: participants submit prompts instead of typing keys

VARIABLES       \* history, for the properties only
  submitter,    \* the session whose Enter drew each token
  begunWith,    \* the token of the start hook that began the running job
  abandoned     \* authors in the draft whose lease was seen to be returned or to run out

serverVars == <<process, launching, stopping, adminStop, failing, unsafe>>
inputVars == <<inputOwner, token, lifecycleTurn, publicSubmission,
               previousSpeaker, clears, writes>>
agentVars == <<stageFile, journal, agent, context, draft>>
historyVars == <<submitter, begunWith, abandoned>>
otherVars == <<publicMode, historyVars>>
tuiVars == <<container, serverVars, inputVars, poll, agentVars, otherVars>>
vars == <<floorVars, tuiVars>>

Idle == [at |-> "idle", enter |-> FALSE, public |-> FALSE, tok |-> NoToken, ahead |-> 0]

NotPolling == [at |-> "no", current |-> FALSE, batch |-> <<>>, finished |-> NoTurn]

Hook == [event : {"start", "stop"}, tok : Token]

Write == [at : {"idle", "ensure", "clearing", "file", "send"}, enter : BOOLEAN,
          public : BOOLEAN, tok : Token \cup {NoToken}, ahead : 0..MaxClears]

Poll == [at : {"no", "read", "run", "await", "failing"}, current : BOOLEAN,
         batch : Seq(Hook), finished : TurnId \cup {NoTurn}]

TypeOK ==
  /\ FloorTypeOK
  /\ container \in {"none", "booting", "up"}
  /\ process \in BOOLEAN
  /\ launching \in {"no", "current", "stale"}
  /\ stopping \in {"no", "starting", "closing"}
  /\ adminStop \in TurnId \cup {NoTurn, "none"}
  /\ failing \in BOOLEAN
  /\ unsafe \in BOOLEAN
  /\ inputOwner \in Session \cup {NoOne}
  /\ token \in Token \cup {NoToken}
  /\ lifecycleTurn \in TurnId \cup {NoTurn}
  /\ publicSubmission \in BOOLEAN
  /\ previousSpeaker \in Session \cup {NoOne}
  /\ clears \in Seq(BOOLEAN) /\ Len(clears) <= MaxClears
  /\ writes \in [Session -> Write]
  /\ poll \in Poll
  /\ stageFile \in Token \cup {NoToken}
  /\ journal \in Seq(Hook) /\ Len(journal) <= MaxJournal
  /\ agent \in {"idle", "prompted", "running"}
  /\ context \in Token \cup {NoToken}
  /\ draft \subseteq Session
  /\ publicMode \in BOOLEAN
  /\ submitter \in [Token -> Session \cup {NoOne}]
  /\ begunWith \in Token \cup {NoToken}
  /\ abandoned \subseteq Session

TuiInit ==
  /\ runner = "antigravity"
  /\ publicMode \in Modes
  /\ participants = Session
  /\ admins = Admins
  /\ speaker = NoOne /\ leaseLeft = 0 /\ holdLeft = 0
  /\ turn = NoTurn /\ owner = NoOne /\ spent = {}
  /\ container = "none"
  /\ process = FALSE
  /\ launching = "no"
  /\ stopping = "no"
  /\ adminStop = "none"
  /\ failing = FALSE
  /\ unsafe = FALSE
  /\ inputOwner = NoOne
  /\ token = NoToken
  /\ lifecycleTurn = NoTurn
  /\ publicSubmission = FALSE
  /\ previousSpeaker = NoOne
  /\ clears = <<>>
  /\ writes = [s \in Session |-> Idle]
  /\ poll = NotPolling
  /\ stageFile = NoToken
  /\ journal = <<>>
  /\ agent = "idle"
  /\ context = NoToken
  /\ draft = {}
  /\ submitter = [t \in Token |-> NoOne]
  /\ begunWith = NoToken
  /\ abandoned = {}

-------------------------------------------------------------------------------
(* Helpers shared by the handlers.                                          *)

\* ++this.generation: everything in flight becomes stale.
NewGeneration ==
  /\ poll' = [poll EXCEPT !.current = FALSE]
  /\ clears' = [i \in DOMAIN clears |-> FALSE]

\* Mutant of tick(): no clearing.
TuiTickOnly == previousSpeaker' = speaker' /\ UNCHANGED <<inputOwner, clears>>

\* tick(): a lease that ended without a job leaves its draft to be cleared
\* before the next input.  Evaluated with the speaker the caller has just set.
TuiTick ==
  /\ previousSpeaker' = speaker'
  /\ IF previousSpeaker # NoOne /\ speaker' # previousSpeaker /\ turn' = NoTurn
       THEN /\ Len(clears) < MaxClears
            /\ inputOwner' = NoOne
            /\ clears' = Append(clears, TRUE)
       ELSE UNCHANGED <<inputOwner, clears>>

\* The author of a lease that ends without a job leaves its keys in the draft.
Abandon ==
  abandoned' = IF speaker # NoOne /\ speaker' # speaker /\ turn' = NoTurn
                 THEN abandoned \cup ({speaker} \cap draft)
                 ELSE abandoned

\* A writer that fails gives the public prompt's gate back.
Rejected(s) ==
  /\ writes' = [writes EXCEPT ![s] = Idle]
  /\ publicSubmission' = (publicSubmission /\ ~writes[s].public)

\* assertTuiControl, again, after an await.  Mutant: it is not asked again.
NotAskedAgain(s) == TRUE
StillControls(s) == Controls(s)

\* Mutant: waiters are not woken.
NobodyWoken == writes

\* Where writers go that were waiting for ensure(), when the launch is over.
Ensured == [s \in Session |->
              IF writes[s].at = "ensure"
                THEN [writes[s] EXCEPT !.at = "clearing", !.ahead = Len(clears)]
                ELSE writes[s]]

EnsureFailed == [s \in Session |-> IF writes[s].at = "ensure" THEN Idle ELSE writes[s]]

EmptyDraft == draft' = {} /\ abandoned' = {}

-------------------------------------------------------------------------------
(* Launch.                                                                  *)

\* Mutant: a stop under way is not waited for.
CanEnsureAtOnce == ~unsafe
CanEnsure == stopping = "no" /\ ~unsafe

\* launch() up to the container: a new bridge, and no token of an older one.
BeginLaunch ==
  /\ launching' = "current"
  /\ NewGeneration
  /\ container' = "booting"
  /\ token' = NoToken
  /\ lifecycleTurn' = NoTurn
  /\ stageFile' = NoToken
  /\ journal' = <<>>
  /\ context' = NoToken

\* ensure() by a page that opens, a raised hand, or the server's start.
Launch ==
  /\ CanEnsure /\ ~process /\ launching = "no"
  /\ BeginLaunch
  /\ UNCHANGED <<floorVars, process, stopping, adminStop, failing, unsafe, inputOwner,
                 publicSubmission, previousSpeaker, writes, agent, draft, otherVars>>

\* Stopping a container and booting the next one outlasts the one-second timer and the 100 ms
\* of a clearing, so that tick() has seen the present speaker again, and no stale clearing is left.
TimerFired == speaker \in {NoOne, previousSpeaker} /\ \A i \in DOMAIN clears : clears[i]

LaunchSucceeds ==
  /\ launching = "current"
  /\ container = "booting"
  /\ TimerFired
  /\ container' = "up"
  /\ launching' = "no"
  /\ process' = TRUE
  /\ writes' = Ensured
  /\ agent' = "idle"
  /\ EmptyDraft
  /\ UNCHANGED <<floorVars, stopping, adminStop, failing, unsafe, inputOwner, token,
                 lifecycleTurn, publicSubmission, previousSpeaker, clears, poll,
                 stageFile, journal, context, submitter, begunWith, publicMode>>

\* A stop overtook the launch, which therefore stops its own container.  If it
\* cannot, the launch fails and nothing may be launched any more; otherwise its
\* waiters go on, and find no process to write to.
LaunchCanceled ==
  /\ launching = "stale"
  /\ launching' = "no"
  /\ \/ /\ container' = "none"
        /\ writes' = Ensured
        /\ UNCHANGED <<unsafe, publicSubmission>>
     \/ /\ "unsafe" \in Faults
        /\ unsafe' = TRUE
        /\ container' = "up"
        /\ writes' = EnsureFailed
        /\ publicSubmission' =
             (publicSubmission /\ ~\E s \in Session : writes[s].at = "ensure" /\ writes[s].public)
  /\ UNCHANGED <<floorVars, process, stopping, adminStop, failing, inputOwner, token,
                 lifecycleTurn, previousSpeaker, clears, poll, agentVars, otherVars>>

\* Docker refuses, or cannot say whether the container started.
LaunchFails ==
  /\ "launch" \in Faults
  /\ launching # "no"
  /\ launching' = "no"
  /\ \/ container' = "none" /\ UNCHANGED unsafe
     \/ "unsafe" \in Faults /\ container' = "up" /\ unsafe' = TRUE
  /\ writes' = EnsureFailed
  /\ publicSubmission' =
       (publicSubmission /\ ~\E s \in Session : writes[s].at = "ensure" /\ writes[s].public)
  /\ UNCHANGED <<floorVars, process, stopping, adminStop, failing, inputOwner, token,
                 lifecycleTurn, previousSpeaker, clears, poll, agentVars, otherVars>>

-------------------------------------------------------------------------------
(* Stop and failure.  stop() without a launch in flight runs to the         *)
(* container's shutdown in one go; otherwise it waits for the launch.       *)

CutOff ==
  /\ process' = FALSE
  /\ inputOwner' = NoOne
  /\ token' = NoToken
  /\ lifecycleTurn' = NoTurn
  /\ publicSubmission' = FALSE
  /\ stopping' = "closing"

\* The floor is left alone: a speaker keeps its lease over a stop.
BeginStop ==
  /\ NewGeneration
  /\ previousSpeaker' = NoOne
  /\ IF launching = "no"
       THEN CutOff /\ UNCHANGED launching
       ELSE /\ launching' = "stale"
            /\ stopping' = "starting"
            /\ UNCHANGED <<process, inputOwner, token, lifecycleTurn, publicSubmission>>

\* Runner.stop by an administrator, a reset, a shutdown or the storage watchdog.
AdminStops ==
  /\ "stop" \in Faults
  /\ adminStop = "none"
  /\ adminStop' = turn
  /\ IF stopping = "no"
       THEN BeginStop
       ELSE UNCHANGED <<process, launching, stopping, inputOwner, token, lifecycleTurn,
                        publicSubmission, previousSpeaker, clears, poll>>
  /\ UNCHANGED <<floorVars, container, failing, unsafe, writes, agentVars, otherVars>>

StopAfterLaunch ==
  /\ stopping = "starting"
  /\ launching = "no"
  /\ CutOff
  /\ UNCHANGED <<floorVars, container, launching, adminStop, failing, unsafe,
                 previousSpeaker, clears, writes, poll, agentVars, otherVars>>

\* Mutant: the container is believed gone.
BelievedGone == container' \in {"none", container} /\ UNCHANGED unsafe
ContainerStops ==
  \/ ~unsafe /\ container' = "none" /\ UNCHANGED unsafe
  \/ /\ unsafe \/ "unsafe" \in Faults
     /\ unsafe' = TRUE
     /\ UNCHANGED container

\* Which jobs a stop ends.
EndsJob == turn # NoTurn /\ (failing \/ adminStop = turn)

\* The container is confirmed gone, or its shutdown is unconfirmed and every
\* later launch is refused.  stop() then returns to its callers, which end the
\* job they found: fail() the job of that moment, Runner.stop the one it captured.
StopEnds ==
  /\ stopping = "closing"
  /\ stopping' = "no"
  /\ ContainerStops
  /\ agent' = IF container' = "none" THEN "idle" ELSE agent
  /\ IF container' = "none" THEN EmptyDraft ELSE UNCHANGED <<draft, abandoned>>
  /\ IF EndsJob
       THEN Finish(turn)
       ELSE UNCHANGED floorVars
  /\ failing' = FALSE
  /\ adminStop' = "none"
  /\ poll' = IF poll.at = "failing" THEN NotPolling ELSE poll
  /\ UNCHANGED <<process, launching, inputVars, stageFile, journal, context,
                 submitter, begunWith, publicMode>>

\* The CLI exits by itself while the server believes in it.
ProcessExits ==
  /\ "exit" \in Faults
  /\ process /\ container = "up"
  /\ container' = "none"
  /\ agent' = "idle"
  /\ EmptyDraft
  /\ failing' = TRUE
  /\ BeginStop
  /\ UNCHANGED <<floorVars, adminStop, unsafe, writes, stageFile, journal, context,
                 submitter, begunWith, publicMode>>

\* /api/admin/reset once its stop() has succeeded.
ResetStage ==
  /\ ~process /\ CanEnsure
  /\ Reset
  /\ Abandon
  /\ UNCHANGED <<container, serverVars, inputVars, poll, agentVars, submitter, begunWith, publicMode>>

-------------------------------------------------------------------------------
(* The floor, as the HTTP routes and the timer drive it.                    *)

\* /api/raise: ensure() has resolved, and raise() and tick() follow at once.
RaiseHand(s) ==
  /\ process
  /\ Raise(s)
  /\ TuiTick
  /\ Abandon
  /\ UNCHANGED <<container, serverVars, token, lifecycleTurn, publicSubmission,
                 writes, poll, agentVars, submitter, begunWith, publicMode>>

\* /api/release and /api/admin/revoke.
GiveBack(s) ==
  /\ Release(s)
  /\ TuiTick
  /\ Abandon
  /\ UNCHANGED <<container, serverVars, token, lifecycleTurn, publicSubmission,
                 writes, poll, agentVars, submitter, begunWith, publicMode>>

\* The one-second timer: store.tick() and then tui.tick().
Timer ==
  /\ IF speaker # NoOne /\ Lapsed THEN Tick ELSE UNCHANGED floorVars
  /\ TuiTick
  /\ Abandon
  /\ UNCHANGED <<container, serverVars, token, lifecycleTurn, publicSubmission,
                 writes, poll, agentVars, submitter, begunWith, publicMode>>

TimePasses == Elapse /\ UNCHANGED tuiVars

\* A session outlasts its last request by hours, a lease by seconds: before the timer finds
\* a session expired, it has dropped its lease.
SessionChanges ==
  /\ \E s \in Departing : (speaker # s /\ Leave(s)) \/ AdminLogout(s)
  /\ Abandon
  /\ UNCHANGED <<container, serverVars, inputVars, poll, agentVars, submitter, begunWith, publicMode>>

-------------------------------------------------------------------------------
(* Input: input() and submitPublicPrompt() up to writeInput's first await,  *)
(* then one action per await.                                               *)

\* Bound: no more inputs with Enter than tokens left to draw.
TokensLeft ==
  Cardinality({t \in Token : submitter[t] = NoOne})
    > Cardinality({w \in Session : writes[w].enter /\ writes[w].tok = NoToken})

StartWrite(s, enter, public) ==
  /\ s \in participants
  /\ writes[s] = Idle
  /\ Cardinality({w \in Session : writes[w] # Idle}) < MaxWrites
  /\ enter => TokensLeft
  /\ IF public
       THEN enter /\ publicMode /\ ~publicSubmission /\ turn = NoTurn
       ELSE publicMode => s \in admins
  /\ Controls(s)
  /\ CanEnsure
  /\ publicSubmission' = (publicSubmission \/ public)
  /\ writes' = [writes EXCEPT ![s] =
                  [Idle EXCEPT !.at = IF process THEN "clearing" ELSE "ensure",
                               !.enter = enter, !.public = public,
                               !.ahead = IF process THEN Len(clears) ELSE 0]]
  /\ IF process \/ launching # "no"
       THEN UNCHANGED <<container, launching, poll, clears, token, lifecycleTurn,
                        stageFile, journal, context>>
       ELSE BeginLaunch
  /\ UNCHANGED <<floorVars, process, stopping, adminStop, failing, unsafe, inputOwner,
                 previousSpeaker, agent, draft, otherVars>>

\* A token for what s submits: a new one, or that of the running job.
DrawToken(s) ==
  \E t \in Token :
    /\ submitter[t] = NoOne
    /\ token' = t
    /\ submitter' = [submitter EXCEPT ![t] = s]
FreshToken(s) == IF turn = NoTurn THEN DrawToken(s) ELSE UNCHANGED <<token, submitter>>

\* process.write() throws.
TerminalRefuses == ~process \/ "exit" \in Faults

\* Past the queued clearings control is checked again.  Enter draws a new token
\* unless a job is running, and everything else goes to the terminal at once.
CommitWrite(s) ==
  /\ writes[s].at = "clearing" /\ writes[s].ahead = 0
  /\ poll.at # "run"
  /\ IF ~StillControls(s)
       THEN /\ Rejected(s)
            /\ UNCHANGED <<floorVars, inputOwner, token, draft, submitter>>
       ELSE /\ inputOwner' = IF turn = NoTurn THEN s ELSE inputOwner
            /\ IF writes[s].enter
                 THEN /\ IF s \in admins \/ SpeakerNow = s
                           THEN HoldTuiSubmission(s)
                           ELSE UNCHANGED floorVars
                      /\ FreshToken(s)
                      /\ writes' = [writes EXCEPT ![s] =
                                      [@ EXCEPT !.at = "file", !.tok = token']]
                      /\ UNCHANGED <<publicSubmission, draft>>
                 ELSE /\ Rejected(s)
                      /\ \/ process /\ draft' = draft \cup {s}
                         \/ TerminalRefuses /\ UNCHANGED draft
                      /\ UNCHANGED <<floorVars, token, submitter>>
  /\ UNCHANGED <<container, serverVars, lifecycleTurn, previousSpeaker, clears, poll,
                 stageFile, journal, agent, context, begunWith, abandoned, publicMode>>

\* The rename of stage.json; the token was fixed when the write was committed.  It fails as
\* a whole.
RenameStageFile(s) ==
  /\ writes[s].at = "file"
  /\ \/ /\ stageFile' = writes[s].tok
        /\ writes' = [writes EXCEPT ![s].at = "send"]
        /\ UNCHANGED publicSubmission
     \/ /\ "disk" \in Faults
        /\ Rejected(s)
        /\ UNCHANGED stageFile
  /\ UNCHANGED <<floorVars, container, serverVars, inputOwner, token, lifecycleTurn,
                 previousSpeaker, clears, poll, journal, agent, context, draft, otherVars>>

\* Control is checked a last time, and Enter submits the line.  While the CLI is
\* working Enter is an answer or a follow-up and starts nothing new by itself.
SendEnter(s) ==
  /\ writes[s].at = "send"
  /\ \/ /\ StillControls(s) /\ process
        /\ writes' = [writes EXCEPT ![s] = Idle]
        /\ agent' = IF agent = "idle" THEN "prompted" ELSE agent
        /\ EmptyDraft
        /\ UNCHANGED publicSubmission
     \/ /\ ~StillControls(s) \/ TerminalRefuses
        /\ Rejected(s)
        /\ UNCHANGED <<agent, draft, abandoned>>
  /\ UNCHANGED <<floorVars, container, serverVars, inputOwner, token, lifecycleTurn,
                 previousSpeaker, clears, poll, stageFile, journal, context,
                 submitter, begunWith, publicMode>>

\* The Stop hook is recorded under the token of the run's latest start.
RecordStop ==
  IF context = NoToken
    THEN UNCHANGED journal
    ELSE /\ Len(journal) + Len(poll.batch) < MaxJournal
         /\ journal' = Append(journal, [event |-> "stop", tok |-> context])

\* Escape and, 100 ms later, Ctrl-U, unless a newer generation took over.
\* Escape also cancels what the CLI is doing.
ClearDraft ==
  /\ clears # <<>>
  /\ clears' = Tail(clears)
  /\ writes' = [s \in Session |->
                  IF writes[s].ahead > 0 THEN [writes[s] EXCEPT !.ahead = @ - 1] ELSE writes[s]]
  /\ IF Head(clears) /\ process
       THEN /\ EmptyDraft
            /\ agent' = "idle"
            /\ IF agent = "running" THEN RecordStop ELSE UNCHANGED journal
       ELSE UNCHANGED <<draft, abandoned, agent, journal>>
  /\ UNCHANGED <<floorVars, container, serverVars, inputOwner, token, lifecycleTurn,
                 publicSubmission, previousSpeaker, poll, stageFile, context,
                 submitter, begunWith, publicMode>>

-------------------------------------------------------------------------------
(* The poll.  A batch of hooks is read over several awaits and then run in  *)
(* one stretch, which started() interrupts when it begins a job.  While     *)
(* poll.at = "run" no other callback of the server gets a turn.             *)

PollReads ==
  /\ process /\ launching = "no"
  /\ poll.at = "no"
  /\ journal # <<>>
  /\ poll' = [at |-> "read", current |-> TRUE, batch |-> journal, finished |-> NoTurn]
  /\ journal' = <<>>
  /\ UNCHANGED <<floorVars, container, serverVars, inputVars, stageFile, agent, context,
                 draft, otherVars>>

\* The only look at the generation.
PollRuns ==
  /\ poll.at = "read"
  /\ poll' = IF poll.current THEN [poll EXCEPT !.at = "run"] ELSE NotPolling
  /\ UNCHANGED <<floorVars, container, serverVars, inputVars, agentVars, otherVars>>

NextHook == Head(poll.batch)

\* Mutant: tokens are not compared.
AnyHook(hook) == TRUE
CurrentHook(hook) == hook.tok = token

\* Mutant: what else was read is dropped over the await.
DropsRest(batch) == [poll EXCEPT !.batch = <<>>]
Drained(batch) == [poll EXCEPT !.batch = batch]

\* started() with no job: the owner of the last input gets the job.
HookBeginsTurn ==
  /\ poll.at = "run" /\ poll.batch # <<>>
  /\ CurrentHook(NextHook) /\ NextHook.event = "start"
  /\ turn = NoTurn /\ inputOwner # NoOne
  /\ \E id \in TurnId : BeginTui(inputOwner, id)
  /\ lifecycleTurn' = turn'
  /\ begunWith' = NextHook.tok
  /\ poll' = [Drained(Tail(poll.batch)) EXCEPT !.at = "await", !.finished = NoTurn]
  /\ abandoned' = abandoned
  /\ UNCHANGED <<container, serverVars, inputOwner, token, publicSubmission, previousSpeaker,
                 clears, writes, agentVars, submitter, publicMode>>

\* beginTui() throws when the owner of the input has lost the floor since, and so may the
\* files that are read or that started() writes, and what follows the hooks; fail() then
\* stops the whole session.
PollFails ==
  /\ \/ /\ poll.at = "run" /\ poll.batch # <<>>
        /\ CurrentHook(NextHook) /\ NextHook.event = "start"
        /\ turn = NoTurn /\ inputOwner # NoOne /\ ~Controls(inputOwner)
     \/ /\ "disk" \in Faults
        /\ poll.at \in {"read", "await"} \/ (poll.at = "run" /\ poll.batch = <<>>)
  /\ IF poll.current
       THEN /\ failing' = TRUE
            /\ previousSpeaker' = NoOne
            /\ clears' = [i \in DOMAIN clears |-> FALSE]
            /\ poll' = [NotPolling EXCEPT !.at = "failing"]
            /\ CutOff
       ELSE /\ poll' = NotPolling
            /\ UNCHANGED <<failing, previousSpeaker, clears, process, inputOwner, token,
                           lifecycleTurn, publicSubmission, stopping>>
  /\ UNCHANGED <<floorVars, container, launching, adminStop, unsafe, writes, agentVars,
                 otherVars>>

PollResumes ==
  /\ poll.at = "await"
  /\ poll' = [poll EXCEPT !.at = "run"]
  /\ UNCHANGED <<floorVars, container, serverVars, inputVars, agentVars, otherVars>>

\* The other hooks: a stale one, a start nobody submitted, the job's next model
\* call (which takes back a completion read before it), or the job's end.
HookRead ==
  /\ poll.at = "run" /\ poll.batch # <<>>
  /\ ~(CurrentHook(NextHook) /\ NextHook.event = "start" /\ turn = NoTurn /\ inputOwner # NoOne)
  /\ poll' =
       LET rest == Drained(Tail(poll.batch))
           ours == CurrentHook(NextHook) /\ turn # NoTurn /\ turn = lifecycleTurn
       IN  CASE ours /\ NextHook.event = "start" -> [rest EXCEPT !.finished = NoTurn]
             [] ours /\ NextHook.event = "stop"  -> [rest EXCEPT !.finished = turn]
             [] OTHER -> rest
  /\ UNCHANGED <<floorVars, container, serverVars, inputVars, agentVars, otherVars>>

\* The batch is drained: a completion read in it ends the job now.
PollEnds ==
  /\ poll.at = "run" /\ poll.batch = <<>>
  /\ poll' = NotPolling
  /\ IF poll.finished # NoTurn /\ turn = poll.finished
       THEN /\ Finish(turn)
            /\ inputOwner' = NoOne
            /\ token' = NoToken
            /\ lifecycleTurn' = NoTurn
            /\ publicSubmission' = FALSE
       ELSE UNCHANGED <<floorVars, inputOwner, token, lifecycleTurn, publicSubmission>>
  /\ UNCHANGED <<container, serverVars, previousSpeaker, clears, writes, agentVars,
                 otherVars>>

-------------------------------------------------------------------------------
(* The CLI in the container and its hooks: external to the server.          *)

\* PreInvocation: each model call of a run reads stage.json.  Without a token
\* there the hook records nothing.
StartHook ==
  /\ agent \in {"prompted", "running"}
  /\ agent' = "running"
  /\ IF stageFile = NoToken
       THEN UNCHANGED <<journal, context>>
       ELSE /\ Len(journal) + Len(poll.batch) < MaxJournal
            /\ journal' = Append(journal, [event |-> "start", tok |-> stageFile])
            /\ context' = stageFile
  /\ UNCHANGED <<floorVars, container, serverVars, inputVars, poll, stageFile, draft,
                 otherVars>>

\* Stop with fullyIdle.
StopHook ==
  /\ agent = "running"
  /\ agent' = "idle"
  /\ RecordStop
  /\ UNCHANGED <<floorVars, container, serverVars, inputVars, poll, stageFile, context,
                 draft, otherVars>>

\* A menu, a slash command or an empty line: Enter starts no run.
EnterIgnored ==
  /\ agent = "prompted"
  /\ agent' = "idle"
  /\ UNCHANGED <<floorVars, container, serverVars, inputVars, poll, stageFile, journal,
                 context, draft, otherVars>>

-------------------------------------------------------------------------------

\* A callback is in the middle of a stretch, or its promise has settled and it
\* goes on before any request, timer or file is served.
Ready(s) == writes[s].at = "clearing" /\ writes[s].ahead = 0
Occupied == poll.at = "run" \/ \E s \in Session : Ready(s)

ServerNext ==
  \/ Launch
  \/ LaunchSucceeds
  \/ LaunchCanceled
  \/ LaunchFails
  \/ AdminStops
  \/ StopAfterLaunch
  \/ StopEnds
  \/ ProcessExits
  \/ ResetStage
  \/ \E s \in Session :
       \/ RaiseHand(s)
       \/ GiveBack(s)
       \/ \E enter, public \in BOOLEAN : StartWrite(s, enter, public)
       \/ RenameStageFile(s)
       \/ SendEnter(s)
  \/ Timer
  \/ SessionChanges
  \/ ClearDraft
  \/ PollReads
  \/ PollRuns
  \/ PollResumes

Continuation ==
  \/ HookBeginsTurn
  \/ HookRead
  \/ PollEnds
  \/ \E s \in Session : CommitWrite(s)

AgentNext ==
  \/ StartHook
  \/ StopHook
  \/ EnterIgnored

Next ==
  \/ ~Occupied /\ ServerNext
  \/ Continuation
  \/ PollFails
  \/ AgentNext
  \/ TimePasses

Spec == TuiInit /\ [][Next]_vars

\* What the server has begun goes on by itself: Docker answers, timers fire and
\* files are written, and the event loop takes up every callback that is ready
\* again and again (strong fairness, for Occupied comes and goes).  No run of the
\* CLI is endless: one that goes on writing hooks would keep the bounded journal
\* full.  Nobody has to raise a hand or to type.
Fairness ==
  /\ SF_vars(~Occupied /\ (LaunchSucceeds \/ LaunchCanceled \/ LaunchFails))
  /\ SF_vars(~Occupied /\ (StopAfterLaunch \/ StopEnds))
  /\ SF_vars(~Occupied /\ ClearDraft)
  /\ SF_vars(~Occupied /\ Timer)
  /\ SF_vars(PollFails \/ (~Occupied /\ (PollReads \/ PollRuns \/ PollResumes)))
  /\ WF_vars(Continuation)
  /\ \A s \in Session : SF_vars(~Occupied /\ (RenameStageFile(s) \/ SendEnter(s)))
  /\ SF_vars(StopHook)

FairSpec == Spec /\ Fairness

-------------------------------------------------------------------------------
(* Properties.                                                              *)

\* The job of the session is the stage's job, under the token of the start hook
\* that began it, in a live session: whatever order stop, launch, input and the
\* suspended poll run in, a later token or session never meets an earlier job.
\* And no job is left behind: one that lost its session has a stop under way
\* that will end it.
JobFenced ==
  /\ lifecycleTurn # NoTurn =>
       turn = lifecycleTurn /\ process /\ token = begunWith /\ token # NoToken
  /\ turn # NoTurn =>
       lifecycleTurn = turn \/ (stopping = "closing" /\ (failing \/ adminStop = turn))

\* Types and fencing together, which the runs check as one.
SessionInv == TypeOK /\ JobFenced

\* Keys reach the CLI only from the session that drives at that very moment,
\* although control was first checked several awaits earlier.
OnlyDriverTypes ==
  [][\A s \in Session :
       /\ s \in draft' \ draft => Controls(s)
       /\ writes[s].at = "send" /\ writes'[s].at # "send"
            /\ (agent' # agent \/ draft' # draft) => Controls(s)]_vars

\* What a lease left in the input line when it was returned, or when the timer found that it had
\* run out, is gone before the keys of anybody else or of its own author arrive.
ReturnedDraftErased == [][draft' \ draft # {} => abandoned = {}]_vars

\* A container the server holds no handle on is being launched or stopped, or
\* the session is locked as unsafe: none is forgotten.
ContainerAccounted ==
  /\ process => container # "booting"
  /\ container # "none" => process \/ launching # "no" \/ stopping # "no" \/ unsafe

\* Two containers never share a project's workspace: the next one boots only
\* after the former one is known to be gone.
OneContainer ==
  [][container' = "booting" => container \in {"none", "booting"}]_vars

\* No writer waits for ever: behind a launch that is overtaken, refused or
\* canceled, behind queued clearings, or behind the rename of its token.
WritersReturn == \A s \in Session : writes[s] # Idle ~> writes[s] = Idle

\* The hooks of the running job that the server has not taken up.
Unread == SelectSeq(poll.batch \o journal, LAMBDA hook : hook.tok = begunWith)

\* Another token was recorded than the one the job began under: while two inputs with Enter
\* were under way at once, the older one's token was put into stage.json last, and the CLI's
\* next hook took it.  Nothing but a stop ends such a job.
Overtaken == context \notin {begunWith, NoToken}

\* No job is forgotten: when the CLI is idle, the end of its job is on its way.  Either the
\* session is being stopped, or the last hook not taken up is the job's end, or that one has
\* been taken up by the poll under way; whatever came between a hook and its reading.
EndOnItsWay ==
  turn # NoTurn /\ agent = "idle" /\ ~Overtaken =>
    \/ stopping # "no" /\ (failing \/ adminStop = turn)
    \/ Unread # <<>> /\ Unread[Len(Unread)].event = "stop"
    \/ Unread = <<>> /\ poll.finished = turn
===============================================================================
