------------------------------- MODULE Subagents -------------------------------
(***************************************************************************)
(* The subagents of a job, as the stage shows them.  The agent's command   *)
(* line runs hooks in its container: a conversation's own start and stop   *)
(* (agent/tui-hooks.mjs), and after each hook of the main conversation a   *)
(* look at the metadata of its children (agent/subagent-observer.mjs).     *)
(* Both write journals that server/tui-session.ts reads one after the      *)
(* other and merges; what a child says comes by a third file               *)
(* (agent/subagent-output.mjs).  server/stage.ts keeps a pane for each     *)
(* child and puts it away 3 seconds after the child has stopped.           *)
(*                                                                         *)
(* The number of a hook stands for its time: two hooks are separate        *)
(* processes.  The 3 seconds are an action of their own.                   *)
(***************************************************************************)
EXTENDS Naturals, FiniteSets, SequencesExt

CONSTANTS
  Child,
  Root,      \* the main conversation
  MaxPanes,  \* 8 subagent panes
  MaxJobs,   \* bound
  MaxHooks,  \* bound: hooks of all conversations
  MaxOutput  \* bound: versions of a child's output

Conv == Child \cup {Root}
Stopped == {"idle", "error", "ended"}

ASSUME SubagentsAssumption ==
  /\ Root \notin Child
  /\ {MaxJobs, MaxHooks, MaxOutput} \subseteq Nat /\ MaxPanes \in Nat \ {0}

VARIABLES
  token,     \* stage.json: the last submission
  hooks,     \* the hooks run so far, the time
  ran,       \* external: the conversations with a hook since the poll has read the first journal
  real,      \* external: what each conversation does
  hooked,    \* external: the children that inherit the hooks
  spawned,   \* external: the children spawned in the job of the main conversation
  context,   \* lifecycle-ID.json: the token of a conversation and the last stop it recorded
  agents,    \* pado-subagents.json: the states last published
  lifecycle, workers,          \* the journals from where the server has read
  view,      \* subagent-view.json: the job whose output is looked for
  snapshot,  \* subagent-output.json: a job and the output of its children
  fresh,     \* it has changed since it was read
  poll,      \* "idle", or what was read last: "lifecycle" or "outputs"
  batch,     \* what this poll has read
  session,   \* what TuiSession keeps
  stage      \* what StageStore keeps

hookVars == <<hooks, ran>>
bridgeVars == <<token, hookVars, real, hooked, spawned, context, agents, lifecycle, workers>>
outputVars == <<view, snapshot, fresh>>
pollVars == <<poll, batch>>
serverVars == <<pollVars, session, stage>>
vars == <<bridgeVars, outputVars, serverVars>>

NoStop == [at |-> 0, idle |-> FALSE, error |-> FALSE]
NoChild == [state |-> "none", hooked |-> FALSE, startedAt |-> 0, updatedAt |-> 0]
NoPane == [state |-> "none", closing |-> "no", output |-> 0]
NoOutput == [c \in Child |-> 0]
NoSnapshot == [job |-> 0, output |-> NoOutput]
NoBatch == [lifecycle |-> <<>>, workers |-> <<>>, outputs |-> NoSnapshot]

SubagentsInit ==
  /\ token = 0 /\ hooks = 0 /\ ran = {}
  /\ real = [c \in Conv |-> "none"] /\ spawned = {}
  /\ hooked \in SUBSET Child
  /\ context = [c \in Conv |-> [token |-> 0, last |-> NoStop]]
  /\ agents = [c \in Child |-> "none"]
  /\ lifecycle = <<>> /\ workers = <<>>
  /\ view = 0 /\ snapshot = NoSnapshot /\ fresh = FALSE
  /\ poll = "idle" /\ batch = NoBatch
  /\ session = [token |-> 0,       \* turnToken, 0 once the job is over
                conversation |-> Root,
                rootStartedAt |-> 0,
                children |-> [c \in Conv |-> NoChild],
                known |-> {},      \* knownChildren
                stopped |-> {},    \* stoppedExecutions
                completed |-> 0]   \* completedOutput, 0 after its 3 seconds
  /\ stage = [turn |-> 0,
              runs |-> [c \in Conv |-> "none"],    \* subagentRuns
              dismissed |-> {},
              panes |-> [c \in Conv |-> NoPane],
              outputs |-> NoOutput,                \* subagentOutputs
              outputTurn |-> 0,
              timer |-> FALSE]

-------------------------------------------------------------------------------
(* In the container: submissions and hooks *)

\* writeInput() with an Enter while nobody's job runs.  Nobody presses it between the start of
\* the agent and the poll that shows it.
Submit ==
  /\ stage.turn = 0 /\ token < MaxJobs
  /\ session.token = 0 \/ context[Root].token # session.token
  /\ token' = token + 1
  /\ session' = [session EXCEPT !.token = token + 1, !.completed = 0]
  /\ UNCHANGED <<hookVars, real, hooked, spawned, context, agents, lifecycle, workers,
                 outputVars, pollVars, stage>>

\* A hook is a process of its own: a conversation does not run two of them between two reads of
\* one poll.
HookRuns(c) ==
  /\ hooks < MaxHooks /\ hooks' = hooks + 1
  /\ c \notin ran
  /\ ran' = IF poll = "lifecycle" THEN ran \cup {c} ELSE ran

\* recordLifecycle(): a start takes the token of the last submission, a stop that of its start,
\* a stop told twice the time of the first.
Started(c) ==
  /\ lifecycle' = Append(lifecycle, [event |-> "start", who |-> c, token |-> token,
                                     at |-> hooks + 1, idle |-> FALSE, error |-> FALSE])
  /\ context' = [context EXCEPT ![c] =
                   IF @.token = token THEN @ ELSE [token |-> token, last |-> NoStop]]

Stops(c, at, idle, error) ==
  /\ lifecycle' = Append(lifecycle, [event |-> "stop", who |-> c, token |-> context[c].token,
                                     at |-> at, idle |-> idle, error |-> error])
  /\ context' = IF idle \/ error
                  THEN [context EXCEPT ![c].last = [at |-> at, idle |-> idle, error |-> error]]
                ELSE context

\* What the metadata of a child of this job may say.  A killed one stays killed.  The transcript
\* of one whose hooks run may be behind them.
Seen(c) ==
  IF c \notin spawned \/ agents[c] = "ended" THEN {agents[c]}
  ELSE IF c \in hooked
         THEN {real[c], "working"} \cup IF context[c].last = NoStop THEN {} ELSE {"idle"}
         ELSE {real[c]}

\* observeSubagents(): what has changed is appended.
Publish(seen) ==
  LET changed == SetToSeq({c \in Child : seen[c] # agents[c]}) IN
  /\ agents' = seen
  /\ workers' = workers \o
       [i \in DOMAIN changed |-> [who |-> changed[i], token |-> context[Root].token,
                                  at |-> hooks + 1, state |-> seen[changed[i]]]]

\* For a submission, or woken by a child; only a submission follows a stop that was fully idle.
\* The observer knows no agents of an older job.  Children without hooks are not met again.
RootStarts ==
  /\ token # 0 /\ real[Root] # "working"
  /\ context[Root].token # token \/ ~context[Root].last.idle
  /\ HookRuns(Root) /\ Started(Root)
  /\ real' = [c \in Conv |-> IF c = Root THEN "working"
                             ELSE IF c \in hooked \/ context[Root].token = token THEN real[c]
                             ELSE "none"]
  /\ agents' = IF context[Root].token = token THEN agents ELSE [c \in Child |-> "none"]
  /\ spawned' = IF context[Root].token = token THEN spawned ELSE {}
  /\ UNCHANGED <<token, hooked, workers, outputVars, serverVars>>

\* Fully idle when no child works.
RootStops ==
  /\ real[Root] = "working"
  /\ HookRuns(Root)
  /\ \E error \in BOOLEAN :
       Stops(Root, hooks + 1, \A c \in Child : real[c] # "working", error)
  /\ \E seen \in [Child -> {"none", "working"} \cup Stopped] :
       (\A c \in Child : seen[c] \in Seen(c)) /\ Publish(seen)
  /\ real' = [real EXCEPT ![Root] = "idle"]
  /\ UNCHANGED <<token, hooked, spawned, outputVars, serverVars>>

\* Another hook of the main conversation.
Observes ==
  /\ real[Root] = "working"
  /\ HookRuns(Root)
  /\ \E seen \in [Child -> {"none", "working"} \cup Stopped] :
       (\A c \in Child : seen[c] \in Seen(c)) /\ Publish(seen)
  /\ UNCHANGED <<token, real, hooked, spawned, context, lifecycle, outputVars, serverVars>>

\* invoke_subagent
Spawns(c) ==
  /\ real[Root] = "working" /\ real[c] = "none" /\ Root \notin ran
  /\ real' = [real EXCEPT ![c] = "working"] /\ spawned' = spawned \cup {c}
  /\ UNCHANGED <<token, hookVars, hooked, context, agents, lifecycle, workers, outputVars,
                 serverVars>>

\* send_message: a child without hooks is at work again at once.
SendsMessage(c) ==
  /\ real[Root] = "working" /\ real[c] \in Stopped
  /\ HookRuns(Root)
  /\ Publish(IF c \in spawned THEN [agents EXCEPT ![c] = "working"] ELSE agents)
  /\ real' = IF c \in hooked THEN real ELSE [real EXCEPT ![c] = "working"]
  /\ UNCHANGED <<token, hooked, spawned, context, lifecycle, outputVars, serverVars>>

\* manage_subagents with kill
Kills(c) ==
  /\ real[Root] = "working" /\ c \in spawned
  /\ HookRuns(Root)
  /\ Publish([agents EXCEPT ![c] = "ended"])
  /\ real' = [real EXCEPT ![c] = "ended"]
  /\ UNCHANGED <<token, hooked, spawned, context, lifecycle, outputVars, serverVars>>

\* A call of its model, the first or a later one, even when the job it was spawned in is over.
ChildStarts(c) ==
  /\ c \in hooked /\ real[c] # "none" /\ (real[c] = "ended" => agents[c] # "ended")
  /\ HookRuns(c) /\ Started(c)
  /\ real' = [real EXCEPT ![c] = "working"]
  /\ UNCHANGED <<token, hooked, spawned, agents, workers, outputVars, serverVars>>

\* A stop with work in the background is not the end.
ChildStops(c) ==
  /\ c \in hooked /\ real[c] = "working" /\ context[c].token # 0
  /\ HookRuns(c)
  /\ \E state \in {"working", "idle", "error"} :
       /\ Stops(c, hooks + 1, state = "idle", state = "error")
       /\ real' = [real EXCEPT ![c] = state]
  /\ UNCHANGED <<token, hooked, spawned, agents, workers, outputVars, serverVars>>

StopsUnseen(c) ==
  /\ c \notin hooked /\ real[c] = "working"
  /\ \E state \in {"idle", "error"} : real' = [real EXCEPT ![c] = state]
  /\ UNCHANGED <<token, hookVars, hooked, spawned, context, agents, lifecycle, workers,
                 outputVars, serverVars>>

\* The stop hook of one execution runs again, however late.
StopRepeated(c) ==
  LET last == context[c].last IN
  /\ last # NoStop
  /\ HookRuns(c) /\ Stops(c, last.at, last.idle, last.error)
  /\ UNCHANGED <<token, real, hooked, spawned, agents, workers, outputVars, serverVars>>

\* SubagentOutputObserver.poll(): it replaces its file when the output of a child has changed.
Says(c) ==
  LET now == IF snapshot.job = view THEN snapshot.output ELSE NoOutput IN
  /\ view # 0 /\ view = token /\ context[Root].token = token
  /\ c \in spawned \/ context[c].token = token
  /\ now[c] < MaxOutput
  /\ snapshot' = [job |-> view, output |-> [now EXCEPT ![c] = @ + 1]]
  /\ fresh' = TRUE
  /\ UNCHANGED <<bridgeVars, view, serverVars>>

-------------------------------------------------------------------------------
(* StageStore: a pane for each child *)

Shown(s) == {c \in Conv : s.panes[c] # NoPane}

\* scheduleSubagentClose()
Schedule(s) == [s EXCEPT !.timer = \E c \in Conv : s.panes[c].closing # "no"]

\* setSubagentState(): the first stop begins the 3 seconds, work ends them.
InState(pane, state) ==
  [pane EXCEPT !.state = state,
               !.closing = IF state = "working" THEN "no" ELSE IF @ = "no" THEN "armed" ELSE @]

\* updateSubagent(): a child at work again gets its pane back, and that pane begins anew.
UpdateSubagent(s, c, state) ==
  LET resumed == state = "working" /\ s.runs[c] \in Stopped
      dismissed == IF resumed THEN s.dismissed \ {c} ELSE s.dismissed
      shown == c \in Shown(s)
      before == IF shown /\ ~resumed THEN s.panes[c] ELSE NoPane
      pane == [InState(before, state) EXCEPT
                 !.output = IF s.outputs[c] # 0 THEN s.outputs[c] ELSE @]
      places == shown \/ Cardinality(Shown(s)) < MaxPanes
  IN Schedule([s EXCEPT !.runs[c] = state, !.dismissed = dismissed,
                        !.panes[c] = IF c \notin dismissed /\ places THEN pane ELSE @])

\* subagentOutput(): never opens a pane.
SubagentOutput(s, turn, c, output) ==
  IF turn # s.outputTurn \/ output = s.outputs[c] THEN s
  ELSE [s EXCEPT !.outputs[c] = output,
                 !.panes[c].output = IF c \in Shown(s) THEN output ELSE @]

\* clearForTurn()
ClearForTurn(s, turn) ==
  [turn |-> turn, runs |-> [c \in Conv |-> "none"], dismissed |-> {},
   panes |-> [c \in Conv |-> NoPane], outputs |-> [c \in Child |-> 0], outputTurn |-> turn,
   timer |-> FALSE]

\* finish()
FinishStage(s, error) ==
  LET last == IF error THEN "error" ELSE "ended"
      left(pane) == IF pane.state = "working" THEN InState(pane, last) ELSE pane
  IN Schedule([s EXCEPT !.turn = 0, !.panes = [c \in Conv |-> left(@[c])]])

\* tick() and closePane()
Tick(s) ==
  LET due == {c \in Conv : s.panes[c].closing = "due"} IN
  Schedule([s EXCEPT !.dismissed = @ \cup due,
                     !.panes = [c \in Conv |-> IF c \in due THEN NoPane ELSE @[c]]])

-------------------------------------------------------------------------------
(* TuiSession: s has the fields session, stage, view and finished *)

\* child()
Met(s, c, at) ==
  IF s.session.children[c] # NoChild THEN s
  ELSE [s EXCEPT !.session.children[c] =
                   [state |-> "working", hooked |-> FALSE, startedAt |-> at, updatedAt |-> at],
                 !.session.known = @ \cup {c}]

\* store.subagent()
Set(s, c, child) ==
  [s EXCEPT !.session.children[c] = child,
            !.stage = UpdateSubagent(s.stage, c, child.state)]

\* mutant: the observer is believed of a child whose hooks run.
ObservedOfAll(s, e) ==
  LET met == Met(s, e.who, e.at)
      child == met.session.children[e.who]
  IN IF e.who = s.session.conversation THEN s
     ELSE IF e.at < child.updatedAt THEN met
     ELSE Set(met, e.who, [child EXCEPT !.updatedAt = e.at, !.state = e.state])

\* observed(): of a child whose hooks run, only that it was killed.
Observed(s, e) ==
  LET met == Met(s, e.who, e.at)
      child == met.session.children[e.who]
  IN IF e.who = s.session.conversation THEN s
     ELSE IF (child.hooked /\ e.state # "ended") \/ e.at < child.updatedAt THEN met
     ELSE Set(met, e.who, [child EXCEPT !.updatedAt = e.at, !.state = e.state])

\* mutant: any conversation may begin the job.
BegunByAny(s, e) ==
  [session |-> [s.session EXCEPT !.conversation = e.who, !.rootStartedAt = e.at,
                                 !.children = [c \in Conv |-> NoChild], !.stopped = {}],
   stage |-> ClearForTurn(s.stage, s.session.token),
   view |-> s.session.token,
   finished |-> "no"]

\* started(), of the conversation the job belongs to from now on.
Begun(s, e) ==
  IF e.who \in s.session.known THEN s
  ELSE [session |-> [s.session EXCEPT !.conversation = e.who, !.rootStartedAt = e.at,
                                      !.children = [c \in Conv |-> NoChild], !.stopped = {}],
        stage |-> ClearForTurn(s.stage, s.session.token),
        view |-> s.session.token,
        finished |-> "no"]

\* started() of a child, which the observer may know already.
ChildStarted(s, e) ==
  LET met == Met(s, e.who, e.at)
      child == met.session.children[e.who]
      late == ~child.hooked /\ e.at <= child.updatedAt /\ child.state # "working"
      old == /\ child.hooked
             /\ \/ e.at < child.updatedAt
                \/ e.at = child.updatedAt /\ child.state # "working"
  IN IF late
       THEN [met EXCEPT !.session.children[e.who] = [child EXCEPT !.hooked = TRUE,
                                                                  !.startedAt = e.at]]
     ELSE IF old THEN met
     ELSE Set(met, e.who,
              [state |-> "working", hooked |-> TRUE, startedAt |-> e.at, updatedAt |-> e.at])

\* mutant: a child that stops with an error has not stopped.
StopCountsIfIdle(s, e) ==
  LET child == s.session.children[e.who] IN
  /\ s.stage.turn # 0 /\ e.idle
  /\ IF e.who = s.session.conversation
       THEN e.at >= s.session.rootStartedAt
       ELSE child # NoChild /\ e.at >= child.startedAt
  /\ <<e.who, e.at>> \notin s.session.stopped

\* stopped(): each execution stops once, and not before its conversation started last.
StopCounts(s, e) ==
  LET child == s.session.children[e.who] IN
  /\ s.stage.turn # 0
  /\ IF e.who = s.session.conversation
       THEN e.at >= s.session.rootStartedAt /\ e.idle
       ELSE child # NoChild /\ e.at >= child.startedAt /\ (e.idle \/ e.error)
  /\ <<e.who, e.at>> \notin s.session.stopped

ChildStopped(s, e) ==
  LET child == s.session.children[e.who] IN
  IF e.at < child.updatedAt THEN s
  ELSE Set(s, e.who, [child EXCEPT !.updatedAt = e.at, !.hooked = TRUE,
                                   !.state = IF e.error THEN "error" ELSE "idle"])

OfLifecycle(s, e) ==
  IF e.token # s.session.token THEN s
  ELSE IF e.event = "start" THEN
    IF s.stage.turn = 0 THEN Begun(s, e)
    ELSE IF e.who = s.session.conversation
           THEN [s EXCEPT !.finished = "no", !.session.rootStartedAt = e.at]
    ELSE ChildStarted(s, e)
  ELSE IF ~StopCounts(s, e) THEN s
  ELSE LET once == [s EXCEPT !.session.stopped = @ \cup {<<e.who, e.at>>}] IN
       IF e.who = s.session.conversation
         THEN [once EXCEPT !.finished = IF e.error THEN "error" ELSE "done"]
         ELSE ChildStopped(once, e)

OfWorkers(s, e) ==
  IF e.token = s.session.token /\ s.stage.turn # 0 THEN Observed(s, e) ELSE s

\* Until 3 seconds after the job its children may still say something.
OfOutputs(s, file) ==
  LET turn == IF file.job = s.session.token THEN s.stage.turn ELSE s.session.completed
      give(g, c) ==
        IF file.output[c] = 0 THEN g ELSE SubagentOutput(g, turn, c, file.output[c])
  IN IF turn = 0 \/ file.job \notin {s.session.token, s.session.completed} THEN s
     ELSE [s EXCEPT !.stage = FoldLeft(give, @, SetToSeq(Child))]

\* The job ends after everything that this poll has read.
Finished(s) ==
  IF s.finished = "no" THEN s
  ELSE [s EXCEPT !.session.completed = s.session.token, !.session.token = 0,
                 !.stage = FinishStage(s.stage, s.finished = "error")]

-------------------------------------------------------------------------------
(* The poll and the timer *)

ReadLifecycle ==
  /\ poll = "idle"
  /\ poll' = "lifecycle"
  /\ batch' = [batch EXCEPT !.lifecycle = lifecycle] /\ lifecycle' = <<>> /\ ran' = {}
  /\ UNCHANGED <<token, hooks, real, hooked, spawned, context, agents, workers, outputVars,
                 session, stage>>

\* What comes between these two reads is read by the next poll, or was before.
ReadWorkersAndOutputs ==
  /\ poll = "lifecycle"
  /\ poll' = "outputs"
  /\ batch' = [batch EXCEPT !.workers = workers,
                            !.outputs = IF fresh THEN snapshot ELSE NoSnapshot]
  /\ workers' = <<>> /\ fresh' = FALSE /\ ran' = {}
  /\ UNCHANGED <<token, hooks, real, hooked, spawned, context, agents, lifecycle, view,
                 snapshot, session, stage>>

Process ==
  LET s0 == [session |-> session, stage |-> stage, view |-> view, finished |-> "no"]
      s1 == FoldLeft(OfLifecycle, s0, batch.lifecycle)
      s2 == FoldLeft(OfWorkers, s1, batch.workers)
      end == Finished(OfOutputs(s2, batch.outputs))
  IN /\ poll = "outputs"
     /\ poll' = "idle" /\ batch' = NoBatch
     /\ session' = end.session /\ stage' = end.stage /\ view' = end.view
     /\ UNCHANGED <<bridgeVars, snapshot, fresh>>

\* 3 seconds after a child stopped, and after a job ended.
CloseTime(c) ==
  /\ stage.panes[c].closing = "armed"
  /\ stage' = [stage EXCEPT !.panes[c].closing = "due"]
  /\ UNCHANGED <<bridgeVars, outputVars, pollVars, session>>

CompletedTime ==
  /\ session.completed # 0
  /\ session' = [session EXCEPT !.completed = 0]
  /\ UNCHANGED <<bridgeVars, outputVars, pollVars, stage>>

\* The timer for the first deadline; every other call of tick() closes as much.
TimerFires ==
  /\ stage.timer /\ \E c \in Conv : stage.panes[c].closing = "due"
  /\ stage' = Tick(stage)
  /\ UNCHANGED <<bridgeVars, outputVars, pollVars, session>>

\* The speaker or an administrator closes the pane.
Dismiss(c) ==
  /\ c \in Shown(stage)
  /\ stage' = [stage EXCEPT !.dismissed = @ \cup {c}, !.panes[c] = NoPane]
  /\ UNCHANGED <<bridgeVars, outputVars, pollVars, session>>

SubagentsNext ==
  \/ Submit \/ RootStarts \/ RootStops \/ Observes \/ StopRepeated(Root)
  \/ \E c \in Child :
       \/ Spawns(c) \/ SendsMessage(c) \/ Kills(c) \/ ChildStarts(c) \/ ChildStops(c)
       \/ StopsUnseen(c) \/ StopRepeated(c) \/ Says(c) \/ CloseTime(c) \/ Dismiss(c)
  \/ ReadLifecycle \/ ReadWorkersAndOutputs \/ Process \/ CompletedTime \/ TimerFires

\* The poll goes on and the timers fire; no hook has to run.
PollGoesOn(from, to) == WF_poll(poll = from /\ poll' = to)

SubagentsSpec ==
  /\ SubagentsInit /\ [][SubagentsNext]_vars
  /\ PollGoesOn("idle", "lifecycle") /\ PollGoesOn("lifecycle", "outputs")
  /\ PollGoesOn("outputs", "idle")
  /\ WF_vars(TimerFires) /\ \A c \in Child : WF_vars(CloseTime(c))

-------------------------------------------------------------------------------

\* A job belongs to the main conversation: a late hook of a child does not take the next
\* speaker's submission.
RootClaims == stage.turn # 0 => session.conversation = Root

\* What the hooks told of a child: its own, or else the observer's.
Works(c) == IF session.children[c].hooked THEN real[c] = "working" ELSE agents[c] = "working"

\* Once everything is read, a child is shown at work if it is, and its pane does not close
\* then, unless by hand.
WorkSettled ==
  poll = "idle" /\ lifecycle = <<>> /\ workers = <<>> /\ stage.turn # 0 =>
    \A c \in Child : session.children[c] # NoChild =>
      /\ Works(c) <=> stage.runs[c] = "working"
      /\ Works(c) /\ c \notin stage.dismissed /\ Cardinality(Child) <= MaxPanes =>
           stage.panes[c].state = "working" /\ stage.panes[c].closing = "no"

\* A pane shows the last that its child said, before its pane opened, after it was resumed, or
\* within 3 seconds after the job.
OutputShown ==
  poll = "idle" /\ ~fresh /\ snapshot.job # 0
  /\ snapshot.job \in {session.token, session.completed} =>
    \A c \in Child : c \in Shown(stage) => stage.panes[c].output = snapshot.output[c]

\* Whatever came late or twice, and in whatever order the two journals came, what the stage
\* shows of a child settles to what it does and what it said.
Settled == WorkSettled /\ OutputShown

\* A worker that has stopped leaves the stage, once a hook of its own was read: it is not left
\* there as one at work, and its pane does not stay.
StoppedLeaves ==
  \A c \in Child :
    session.children[c].hooked /\ real[c] \in Stopped
      ~> (real[c] = "working" \/ c \notin Shown(stage))

===============================================================================
