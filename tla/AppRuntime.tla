------------------------------- MODULE AppRuntime -------------------------------
(***************************************************************************)
(* The app containers of one project (server/app-runtime.ts): one          *)
(* operation at a time creates, starts and probes a container, while       *)
(* stop() may overtake it at every await, containers exit by themselves,   *)
(* and Docker may fail to confirm that one is gone.                        *)
(*                                                                         *)
(* A request names its container and its run, which are new with each, so  *)
(* one Run stands for all three.  The code compares generation numbers to  *)
(* recognise runs begun before the latest stop; the model keeps the runs   *)
(* for which they agree, in fresh.                                         *)
(*                                                                         *)
(* Assumed of Docker: `docker start` lands before a later `docker ps` of   *)
(* the same container is answered.                                         *)
(***************************************************************************)
EXTENDS Naturals, FiniteSets

CONSTANTS
  Run,      \* requests, each with its own container (randomUUID); bound
  NoRun,
  Log       \* the ids of log panes

ASSUME RunAssumption == NoRun \notin Run
ASSUME LogAssumption == Log # {}

VARIABLES
  state,      \* this.state
  epoch,      \* the run whose serve drew this.epoch
  ports,      \* the run whose published ports this.ports holds, or NoRun
  app,        \* this.appName
  op,         \* this.operation: the request under way and where it awaits
  fresh,      \* the runs begun since the latest stop(): generation unchanged
  stopping,   \* this.stopping is set
  unsafe,     \* this.unsafe
  names,      \* this.names: containers that stop() must stop
  owner,      \* this.logOwners
  exits,      \* this.logExits: runs whose log stop() must end
  request,    \* what each run was asked to do
  container,  \* external: Docker's containers, "closed" once the server knows
  logs,       \* the run each log pane shows as running
  stopResult  \* what the latest stop() told its callers

runtimeVars == <<state, epoch, ports, app, op, fresh, stopping, unsafe, names,
                 owner, exits, request, container, logs, stopResult>>

NoOperation == [at |-> "no", run |-> NoRun]
Unused == [action |-> "none", log |-> CHOOSE l \in Log : TRUE, shown |-> FALSE]

RuntimeRequest == [action : {"none", "exec", "serve"}, log : Log, shown : BOOLEAN]

RuntimeTypeOK ==
  /\ state \in {"stopped", "starting", "running", "error"}
  /\ {epoch, ports, app} \subseteq Run \cup {NoRun}
  /\ op \in [at : {"no", "environment", "replace", "create", "attached", "probe",
                   "inspect", "fetch", "failing", "stop"}, run : Run \cup {NoRun}]
  /\ fresh \subseteq Run /\ names \subseteq Run /\ exits \subseteq Run
  /\ stopping \in BOOLEAN /\ unsafe \in BOOLEAN
  /\ owner \in [Log -> Run \cup {NoRun}]
  /\ logs \in [Log -> Run \cup {NoRun}]
  /\ request \in [Run -> RuntimeRequest]
  /\ container \in [Run -> {"none", "creating", "up", "exited", "closed"}]
  /\ stopResult \in {"none", "ok", "failed"}

RuntimeInit ==
  /\ state = "stopped"
  /\ epoch = NoRun /\ ports = NoRun /\ app = NoRun
  /\ op = NoOperation
  /\ fresh = {} /\ names = {} /\ exits = {}
  /\ stopping = FALSE /\ unsafe = FALSE
  /\ owner = [l \in Log |-> NoRun]
  /\ logs = [l \in Log |-> NoRun]
  /\ request = [r \in Run |-> Unused]
  /\ container = [r \in Run |-> "none"]
  /\ stopResult = "none"

At(step) == op.at = step
Goto(step) == op' = [op EXCEPT !.at = step]
EndOp == op' = NoOperation

\* target(): where the gateway sends requests.
Target == IF state = "running" THEN ports ELSE NoRun

\* log() passes an event of run r on only in its generation and while r owns the id.
Speaks(r) == r \in fresh /\ owner[request[r].log] = r
LogsEnded(runs) ==
  [l \in Log |-> IF logs[l] \in runs /\ Speaks(logs[l]) THEN NoRun ELSE logs[l]]

Serves(r) == request[r].action = "serve"

-------------------------------------------------------------------------------
(* stopContainer() stops, kills and asks again.  Its container is "gone";   *)
(* or the outcome is "unknown": Docker still lists it, or an answer of      *)
(* Docker's is missing, which can happen for an exited container too.       *)

StoppedIn(gone) ==
  [r \in Run |-> IF r \in gone /\ container[r] = "up" THEN "exited" ELSE container[r]]

\* mutant: the names are cleared, whether or not Docker confirms.
ForgetAll(gone) ==
  /\ container' = StoppedIn(gone)
  /\ names' = {}
  /\ logs' = LogsEnded(gone \cap exits)
  /\ exits' = exits \ gone

\* The bookkeeping for containers confirmed gone.
Forget(gone) ==
  /\ container' = StoppedIn(gone)
  /\ names' = names \ gone
  /\ logs' = LogsEnded(gone \cap exits)
  /\ exits' = exits \ gone

-------------------------------------------------------------------------------
(* execute() *)

CanExecute == ~stopping /\ At("no") /\ ~unsafe

Execute(r, action, l, shown) ==
  /\ CanExecute
  /\ request[r].action = "none"
  /\ request' = [request EXCEPT ![r] = [action |-> action, log |-> l, shown |-> shown]]
  /\ owner' = [owner EXCEPT ![l] = r]
  /\ fresh' = fresh \cup {r}
  /\ op' = [at |-> "environment", run |-> r]
  /\ UNCHANGED <<state, epoch, ports, app, stopping, unsafe, names, exits,
                 container, logs, stopResult>>

\* resumeApp(): the saved command, without output of its own when it is quiet.
ResumeApp(r, l) ==
  /\ state \notin {"running", "starting"}
  /\ Execute(r, "serve", l, FALSE)

\* What the catch does once no container is left to stop: a serve of this
\* generation leaves an error behind.
FailState(r) ==
  IF Serves(r) /\ r \in fresh
    THEN ports' = NoRun /\ state' = "error"
    ELSE UNCHANGED <<ports, state>>

\* Nothing was created: a missing secret, a log that finds no place, a stop in between.
EnvironmentFails ==
  /\ At("environment")
  /\ FailState(op.run)
  /\ logs' = LogsEnded({op.run})
  /\ op' = NoOperation
  /\ UNCHANGED <<epoch, app, fresh, stopping, unsafe, names, owner, exits,
                 request, container, stopResult>>

\* mutant: the old ports outlive their app.
BeginCreateKeepsPorts(r, gone) ==
  /\ r \in fresh
  /\ IF Serves(r)
       THEN app' = NoRun /\ state' = "starting" /\ epoch' = r
       ELSE UNCHANGED <<app, state, epoch>>
  /\ names' = (names \ gone) \cup {r}
  /\ exits' = (exits \ gone) \cup {r}
  /\ container' = [StoppedIn(gone) EXCEPT ![r] = "creating"]
  /\ logs' = LET ended == LogsEnded(gone \cap exits)
             IN  IF request[r].shown THEN [ended EXCEPT ![request[r].log] = r] ELSE ended
  /\ Goto("create")
  /\ UNCHANGED <<ports, fresh, stopping, unsafe, owner, request, stopResult>>

\* From the end of the old app, if there was one, to the call of `docker create`.
BeginCreate(r, gone) ==
  /\ r \in fresh
  /\ IF Serves(r)
       THEN ports' = NoRun /\ app' = NoRun /\ state' = "starting" /\ epoch' = r
       ELSE UNCHANGED <<ports, app, state, epoch>>
  /\ names' = (names \ gone) \cup {r}
  /\ exits' = (exits \ gone) \cup {r}
  /\ container' = [StoppedIn(gone) EXCEPT ![r] = "creating"]
  /\ logs' = LET ended == LogsEnded(gone \cap exits)
             IN  IF request[r].shown THEN [ended EXCEPT ![request[r].log] = r] ELSE ended
  /\ Goto("create")
  /\ UNCHANGED <<fresh, stopping, unsafe, owner, request, stopResult>>

\* mutant: only an app that answers is replaced.
ReplacesRunning(r) == Serves(r) /\ Target # NoRun

Replaces(r) == Serves(r) /\ app # NoRun

EnvironmentReady ==
  /\ At("environment")
  /\ ~Replaces(op.run)
  /\ BeginCreate(op.run, {})

BeginReplace ==
  /\ At("environment")
  /\ op.run \in fresh
  /\ Replaces(op.run)
  /\ Goto("replace")
  /\ UNCHANGED <<state, epoch, ports, app, fresh, stopping, unsafe, names, owner,
                 exits, request, container, logs, stopResult>>

Replaced == At("replace") /\ BeginCreate(op.run, {app} \ {NoRun})

\* The old app is not confirmed gone, or a stop() in between has seen to it.
ReplaceFails ==
  /\ At("replace")
  /\ \/ /\ op.run \notin fresh
        /\ UNCHANGED unsafe
     \/ /\ app # NoRun /\ container[app] = "up"
        /\ (unsafe' = TRUE \/ UNCHANGED unsafe)
  /\ FailState(op.run)
  /\ logs' = LogsEnded({op.run})
  /\ op' = NoOperation
  /\ UNCHANGED <<epoch, app, fresh, stopping, names, owner, exits, request,
                 container, stopResult>>

\* docker create fails, or succeeds after a stop().
CreateFails ==
  /\ At("create")
  /\ container' = [container EXCEPT ![op.run] = "closed"]
  /\ Goto("failing")
  /\ UNCHANGED <<state, epoch, ports, app, fresh, stopping, unsafe, names, owner,
                 exits, request, logs, stopResult>>

\* docker create, docker start and, in public mode, the network policy.
Start ==
  /\ At("create")
  /\ op.run \in fresh
  /\ container' = [container EXCEPT ![op.run] = "up"]
  /\ \/ Serves(op.run) /\ app' = op.run /\ Goto("probe")
     \/ ~Serves(op.run) /\ UNCHANGED app /\ Goto("attached")
     \/ UNCHANGED app /\ Goto("failing")
  /\ UNCHANGED <<state, epoch, ports, fresh, stopping, unsafe, names, owner,
                 exits, request, logs, stopResult>>

\* exec and run end with their container, or by the timeout of three minutes.
ExecEnds ==
  /\ At("attached")
  /\ container[op.run] = "closed"
  /\ op' = NoOperation
  /\ UNCHANGED <<state, epoch, ports, app, fresh, stopping, unsafe, names, owner,
                 exits, request, container, logs, stopResult>>

ExecTimesOut(outcome) ==
  /\ At("attached")
  /\ IF outcome = "gone"
       THEN Forget({op.run}) /\ UNCHANGED unsafe
       ELSE unsafe' = TRUE /\ UNCHANGED <<container, names, logs, exits>>
  /\ op' = NoOperation
  /\ UNCHANGED <<state, epoch, ports, app, fresh, stopping, owner, request, stopResult>>

-------------------------------------------------------------------------------
(* serve waits for the published ports and the first answer.                *)

\* Where a round of the loop goes once it holds the mapping.
Ask == IF container[op.run] = "up" THEN "fetch" ELSE "probe"

Probe ==
  /\ At("probe")
  /\ op.run \in fresh
  /\ container[op.run] # "closed"
  /\ Goto(IF ports = NoRun THEN "inspect" ELSE Ask)
  /\ UNCHANGED <<state, epoch, ports, app, fresh, stopping, unsafe, names, owner,
                 exits, request, container, logs, stopResult>>

\* The generation is not compared here: ports may be set after a stop().
Inspected ==
  /\ At("inspect")
  /\ \/ ports' = op.run /\ Goto(Ask)
     \/ UNCHANGED ports /\ Goto("probe")
  /\ UNCHANGED <<state, epoch, app, fresh, stopping, unsafe, names, owner,
                 exits, request, container, logs, stopResult>>

Answered ==
  /\ At("fetch")
  /\ op.run \in fresh
  /\ state' = "running"
  /\ op' = NoOperation
  /\ UNCHANGED <<epoch, ports, app, fresh, stopping, unsafe, names, owner,
                 exits, request, container, logs, stopResult>>

NoAnswer ==
  /\ At("fetch")
  /\ Goto("probe")
  /\ UNCHANGED <<state, epoch, ports, app, fresh, stopping, unsafe, names, owner,
                 exits, request, container, logs, stopResult>>

\* Stopped or exited, or 150 rounds have passed.
GiveUp ==
  /\ At("probe")
  /\ Goto("failing")
  /\ UNCHANGED <<state, epoch, ports, app, fresh, stopping, unsafe, names, owner,
                 exits, request, container, logs, stopResult>>

\* The catch: stop what was created, whatever state it is in.
Fail(outcome) ==
  /\ At("failing")
  /\ IF outcome = "gone"
       THEN /\ container' = StoppedIn({op.run})
            /\ names' = names \ {op.run}
            /\ exits' = exits \ {op.run}
            /\ UNCHANGED unsafe
       ELSE unsafe' = TRUE /\ UNCHANGED <<container, names, exits>>
  /\ FailState(op.run)
  /\ logs' = LogsEnded({op.run})
  /\ op' = NoOperation
  /\ UNCHANGED <<epoch, app, fresh, stopping, owner, request, stopResult>>

-------------------------------------------------------------------------------
(* stop(), from the server or as a request of its own.                      *)

BeginStop ==
  /\ ~stopping
  /\ logs' = LogsEnded(exits)
  /\ exits' = {} /\ fresh' = {} /\ ports' = NoRun
  /\ owner' = [l \in Log |-> NoRun]
  /\ state' = "stopped"
  /\ stopping' = TRUE
  /\ UNCHANGED <<epoch, app, unsafe, names, request, container, stopResult>>

Stop == BeginStop /\ UNCHANGED op

ExecuteStop == CanExecute /\ BeginStop /\ op' = [at |-> "stop", run |-> NoRun]

\* A stop request ends with its stop.
OpAfterStop == op' = IF At("stop") THEN NoOperation ELSE op

\* mutant: the whole operation is awaited.
StopsAfterOperation == stopping /\ At("no")

\* stop() waits for every creation under way before it looks at the names.
CanStopAll == stopping /\ \A r \in Run : container[r] # "creating"

AllStopped ==
  /\ CanStopAll
  /\ Forget(names)
  /\ app' = NoRun
  /\ stopping' = FALSE
  /\ stopResult' = IF unsafe THEN "failed" ELSE "ok"
  /\ OpAfterStop
  /\ UNCHANGED <<state, epoch, ports, fresh, unsafe, owner, request>>

\* Docker confirms some only.  unsafe is set for a container it still lists, not
\* for an answer that is missing.
SomeSurvive ==
  /\ CanStopAll
  /\ \E gone \in SUBSET names \ {names} :
       /\ Forget(gone)
       /\ \/ UNCHANGED unsafe
          \/ unsafe' = TRUE /\ \E r \in names \ gone : container[r] = "up"
  /\ stopping' = FALSE
  /\ stopResult' = "failed"
  /\ OpAfterStop
  /\ UNCHANGED <<state, epoch, ports, app, fresh, owner, request>>

StopEnds == AllStopped \/ SomeSurvive

-------------------------------------------------------------------------------
(* Containers *)

\* The process ends by itself.
Exits(r) ==
  /\ container[r] = "up"
  /\ container' = [container EXCEPT ![r] = "exited"]
  /\ UNCHANGED <<state, epoch, ports, app, op, fresh, stopping, unsafe, names,
                 owner, exits, request, logs, stopResult>>

\* finish(): the attachment of the container closes.
Closes(r) ==
  /\ container[r] = "exited"
  /\ container' = [container EXCEPT ![r] = "closed"]
  /\ exits' = exits \ {r}
  /\ logs' = LogsEnded({r})
  /\ IF r \in fresh /\ app = r
       THEN ports' = NoRun /\ state' \in {"stopped", "error"}
       ELSE UNCHANGED <<ports, state>>
  /\ UNCHANGED <<epoch, app, op, fresh, stopping, unsafe, names, owner, request, stopResult>>

-------------------------------------------------------------------------------

\* The steps that Docker, a file or a deadline brings about.
Operation ==
  \/ EnvironmentFails \/ EnvironmentReady \/ BeginReplace \/ Replaced \/ ReplaceFails
  \/ CreateFails \/ Start \/ ExecEnds \/ Probe \/ Inspected \/ Answered \/ NoAnswer \/ GiveUp
  \/ \E outcome \in {"gone", "unknown"} : ExecTimesOut(outcome) \/ Fail(outcome)

RuntimeNext ==
  \/ \E r \in Run, l \in Log :
       \/ \E shown \in BOOLEAN : Execute(r, "exec", l, shown)
       \/ Execute(r, "serve", l, TRUE)
       \/ ResumeApp(r, l)
  \/ Operation
  \/ Stop \/ ExecuteStop \/ StopEnds
  \/ \E r \in Run : Exits(r) \/ Closes(r)

RuntimeSpec == RuntimeInit /\ [][RuntimeNext]_runtimeVars

-------------------------------------------------------------------------------

\* A container of an earlier generation is never left running behind a stop()
\* that reported success, not even one whose creation the stop overtook.
NoneOutlivesStop ==
  \A r \in Run : container[r] = "up" /\ r \notin fresh => stopping \/ stopResult = "failed"

\* Requests reach only the app of the current epoch, while its process is not
\* known to have ended.
TargetIsCurrent ==
  Target # NoRun => Target = epoch /\ Target = app /\ container[Target] \in {"up", "exited"}

\* Two apps of a project never share its workspace: the former is confirmed gone
\* first, or the runtime is locked.
OneApp == unsafe \/ Cardinality({r \in Run : Serves(r) /\ container[r] = "up"}) <= 1

\* A log that shows its owner as running is not forgotten: the run is alive, or
\* its end is still on the way.
LogsEnd ==
  \A l \in Log : logs[l] # NoRun /\ owner[l] = logs[l] =>
    container[logs[l]] \in {"up", "exited"} \/ op.run = logs[l]

\* A request and a stop never wait for each other, or for nothing: whoever is under
\* way can take its next step.
NothingWaitsForItself == ~At("no") \/ stopping => ENABLED (Operation \/ StopEnds)

===============================================================================
