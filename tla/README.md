# Formal verification of Pado

Pado is a stage on which several people share one coding agent: a participant
raises a hand, gets the floor for a while, types into the agent's terminal, and
everybody watches the panes that the agent and its programs show. One Node
server (`server/`) holds the state in memory, runs the agent's command line in a
Docker container, and learns what the agent does from files that hooks
(`agent/`) append to a shared directory, the *bridge*.

This directory models that server in TLA+, checks small instances with TLC and
proves theorems about all instances with TLAPS.

## The system

| part | state it keeps | operations | what makes it correct |
|---|---|---|---|
| **Stage floor** (`server/stage.ts`) | participants, speaker and the end of its lease, the hold of a submission, the job (*turn*) and its owner | join, leave, raise, release, holdTuiSubmission, begin, beginTui, finish, reset, tick | one driver at a time; a live lease is not taken away; everybody's lease ends |
| **Stage panes** (`server/stage.ts`) | visible panes in order, up to 24 saved ones, focus, the job's working basis, citable runs, phase | present (upsert, show, close, focus), terminal (open, append, ready, exit), clearForTurn, finish, checkpoint, restore, interruptTerminals | one working basis, kept while its job runs and settled afterwards; honest logs; reviews that cite real results |
| **TUI session** (`server/tui-session.ts`) | the container's process, launch and stop in flight, a generation number, the submission token, the owner of the last input, the job it began, queued clearings | ensure, launch, stop, fail, retire, input, submitPublicPrompt, tick, the poll | tokens fence jobs; only the driver's keys arrive; containers are accounted for; nobody waits for ever |
| **Hooks** (`agent/tui-hooks.mjs`) | a token per conversation | recordLifecycle for PreInvocation and Stop | a run's stop carries the token of its latest start |
| **Runner** (`server/runner.ts`) | answers being delivered, the rehearsal script | start, stop, submit, submitSecret | one answer per input, none to a closed one |
| **HTTP server** (`server/index.ts`) | sessions, rates, the open projects, the active one | about 40 routes, the one-second timer, shutdown | authority is checked where it is used; project switches exclude actions |
| **Shells** (`server/shell-sessions.ts`) | up to three interactive terminals | start, input, resize, close, reconcile, stop | a closed pane's container stops; a stale start gains no input |
| **App runtime** (`server/app-runtime.ts`) | one operation, the app's container, its ports, log owners | execute, stop | one app; nothing of a canceled operation shows up later |
| **Waiting terminals** (`server/waiting-terminal.ts`) | the buffered log of a command in the background | event, update, finish | shown only on evidence, then complete |
| **Projects** (`server/projects.ts`) | the registry, a write queue, checkpoints | create, activate, rename, save | disk and memory agree, also after a failed write |
| **Previews** (`server/preview-*.ts`) | tickets and sessions of the preview ports | authorize, proxy, upgrade, sweep | access ends with the right to it |
| **Secrets** (`server/project-secrets.ts`) | secret values, a write queue, the output filter | set, environment, filter | no value in any output, however it is split |
| **Subagents** (`agent/subagent-*.mjs`, `stage.ts`, `tui-session.ts`) | child conversations and their panes | observed, started, stopped, the delayed close | late events never reopen or close the wrong pane |
| **Web client** (`web/src/App.tsx`, `web/src/TuiPane.tsx`) | the snapshot shown, the project chosen, the composer, a terminal's screen and queued keys | stream events, checks, requests, choosing a project, frames, input | it shows what is, and acts on what it showed |

How they interact. The routes of `index.ts` call the stage and the TUI session
after an authority check. The TUI session begins and ends jobs on the stage, by
polling the hooks' journal every 75 ms. The stage knows nothing of containers;
`Runner.stop` and `fail()` bring the two together when a session ends. The timer
calls `store.tick()` and then `tui.tick()` for every project. The stage publishes
snapshots to the pages and, 200 ms later, to disk.

What is hard. JavaScript runs one callback at a time, but nearly every operation
awaits: control, generation and job are checked, something is awaited, and the
check is stale. Hooks, launches and stops overlap; their results are told apart by
tokens and generation numbers. Leases run out between any two steps. The CLI may
exit and Docker may refuse or not answer. Panes are put away, evicted, restored
and overwritten while commands still write to them.

## The modules

Every `MC*` module is an instance for TLC; its `.cfg` files give the constants.

| module | what it is |
|---|---|
| `FloorControl` | the abstract promise: who drives, without clocks |
| `StageFloor` | the floor as the code keeps it, with lease and hold; implements `FloorControl` |
| `TuiSession` | extends `StageFloor`: the session, its poll, the hooks and the CLI |
| `StagePanes` | extends `StageFloor`: panes, jobs and logs, checkpoint and restore |
| `Subagents` | child conversations from two journals, their panes and their output |
| `Answers` | inputs, secrets and their answers; the rehearsal |
| `CommandWait` | how it is seen that the agent waits for a command |
| `AppOutput` | extends `CommandWait`: what a command writes, from chunk to log |
| `AppRuntime` | the app containers of a project |
| `Previews` | extends `AppRuntime`: who may reach the app |
| `ShellSessions` | terminals opened by hand |
| `TerminalViews` | extends `ShellSessions`: a viewer's copy of a terminal, and his keys |
| `Projects` | the registry, its write queue and its undoing |
| `ProjectSwitch` | extends `Projects`: the server over its projects, start and shutdown |
| `Viewers` | a browser tab and the server it watches |
| `TuiSessionProofs`, `StagePanesProofs`, `PreviewsProofs`, `ProjectSwitchProofs`, `AnswersProofs`, `TerminalViewsProofs`, `ViewersProofs`, `AppOutputProofs` | theorems about the module each is named after, and what it extends; those about the floor are the first part of `TuiSessionProofs` |

Extending a module composes its component with the next: their steps interleave,
or one calls the other within a step, as the code does.

### StageFloor

`speaker`, `turn` and `owner` are `state.speaker?.participantId`,
`state.turn?.id` and `state.turn?.participantId`; `runner` is `state.runner`.
The code compares deadlines with `now()`. The model keeps the time that is left
(`leaseLeft`, `holdLeft`), which `Elapse` counts down: a deadline in the past is
0. Every operation begins with `tick()`; `SpeakerNow` is the speaker such a call
sees, so that it makes no difference when the timer's own `Tick` happens.
One action is one method of `StageStore`. `BeginTui` is called by the TUI session
with the owner of an input, who need not be present any more; `Begin` is the
rehearsal runner's.

`FloorControl` says what this amounts to: a holder, whether it works, and a free
floor between two holders, except that an administrator may start a job over a
speaker. `ImplementsFloorControl` maps `holder` to `Driver`. The lapse of a lease
is the abstract `Yield` at the moment the clock passes it.

### TuiSession

An action is a stretch of code between two awaits. `writes[s]` is one call of
`writeInput`: waiting for `ensure()`, for queued clearings, for the rename of
`stage.json`, and sending. `poll` is the polling callback: its files are being
read (`read`), it runs through the batch (`run`), it is suspended in `started()`
(`await`), or it waits in `fail()` (`failing`). While `poll.at = "run"`, or while
a writer's promises have all settled, no other callback is served (`Occupied`):
settled promises go before timers and requests.

Generation numbers only tell whether some work was begun before the latest launch
or stop; work in flight carries that as a flag (`poll.current`, `clears`,
`launching = "stale"`). Tokens are drawn once each, like the UUIDs they are.

The CLI is external: `agent` says whether it is idle, has been handed a line or
works; its hooks read `stageFile` and append to `journal`. The draft in its input
line is the set of sessions whose keys are in it. `submitter`, `begunWith` and
`abandoned` are history, for properties only.

Left out here: child conversations (`Subagents`), resizing, the app's resume after a restart, and
that a launch resizes its terminal before it is ready (one action, `LaunchSucceeds`).
`TimerFired` assumes that stopping one container and booting the next takes longer
than the one-second timer and the 100 ms of a clearing; without it a draft could survive a
lease that began and ended between two ticks. A session expires hours after its last
request and a lease after seconds, so that the timer, which looks at leases first, never
expires a speaker (`SessionChanges`). `abandoned` counts the drafts of leases that are
returned or that the timer finds over. A lease that an administrator's job takes over
leaves its draft in the line: `tick()` queues no clearing while a job runs.

`EndOnItsWay` asks where the end of a job is, once the CLI is idle: in a stop, in the
hooks not read yet, or in the poll that has read it. `Overtaken` names its one
exception, a job whose token was overwritten by an older Enter's late rename (see
below).

### StagePanes

`panes` and `saved` are sequences, for the order of both matters: the focus falls
back to the first pane, and the oldest saved pane is evicted first. A pane keeps
the fields that decide something: its kind, whether it was opened by hand, its
job and work state, the run a review cites and its verdict, a log's run, end and
exit code. `BeginJob`, `FinishJob`, `Restart` (checkpoint and restore), `Upsert`,
`Show`, `Close`, `Focus`, `OpenLog`, `AppendLog`, `ExitLog`, `RecordRun` and
`Interrupt` are the methods. `runs` is how far a command's events have come, and
whether they carry its job's id, as those of waiting terminals do; a run that is over
(`Gone`) keeps its exit code and its job, which a review may still ask for, and forgets
its pane.

Restart restores the very last state; that an older one may be on disk is
`ProjectSwitch`'s business. `Accepts` is the schema that a checkpoint must pass,
and `Storable` says that the stage always does; of the schema it keeps only which kind
of pane has work, checks and a run, and how many there are, so it says little. Left out: sizes, messages, shells'
panes, and the limit of 100 citable runs; subagents and answers have modules of
their own.

### Subagents

`real` is what each conversation does; `hooks` counts the hooks run and is the
time. A child's own hooks (if it inherits them) append to `lifecycle`; after each
hook of the root the observer compares the children with what it published last
and appends to `workers`. The poll reads one journal, then the other, then the
outputs, each an action, so that anything may be written in between. `stage` holds
the panes with their state and the close that is scheduled for three seconds after
a stop; `CloseTime` is that timer. `Settled` compares the stage with `real` when
everything has been read; `StoppedLeaves` follows a stop until the pane is gone.

Assumed: at most one hook of a conversation falls between the two journal reads of
a poll, and no child is spawned in that window after a hook of the root; nobody
presses Enter between the agent's start and the poll that shows it; a fully idle
stop is followed only by a submission; a child reused from an older job is not
killed. Left out: how output is rendered.

### Answers

A request is where its handler awaits: storing a secret, or writing the answer.
`object` tells the pane objects of one id apart (`state.panes.includes(pane!)`).
`published` are the upserts in the journal; the agent publishes an input again
only when its page failed. In a rehearsal `step` is where the script awaits.

### CommandWait and AppOutput

The hooks write `phase`, the command line its transcript `rows`, the helper that
runs a command its `binding`, the observer `evidence`; each is written by a
process of its own, and all of them interleave. `waits` in `evidence` is history:
whether the agent did wait when the observation was made.

`AppOutput` follows the text of one command: cut into chunks anywhere, through
the filter of each stream (`pending` is what it keeps), into the buffer of the
waiting terminal or its log. `Scan` is the replacement of secrets in a text that is
all there; `StreamRedacted` compares the filter with it. What is held back is a
sequence of letters, each with its stream: since the code appends to the last chunk
when the stream is the same, a chunk is a run of letters of one stream, and dropping
the oldest chunk is cutting where the second run begins (`Starts`). `Opened` shows it
letter by letter; cutting a log to its last letters once per chunk gives the same.

It models the default display of exec and run. `--show`, `--quiet` and serve do not
wait for evidence. `raw` is what the filters are given: a chunk of the error stream that
bears a message of the Docker client is dropped whole before them. An active input or a full stage only delays `Update`, and the
age limit of 1.5 seconds only disables it: both are covered by not taking it.
Assumed: the row of a response is written before its PostInvocation hook, which
comes before its tool returns; PostToolUse is part of the return.

### AppRuntime and Previews

A request names its container and its run, so one `Run` stands for all three.
`fresh` are the runs begun since the latest `stop()`, which the code tells by
generation numbers. `op` is the one operation with the await it is at. `exited`
containers are gone but not known to be; `unsafe` locks the runtime.

`Previews` adds one port of the gateway in public mode: a ticket is drawn,
exchanged (an await between reading the epoch and granting) and used; `Sweep` is
called wherever the code calls it. A session that expires is cut off by the
one-second timer, whose delay is allowed.

### ShellSessions and TerminalViews

A `Run` is one `start()` that got past its guards. Its starting, resizes and close
each wait for what is under way. `TerminalViews` adds one viewer: the frames on
the way to him, his `epoch` and `sequence`, the keys in his queue with the terminal
each was typed at (history), and the POST under way. A screen is the set of outputs
written to it, so equality means nothing missing, repeated or foreign. What the page
has handed to its terminal emulator counts as written, drawn or not. When more than a
megabyte waits to be drawn, the page takes a frame's number, leaves the frame out and
closes the stream until the drawing is done (`Overflow`): the screen then lags behind
its number, and `ScreenFaithful` says that nothing but a whole screen is taken until it
has been replaced.

Assumed: an attach client ends with its container and not before.

### Projects and ProjectSwitch

`writes` is the chained promise of `ProjectRegistry`: each entry has its file, its
content, fixed when it was asked for, and who awaits it. An operation changes the
registry, awaits its write and undoes the change by hand when that fails.
`ProjectSwitch` adds the server: opening (shared by everybody who asks for the
same project), creating, renaming, selecting, visitors' actions, the save timers,
shutdown, a crash at any point, and the next start from what is on disk. A stage is
the number of its changes. An error that nobody catches (a save timer of a project
that `create()` has taken back) is a crash. `floor` are the projects with a speaker, a held
floor or a participant's job, `entered` those whose `inputOwner` is an administrator and
`job` those with his job: a participant's start hook finds its speaker or is refused,
an administrator's begins a job whenever it is read (`HookBegins`).

Left out: output that reaches a stage after its job and its requests have ended
(`StageChanges`); an administrator's operation in flight at SIGTERM, whose `finally` clears
`switching`; the pause of a project over its resources; the old layout's migration.

### Viewers

One tab and what is on its way to it. The floor is that of the designated project
as this visitor sees it, and moves as `StageFloor` allows; every other project is
idle. `stream` is the EventSource, `check` the question `onerror` asks, `late` one
that a replaced stream had asked, `request` the one request under way.

Left out: several requests at once, joining in another tab, text written in the
moment an answer to a request is shown, the snapshot's `switching`, logout, the choice of
a project that was just created (`App.tsx:810`: it is no click, so the old stream may
still report itself connected before its effect is cleaned up; `Choose` is one step), and the
release an administrator clicks for somebody else (it revokes whoever speaks when
it arrives). A browser that connects again stays `connecting`.

## What the runs check

| run | instance | what it shows |
|---|---|---|
| `MCStageFloor` | 3 sessions, 2 places, 2 jobs, lease 3, hold 2, both runners | `FloorInv`, `LeaseKept`, `ImplementsFloorControl`; with the clock and the timer fair, `LeaseEndsOnceEnterStops` and `StageFreesItself` |
| `MCTuiSession` | a participant and an administrator, 2 tokens, an Enter of each in flight at once, all faults but stops that Docker does not confirm | `SessionInv` (types and `JobFenced`), `EndOnItsWay`, `OneContainer` |
| `MCTuiSessionInput` | two participants and an administrator who may log out, one token, two inputs at a time, private and public mode, stops and exits | `OnlyDriverTypes`, `ReturnedDraftErased` |
| `MCTuiSessionLive` | one participant, one job, all faults | `ContainerAccounted`, `WritersReturn` |
| `MCStagePanes` | 3 pane ids, 2 places, 1 saved place, 2 jobs, 1 run; contexts, reviews, logs | `PanesInv` (`OneBasis`, `BasisKept`, `FocusVisible`, `LogsHonest`, `Storable`), `PassedMeansRan`, `LogsFinal` |
| `MCSubagents` | one child with or without hooks of its own, 2 jobs, 5 hooks | `RootClaims`, `Settled`, `StoppedLeaves` |
| `MCAnswers` | 3 inputs, 2 of them for secrets, 3 requests, 2 jobs, each input published twice | `AcknowledgedIsRead`, `NoSecretLost`, `JobHasWorker` |
| `MCAppOutput` | 2 letters, up to 2 secrets of which one begins the other, 4 letters written, 4 rows, 2 jobs | `StreamRedacted`, `LogIsTail`, `WaitInv` |
| `MCPreviews` | 2 requests to the runtime, 1 log, 1 visitor | `PreviewsInv` (`OneApp`, `LogsEnd`), `NoneOutlivesStop`, `TargetIsCurrent`, `NothingWaitsForItself`, `NoStaleConnection` |
| `MCTerminalViews` | 2 panes, 2 terminals, 1 place for them, 1 session, 1 output each, 1 frame behind, up to the first stop that is not confirmed | `ViewsInv` (`NoOrphanShell`, `ShellsBounded`), `ScreenFaithful`, `KeysReachTheirTerminal` |
| `MCProjects` | 3 ids for 2 places, 2 names, 2 requests, 1 session, 1 change of each stage | `DiskInv`, `OnlySelectedWorks`, `EveryoneJoined`, `CheckpointsForward` |
| `MCViewers` | 2 projects and one that is gone, 1 event on its way | `ViewersInv`, `ActsWhereShown`, `SessionKept`, `Follows` |

Bounds. With a lease of 3 and a hold of 2 a hold may end before, with or after
the lease it extends. In `TuiSession` a lease and a hold of one step are enough,
because only "over" and "not over" are told apart, and `Elapse` may happen between
any two awaits. Two tokens and two jobs give an earlier and a later one, which is
all that a stale hook can confuse; where two participants share one input line, one of
each is enough. `MCTuiSession` leaves out inputs without Enter (`EntersOnly`), which draw
no token and are what `MCTuiSessionInput` is about. Liveness is checked with one of each, for the
size of the graph; that an Enter during a job must not draw a new token, or the job
could never end, is part of `JobFenced`. `MaxJournal` bounds the hooks not yet handled
(a start and a stop), `MaxClears` the queued clearings, `Faults` names the
interruptions an instance allows. Two places and one saved place make every
eviction, refusal and restoration happen with three panes; inputs are in `Answers`.
Two requests to the runtime are one that is overtaken and one that follows. A
third would only repeat that. Two secrets of which one begins the other, with four
letters, let a secret end in a chunk, span two, or turn out to be the longer one;
a log of three letters loses its oldest. Five hooks let a child start, stop and be
resumed between two hooks of the root. One event of a viewer's stream may be on its
way while another is broadcast. `UntilUnsafe` ends an exploration of terminals where a stop
was not confirmed: no shell is opened after it, and `unsafe` is all that is promised of
containers then. `ResizedWhileWatched` lets a resize be under way only while the viewer's
stream is open: shells do not depend on who watches them, and without a stream he sees
nothing of it. `SecondJobRuns` ends an exploration of panes
with the second job, whose end differs from the first one's in nothing. `Bounded`, of
`MCProjects`, lets two of a held floor, an administrator's submission and the queued writes
be there at once, which lets a late hook, a switch and a save meet in pairs. `MaxWrites` there bounds the save timer only: other
writes are bounded by the requests. Pane, run, job and token ids are symmetric: they
are random and only compared. Deadlock is checked for the floor; in the other
instances jobs, tokens and runs are used up, and a system without requests stands
still. That nobody waits for himself is checked for the runtime as
`NothingWaitsForItself`; its liveness under fairness exceeds what TLC does in the
time of a run.

Fairness. The floor assumes only that time passes and the timer fires. `FairSpec`
of `TuiSession` assumes that Docker answers, that files get written, and that the
event loop takes up every ready callback (strong fairness, because another
callback may run first any number of times), and that no run of the CLI is endless: one
that went on writing hooks would keep the bounded journal full. That bound is also why no
run checks that every job ends; `EndOnItsWay` says, as safety, that its end is on the way. Nobody is assumed to press a key, raise or
return a hand. In `Subagents`
the poll goes on (stated through its phases) and timers fire; nothing is assumed of
the agent. In `Viewers` broadcasts, deliveries and answers go on; nobody has to
touch the page, and `Follows` is about the time when disturbances have stopped.

## Where code and documents disagree

The models follow the code. Where a document, a comment or a test says otherwise:

- `tui-session.ts:550` makes the author of the last key before the poll reads the
  start hook the owner of the job. An administrator's key between a participant's
  Enter and that moment makes the administrator the owner, and the participant
  cannot answer the job's inputs. `docs/DECISIONS.md:27`: "Input 답변은 작업을 시작한
  참가자와 관리자만 제출하며".
- `tui-session.ts:555` draws a new token at a second Enter before the first one's
  start hook is read. That hook is stale, no job begins, and the floor can pass on
  while the CLI works. `docs/DECISIONS.md:27`: "실행 중에는 다음 발언권을 주지 않는다.";
  `docs/AGENT.md:12` says the same of `Stop`.
- `tui-session.ts:531` sets `publicSubmission`, which nothing clears when the lease
  of a prompt that started no run lapses; later prompts are refused with the text
  of line 535, "현재 작업을 마친 뒤 다시 요청해 주세요.", though there is no work.
- `stage.ts:604` lets `terminal.open` replace an open input and does not recompute
  the phase. `tests/stage.test.ts:191`: "waiting phase follows all pending inputs,
  including closing the last request".
- `tui-session.ts:281` sends a waiting terminal's events with its job's id, and
  `stage.ts:575` drops them once that job is over, its exit among them; the log
  stays "running". `docs/WAITING_TERMINALS.md:19`: "이미 열린 로그는 명령이
  백그라운드로 전환되어도 유지하며, 실제 종료 코드까지 기록한다."

The floor's grace is modelled as it is: an Enter during the grace of the previous
one extends it again, without limit. `LeaseEndsOnceEnterStops` therefore speaks of
the time after the last Enter.

Two more the properties except by name. Two Enters in flight at once, an
administrator's and a participant's, may rename `stage.json` out of order
(`tui-session.ts:676`, called at line 558): the first one's token is recorded last, the
CLI's next hook carries it, and its stop is not the job's (`tui-session.ts:391`). The job
then stays until somebody stops the session; `EndOnItsWay` excepts it as `Overtaken`, and
without that exception TLC finds it in 17 steps. And an administrator's Enter needs no
lease: it holds the floor for five seconds (`stage.ts:262`), after which the project is
not busy and may be left; his start hook read later (`tui-session.ts:447`) begins a job
on a project that is not selected. `OnlySelectedWorks` is about everything else.

Seen while modelling and outside every property: the page of an input that reports
an error while its answer is being written can never be answered once published
again (`runner.ts:122`); `answer.json` files are not deleted, so a reused id reads an
old answer; a log id taken over by a quiet or refused request leaves the older log
without an end (`app-runtime.ts:63`); a serve refused for a missing secret clears the
ports of the app that still runs (`app-runtime.ts:284`); a shell that exits during
its first resize is shown as ready (`shell-sessions.ts:131`); a child's output is
lost when its snapshot cannot be written (`subagent-output.mjs:394`).

## What is proved

Each theorem holds for all values of the constants under the assumptions named
here, bounds included: a bound that a run sets to 2 is any number. Where a safety
property is not inductive, the invariant around it (`...IInv`) was first checked by
TLC on the run's instance and then proved; its parts are explained below, for they
are what the code relies on without saying so. A theorem about an action property is
proved from the same invariant.

The floor, in `TuiSessionProofs`. Assumed: "no session" and "no job" are not names of
one, and lease and hold are positive.

- `FloorInvHolds`, with `FloorTypesHold` and `FloorExclusiveHolds`: the types, and
  that a job leaves no speaker, a free floor no lease, and a job is never without an
  owner. Only the conjunction `FloorInv` is inductive: that `finish` leaves no lease
  behind needs to know that the running job left none.
- `LeaseKeptHolds`: all actions but `Leave`, `Release`, `Begin`, `BeginTui` and
  `Reset` leave a live speaker alone.
- `FloorImplementsControl`: every step is a step of `FloorControl` or none.
  `FloorInv` is needed for `Finish` and `Reset`, to know that no speaker waits behind
  the job.

The session, in `TuiSessionProofs`. Assumed, besides: "no token" is no token, the bounds are numbers,
and modes, administrators, leavers and faults are drawn from what they are.

- `ContainersAccountedFor`: no container is forgotten. `ContainerAccounted` is
  inductive by itself, because `ensure()` refuses to launch while a stop is under
  way or the session is locked, and `launch` keeps what it waits for in `launching`.
- `OneContainerHolds`: `BootsAlone` takes from `ContainerAccounted` that where
  `ensure()` may launch there is no container, also none that the server lost sight of.
- `SessionInvHolds`, and so `JobFenced`: the session's job is the stage's, under the
  token of the hook that began it. `TuiIInv` adds three parts. `DrawnTokens`: every
  token that the file, the container, the journal or the poll's batch holds has been
  drawn, so that the token of a new Enter meets no copy of itself. `LaunchesAlone`: a
  running session has no launch or stop under way, and only its poll is current.
  `OrphansMatchNothing`: a batch that outlives its session holds nothing under the
  present token; without it a hook of the session before could begin a job in the next.
- `OnlyDriverTypesHolds`: control is checked again behind every await at which keys
  or Enter leave the server.
- `ReturnedDraftErasedHolds`, with one more part, `Erasing`: while the session runs, the
  timer has seen the present speaker, every queued clearing still counts, and as long as
  something is left of an older lease such a clearing is queued and no input has got past
  it. Any key comes from an input that is ready, so it finds nothing left. The attempt
  showed that the property, checked until then with one participant, failed with two in
  the model: a speaker's session could expire during its lease and an administrator's
  job begin before the timer looked. The code excludes the first (`SessionChanges`), and
  the property now speaks of every key, also an administrator's.
- `SessionKeepsLeases`: every step of the session is one of `StageFloor` or leaves
  the floor alone, so the floor's `LeaseKept` holds of the composition.
- `SessionKeepsControl`: for the same reason every step of the session is a step of
  `FloorControl` or none. The initial state is not part of it, because sessions are
  modelled from a moment at which administrators have already logged in.

`StagePanesProofs`. Assumed, besides what the floor assumes: the agent is no pane,
"no pane" and "no run" are none, and there is a place for a visible and for a saved pane.

- `PanesInvHolds`, from `PanesIInv`. What is said of work (`Works`) and of logs (`Logs`)
  is said of the *set* of panes in both lists, so that one lemma carries it over each
  reordering. The heart is in three places. The basis is among the *saved* panes as long
  as its job runs (`PointersOK`), which is why `remember()` must keep it when it evicts and
  why closing a pane cannot lose it; the visible copy alone would not do. Two copies of a
  log tell the same (`SameLog`), which every write keeps only because `terminal()` writes
  the visible pane and puts its copy away in one go. And a log that is open is in the
  pane its run was given (`LogTrue`), so that no event finds the log of another.
- `LogsFinalHolds`: every action shows `LogsKept` of the panes before and after it; that
  an id is never given from a log to something else is the refusal in `pane.upsert` (of
  visible *and* of saved logs).
- `PassedMeansRanHolds`: what a review may cite is over and of the running job (`RunsOK`,
  by the fact that the ids of jobs are spent), and a verdict that is copied was earned
  before (`Earned`).
- The lists are computed by recursive functions (`Among`, `RememberAll`). The library's
  induction theorem takes the formula as a parameter; `SetInduction` says the same of
  sets of numbers, from the library's fact that numbers are well-founded, and is cited with
  the set of places up to which a list is as claimed.

`PreviewsProofs`. Assumed: "no run" is no run, and there is a log id.

- `NoneOutlivesStopHolds`, `TargetIsCurrentHolds`, of the runtime alone, from
  `RuntimeIInv`. It ties each await of the one operation to what it has made so far
  (`OpHasRun`, `Unmade`, `ServeInCharge`), says that `stop()` knows every container
  that may be up, the one being created included (`RunningIsNamed`), and that after it
  nothing is fresh (`StopForgets`).
- `PreviewsInvHolds` (`OneApp`, `LogsEnd`) and `NoStaleConnectionHolds`, of runtime
  and gateway. That a connection's app is the one of the epoch its visitor entered
  (`ConnectionsMatch`) turns the sweep's comparison of epochs into one of apps.
- `GatewayLeavesRuntime`: the gateway's steps are none of the runtime's, so the
  first two hold behind it.

`ProjectSwitchProofs`. Assumed: the default is a project, at least one fits, there is
a name, "registry" is no project, and the server's own writes are nobody's request.

- `DiskInvHolds`, `OnlySelectedWorksHolds`, `EveryoneJoinedHolds`, from `SwitchIInv`. What
  `OnlySelectedWorks` says of floors needs that `switchProject` looks at the floor and the
  job of the project it leaves, and that only requests of the selected project take one.
  `FileIsUndone` is the heart: while the registry is written for a request, the file
  is exactly what the undoing by hand would restore, and no second write of it waits.
  `SelectedIsOpen` turned up as missing in the attempt: that a stage is open before it
  is selected, also at the start. `SwitchIsAlone` says that actions and a switch exclude
  each other, `QuietOutside` what a process that does not serve has left behind.
- `CheckpointsGoForward`: from `CheckpointsInOrder` (the writes of a stage wait in the
  order of their content, behind the one on disk) every write that is done is newer.
  `ShutdownUnderWay` follows what a stop must save from the stage through the queue.

`AnswersProofs`. Assumed: secrets are asked for by panes, "none" is neither pane nor
request, and the bounds are numbers.

- `AcknowledgedIsReadHolds`. The argument: one request at a time is under way for an
  input, because it is locked (`OneUnderWay`); one at most claims it in a job
  (`OneClaims`); all that answer an input do so in one job (`OneJob`, from
  `AskedInThisJob`); and what is in the bridge comes from the one that claimed it
  (`ReadIsAcknowledged`). `AtWork` is what lets an input be asked only while the CLI of
  its job runs.
- `NoSecretLostHolds`: each `set()` of the queue has a request of its own, and only
  the first may have read, the file as it still is (`SavesQueued`).
- `JobHasWorkerHolds`: a stop that aborts the script is under way for its very job
  (`AbortedIsStopped`).

`TerminalViewsProofs`. Assumed: there are sessions and panes, "no run" is none, the
bounds are numbers, and a viewer may be a frame behind.

- `ViewsInvHolds` (`NoOrphanShell`, `ShellsBounded`), from `ShellIInv`: a container
  that is up is its pane's, has not ended, and is shown or being closed (`UpIsHosted`),
  because whatever is past its launch has a process to close (`ProcessKnown`).
  `UpIsBounded` counts: a launch adds at most one, and only below the limit.
- `ScreenFaithfulHolds`: `ScreenFaithful` needs only that a frame without a terminal is
  the empty reset (`FramesOK`): the property itself says what a screen that lags waits for.
- `KeysReachTheirTerminalHolds`: keys wait only for the terminal shown, and a POST
  names the one they were typed at (`KeysAreHere`).
- `ViewsLeaveShells`: every step is one of `ShellSessions` or none.

`ViewersProofs` proves `ViewersInvHolds`, `ActsWhereShownHolds` and `SessionKeptHolds`.
Assumed: the names for "none chosen", "gone" and "no text" are no projects, and at
least one event may be on its way. The invariant `ViewersIInv` says, besides, of what is
on its way: events are of the project chosen (a new stream takes none of the old one's);
nothing comes of a project that is gone; at the entry there is no stream, so that a new
session is never met by an old answer; a check's finding still holds when it is told; a
request knows the project of the page that sent it; and the text in the composer is of
the project the stream showed last.

`AppOutputProofs`, for any letters, jobs, rows and limits. Assumed: the limits are
numbers, no secret is empty, the secrets are finitely many (they are limited in length
and in number), and the two marks are no letters.

- `WaitInvHolds`. `PhaseIsTrue` is the heart: in the phase "tools" the agent waits for
  its last call, or the transcript's last row says that it is done; so whatever the
  observer takes for a wait is one (`WaitingStepsWait`), and a new start clears what was
  seen.
- `StreamRedactedHolds`, from `StreamInv`. A reading of a text (`Reads`) is the sequence
  of places where the loop of `write()` stands, and what it puts out at each. `Runs` says
  that what a stream has said so far and what its filter keeps are such a reading of all
  its raw text, up to the boundary. Readings agree on what both have read
  (`ReadsAgree`); a reading up to the boundary stays one when more text follows, because
  a secret that begins before it has come whole (`ReadsLonger`, `SameMatch`); and a
  reading of what is kept continues it (`ReadsJoin`). That is why cutting the text changes
  nothing, and why `Keep` must be as long as it is. `ReadsSilent`: where a reading copies
  letters, no secret begins.
- `LogIsTailHolds`, from `OutputInv`. What is held back is the end of what was said
  (`Held`), and a log that was opened in this job is the end of it, without the marks
  (`TailOf`). Appending keeps both whatever is cut (`HeldGrows`, `LogGrows`), and
  opening turns the one into the other (`HeldOpens`).

Functions defined by recursion over a text are reasoned about through their equations
(`Recursion`, `OneRecursion`), and induction is a lemma about a set of numbers
(`SetInduction`), from the well-founded order on numbers: the library's own takes a
predicate.

Only checked by TLC:

- `RootClaims` and `Settled` of `Subagents`, which fold over a journal with hooks that
  come twice and late.
- `EndOnItsWay` of `TuiSession`.
- `NothingWaitsForItself` of `AppRuntime`, which is about ENABLED.
- Liveness: `LeaseEndsOnceEnterStops`, `StageFreesItself`, `WritersReturn`,
  `StoppedLeaves`, `Follows`.

## Plan

Next are the child's claims in `Subagents`, with the induction of `StagePanesProofs`. Then
instances with two children and with two tabs.

## What is not modelled

Docker's and the network policy's configuration, HTTP proxying, screen emulation,
rendering, validation and formatting of messages are I/O or text. The former
`agent-session.ts` is only used by tests. `PROJECT.json` lists every part with its
status and what of it is left out.
