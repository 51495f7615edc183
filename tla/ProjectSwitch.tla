----------------------------- MODULE ProjectSwitch -----------------------------
(***************************************************************************)
(* The server over its projects (server/index.ts): projects are opened,    *)
(* created, renamed and selected while visitors act on the selected one,   *)
(* its stage is saved a moment after each change, sessions come and go,    *)
(* and the process is told to stop, or crashes, at any point and starts    *)
(* again from what it finds on the host.                                   *)
(*                                                                         *)
(* Assumed: a file that was written is read back; a checkpoint fits its    *)
(* schema.                                                                 *)
(***************************************************************************)
EXTENDS Projects

CONSTANTS
  Session,
  Request   \* requests under way at once; bound

\* The registry is no project, and the server's own writes are nobody's request.
ASSUME SwitchAssumption ==
  "registry" \notin Project /\ {"init", "timer", "shutdown"} \cap Request = {}

VARIABLES
  up,         \* "down", "init", "opening", "up", "stopping", or "exited" after a stop
  activeId,
  switching,
  opening,    \* openingProjects that are not settled
  opened,     \* projectSessions
  sessions,
  joined,     \* store.state.participants of each open project
  stage,      \* the changes in each open store
  timer,      \* the projects with a saveTimer
  floor,      \* projects with a speaker, a held floor or a participant's job
  entered,    \* projects whose inputOwner is an administrator
  job,        \* projects with an administrator's job
  request,    \* what each request does and awaits
  shutdown,   \* how far shutdown() is with each project
  due         \* the changes each stage had when shutdown() was called

work == <<floor, entered, job>>
memory == <<activeId, switching, opening, opened, sessions, joined, stage, timer, work,
            request, shutdown, due>>
switchVars == <<registry, file, stages, writes, up, memory>>

Idle == [kind |-> "idle", at |-> "-", project |-> Default, undo |-> NoUndo]

RequestState ==
  [kind : {"idle", "action", "create", "select", "rename"},
   at : {"-", "open", "persist"},
   project : Project,
   undo : [active : Project, index : Nat, name : Name]]

SwitchTypeOK ==
  /\ up \in {"down", "init", "opening", "up", "stopping", "exited"}
  /\ stages \in [Project -> 0..MaxVersion]
  /\ activeId \in Project
  /\ switching \in BOOLEAN
  /\ opening \subseteq Project /\ opened \subseteq Project
  /\ sessions \subseteq Session
  /\ joined \in [Project -> SUBSET Session]
  /\ stage \in [Project -> 0..MaxVersion] /\ due \in [Project -> 0..MaxVersion]
  /\ timer \subseteq opened
  /\ floor \subseteq opened /\ entered \subseteq opened /\ job \subseteq opened
  /\ shutdown \in [Project -> {"-", "stop", "save"}]
  /\ request \in [Request -> RequestState]

\* A process that has just been started, or is gone.
Blank ==
  /\ activeId' = Default /\ switching' = FALSE
  /\ opening' = {} /\ opened' = {}
  /\ sessions' = {} /\ joined' = [p \in Project |-> {}]
  /\ stage' = [p \in Project |-> 0]
  /\ timer' = {} /\ floor' = {} /\ entered' = {} /\ job' = {}
  /\ request' = [r \in Request |-> Idle]
  /\ shutdown' = [p \in Project |-> "-"]

SwitchInit ==
  /\ registry = Initial /\ file = NoFile
  /\ stages = [p \in Project |-> 0]
  /\ writes = <<>>
  /\ up = "down"
  /\ activeId = Default /\ switching = FALSE
  /\ opening = {} /\ opened = {}
  /\ sessions = {} /\ joined = [p \in Project |-> {}]
  /\ stage = [p \in Project |-> 0]
  /\ timer = {} /\ floor = {} /\ entered = {} /\ job = {}
  /\ request = [r \in Request |-> Idle]
  /\ shutdown = [p \in Project |-> "-"]
  /\ due = [p \in Project |-> 0]

Serving == up \in {"up", "stopping"}

-------------------------------------------------------------------------------
(* The process. *)

Crash ==
  /\ Blank
  /\ up' = "down" /\ registry' = Initial /\ writes' = <<>>
  /\ due' = [p \in Project |-> 0]
  /\ UNCHANGED <<file, stages>>

\* init(), and the opening of every project before the server listens.
Boot ==
  /\ up \in {"down", "exited"}
  /\ IF file = NoFile
       THEN /\ Persist(Initial, "init")
            /\ up' = "init"
            /\ UNCHANGED <<activeId, opening>>
       ELSE /\ registry' = file
            /\ up' = "opening"
            /\ activeId' = file.active
            /\ opening' = Ids(file)
            /\ UNCHANGED writes
  /\ due' = [p \in Project |-> 0]
  /\ UNCHANGED <<file, stages, switching, opened, sessions, joined, stage, timer, work,
                 request, shutdown>>

Listen ==
  /\ up = "opening" /\ opening = {}
  /\ up' = "up"
  /\ UNCHANGED <<registryVars, memory>>

-------------------------------------------------------------------------------
(* openProject() *)

\* Mutant: the sessions are joined to a project as it is created only.
OpenedAlone(p) ==
  /\ p \in opening \cap Ids(registry)
  /\ opening' = opening \ {p}
  /\ opened' = opened \cup {p}
  /\ stage' = [stage EXCEPT ![p] = stages[p]]
  /\ UNCHANGED <<registryVars, up, activeId, switching, sessions, joined, timer, work,
                 request, shutdown, due>>

\* The checkpoint is loaded, its preview listens, and whoever is in the room joins it.
Opened(p) ==
  /\ p \in opening \cap Ids(registry)
  /\ opening' = opening \ {p}
  /\ opened' = opened \cup {p}
  /\ stage' = [stage EXCEPT ![p] = stages[p]]
  /\ joined' = [joined EXCEPT ![p] = sessions]
  /\ UNCHANGED <<registryVars, up, activeId, switching, sessions, timer, work, request,
                 shutdown, due>>

Waits(r, p) == request[r].at = "open" /\ request[r].project = p

\* A file is not read, a port is taken or create() has taken the project back: whoever
\* waits for it fails with it.
OpenFails(p) ==
  /\ p \in opening
  /\ IF up = "opening"
       THEN Crash
       ELSE /\ opening' = opening \ {p}
            /\ request' = [r \in Request |-> IF Waits(r, p) THEN Idle ELSE request[r]]
            /\ switching' = (switching /\ \A r \in Request : ~Waits(r, p))
            /\ UNCHANGED <<registryVars, up, activeId, opened, sessions, joined, stage,
                           timer, work, shutdown, due>>

\* A request that only looks at a project opens it too, even one that create() has not
\* written yet.
View(p) ==
  /\ Serving /\ sessions # {}
  /\ p \in Ids(registry) \ (opened \cup opening)
  /\ opening' = opening \cup {p}
  /\ UNCHANGED <<registryVars, up, activeId, switching, opened, sessions, joined, stage,
                 timer, work, request, shutdown, due>>

-------------------------------------------------------------------------------
(* The administrator's requests, one at a time while switching is set. *)

CanAdminister(r) == Serving /\ sessions # {} /\ request[r] = Idle /\ ~switching

Awaits(r, kind, at, p, undo) ==
  request' = [request EXCEPT ![r] = [kind |-> kind, at |-> at, project |-> p, undo |-> undo]]

Fresh(p) == p \notin Ids(registry) \cup opened \cup opening /\ stages[p] = 0

CreateProject(r, p, n) ==
  /\ CanAdminister(r)
  /\ Fresh(p)
  /\ Create(p, n, r)
  /\ switching' = TRUE
  /\ Awaits(r, "create", "persist", p, NoUndo)
  /\ UNCHANGED <<file, stages, up, activeId, opening, opened, sessions, joined, stage, timer,
                 work, shutdown, due>>

RenameProject(r, p, n) ==
  /\ CanAdminister(r)
  /\ p \in Ids(registry)
  /\ Rename(p, n, r)
  /\ switching' = TRUE
  /\ Awaits(r, "rename", "persist", p,
            [NoUndo EXCEPT !.index = IndexOf(p), !.name = registry.projects[IndexOf(p)].name])
  /\ UNCHANGED <<file, stages, up, activeId, opening, opened, sessions, joined, stage, timer,
                 work, shutdown, due>>

\* store.interactionBusy
Busy(p) == p \in floor \cup job

\* mutant: only the job and the floor are asked about.
CanSwitchAmidActions == ~Busy(activeId)

CanSwitch ==
  ~Busy(activeId) /\ \A r \in Request : request[r].kind # "action"

\* switchProject(), which opens the project it is to leave to.
SelectProject(r, p) ==
  /\ CanAdminister(r)
  /\ CanSwitch
  /\ p \in Ids(registry) \ {activeId}
  /\ switching' = TRUE
  /\ opening' = IF p \in opened THEN opening ELSE opening \cup {p}
  /\ Awaits(r, "select", "open", p, NoUndo)
  /\ UNCHANGED <<registryVars, up, activeId, opened, sessions, joined, stage, timer, work,
                 shutdown, due>>

\* The project a request waits for is open.
OpenDone(r) ==
  /\ request[r].at = "open" /\ request[r].project \in opened
  /\ IF request[r].kind = "create"
       THEN /\ switching' = FALSE
            /\ request' = [request EXCEPT ![r] = Idle]
            /\ UNCHANGED <<registry, writes>>
       ELSE /\ Activate(request[r].project, r)
            /\ Awaits(r, "select", "persist", request[r].project,
                      [NoUndo EXCEPT !.active = registry.active])
            /\ UNCHANGED switching
  /\ UNCHANGED <<file, stages, up, activeId, opening, opened, sessions, joined, stage, timer,
                 work, shutdown, due>>

-------------------------------------------------------------------------------
(* Writes end. *)

InitWritten(i) ==
  /\ writes[i].waiter = "init"
  /\ Written(i)
  /\ up' = "opening"
  /\ activeId' = registry.active
  /\ opening' = Ids(registry)
  /\ UNCHANGED <<registry, switching, opened, sessions, joined, stage, timer, work, request,
                 shutdown, due>>

RequestWritten(i, r) ==
  /\ writes[i].waiter = r
  /\ Written(i)
  /\ IF request[r].kind = "create"
       THEN /\ Awaits(r, "create", "open", request[r].project, NoUndo)
            /\ opening' = opening \cup ({request[r].project} \ opened)
            /\ UNCHANGED <<switching, activeId>>
       ELSE /\ request' = [request EXCEPT ![r] = Idle]
            /\ switching' = FALSE
            /\ activeId' = IF request[r].kind = "select" THEN request[r].project ELSE activeId
            /\ UNCHANGED opening
  /\ UNCHANGED <<registry, up, opened, sessions, joined, stage, timer, work, shutdown, due>>

RequestNotWritten(i, r) ==
  /\ writes[i].waiter = r
  /\ NotWritten(i)
  /\ registry' = Undone(request[r].kind, request[r].undo)
  /\ request' = [request EXCEPT ![r] = Idle]
  /\ switching' = FALSE
  /\ UNCHANGED <<up, activeId, opening, opened, sessions, joined, stage, timer, work, shutdown,
                 due>>

\* A checkpoint of the timer, whose failure is only logged, or of shutdown().
StageWritten(i) ==
  /\ writes[i].waiter \in {"timer", "shutdown"}
  /\ Written(i)
  /\ shutdown' = IF writes[i].waiter = "shutdown"
                   THEN [shutdown EXCEPT ![writes[i].document] = "-"] ELSE shutdown
  /\ UNCHANGED <<registry, up, activeId, switching, opening, opened, sessions, joined, stage,
                 timer, work, request, due>>

StageNotWritten(i) ==
  /\ writes[i].waiter = "timer"
  /\ NotWritten(i)
  /\ UNCHANGED <<registry, up, memory>>

-------------------------------------------------------------------------------
(* Visitors, and their work on the stage. *)

Join(s) ==
  /\ Serving /\ s \notin sessions
  /\ sessions' = sessions \cup {s}
  /\ joined' = [p \in Project |-> IF p \in opened THEN joined[p] \cup {s} ELSE joined[p]]
  /\ timer' = opened
  /\ UNCHANGED <<registryVars, up, activeId, switching, opening, opened, stage, work, request,
                 shutdown, due>>

\* The one-second timer, until shutdown() clears it.
Expire(s) ==
  /\ up = "up" /\ s \in sessions
  /\ sessions' = sessions \ {s}
  /\ joined' = [p \in Project |-> IF p \in opened THEN joined[p] \ {s} ELSE joined[p]]
  /\ timer' = opened
  /\ UNCHANGED <<registryVars, up, activeId, switching, opening, opened, stage, work, request,
                 shutdown, due>>

CanAct(r) == Serving /\ sessions # {} /\ request[r] = Idle /\ ~switching

BeginAction(r) ==
  /\ CanAct(r)
  /\ Awaits(r, "action", "-", activeId, NoUndo)
  /\ UNCHANGED <<registryVars, up, activeId, switching, opening, opened, sessions, joined,
                 stage, timer, work, shutdown, due>>

EndAction(r) ==
  /\ request[r].kind = "action"
  /\ request' = [request EXCEPT ![r] = Idle]
  /\ UNCHANGED <<registryVars, up, activeId, switching, opening, opened, sessions, joined,
                 stage, timer, work, shutdown, due>>

ActsOn(p) == \E r \in Request : request[r].kind = "action" /\ request[r].project = p

Publishes(p) ==
  /\ timer' = timer \cup {p}
  /\ UNCHANGED <<registryVars, up, activeId, switching, opening, opened, sessions, joined,
                 request, shutdown, due>>

\* A request or a job changes what is on the stage.
StageChanges(p) ==
  /\ Busy(p) \/ ActsOn(p)
  /\ stage[p] < MaxVersion
  /\ stage' = [stage EXCEPT ![p] = @ + 1]
  /\ Publishes(p) /\ UNCHANGED work

\* A request takes the floor, or holds it with an Enter, and the input is an
\* administrator's from then on, or a participant's.
TakeFloor(p) ==
  /\ ActsOn(p)
  /\ floor' = floor \cup {p}
  /\ entered' \in {entered \cup ({p} \ job), entered \ {p}}
  /\ Publishes(p) /\ UNCHANGED <<job, stage>>

\* The floor is released, lapses, or ends with the participant's job.
LeaveFloor(p) ==
  /\ p \in floor
  /\ floor' = floor \ {p}
  /\ entered' \in {entered, entered \ {p}}
  /\ Publishes(p) /\ UNCHANGED <<job, stage>>

\* The poll reads the start hook of an administrator's Enter, however late and whichever
\* project is selected by then.  A participant's hook finds its speaker or is refused.
HookBegins(p) ==
  /\ p \in entered
  /\ entered' = entered \ {p}
  /\ job' = job \cup {p}
  /\ floor' = floor \ {p}
  /\ Publishes(p) /\ UNCHANGED stage

JobEnds(p) ==
  /\ p \in job
  /\ job' = job \ {p}
  /\ Publishes(p) /\ UNCHANGED <<floor, entered, stage>>

\* 200 ms without a change.  A project that create() has taken back is not found, and
\* nobody catches that.
TimerFires(p) ==
  /\ p \in timer /\ Len(writes) < MaxWrites
  /\ IF p \in Ids(registry)
       THEN /\ Save(p, stage[p], "timer")
            /\ timer' = timer \ {p}
            /\ UNCHANGED <<registry, file, stages, up, activeId, switching, opening, opened,
                           sessions, joined, stage, work, request, shutdown, due>>
       ELSE Crash

-------------------------------------------------------------------------------
(* shutdown() *)

BeginShutdown ==
  /\ up = "up"
  /\ up' = "stopping"
  /\ switching' = TRUE
  /\ shutdown' = [p \in Project |-> IF p \in opened THEN "stop" ELSE "-"]
  /\ due' = [p \in Project |-> IF p \in Ids(registry) \cap opened THEN stage[p] ELSE 0]
  /\ UNCHANGED <<registryVars, activeId, opening, opened, sessions, joined, stage, timer, work,
                 request>>

\* Its shells and its runner have stopped, and its stage is saved.
Stopped(p) ==
  /\ shutdown[p] = "stop"
  /\ IF p \in Ids(registry)
       THEN /\ Save(p, stage[p], "shutdown")
            /\ shutdown' = [shutdown EXCEPT ![p] = "save"]
            /\ timer' = timer \ {p}
            /\ floor' = floor \ {p} /\ entered' = entered \ {p} /\ job' = job \ {p}
            /\ UNCHANGED <<registry, file, stages, up, activeId, switching, opening, opened,
                           sessions, joined, stage, request, due>>
       ELSE Crash

\* The server closes once no request is under way.
CanExit ==
  /\ up = "stopping"
  /\ \A p \in Project : shutdown[p] = "-"
  /\ \A r \in Request : request[r] = Idle

Exit ==
  /\ CanExit
  /\ Blank
  /\ up' = "exited" /\ registry' = Initial /\ writes' = <<>>
  /\ UNCHANGED <<file, stages, due>>

-------------------------------------------------------------------------------

\* A write that fails while the server starts or stops ends the process, like a kill.
Killed ==
  /\ up \notin {"down", "exited"}
  /\ Crash

SwitchNext ==
  \/ Killed \/ Boot \/ Listen \/ BeginShutdown \/ Exit
  \/ \E p \in Project : Opened(p) \/ OpenFails(p) \/ View(p) \/ StageChanges(p)
                          \/ TakeFloor(p) \/ LeaveFloor(p) \/ HookBegins(p) \/ JobEnds(p)
                          \/ TimerFires(p) \/ Stopped(p)
  \/ \E r \in Request :
       \/ OpenDone(r) \/ BeginAction(r) \/ EndAction(r)
       \/ \E p \in Project :
            \/ SelectProject(r, p)
            \/ \E n \in Name : CreateProject(r, p, n) \/ RenameProject(r, p, n)
  \/ \E i \in NextWrite :
       \/ InitWritten(i) \/ StageWritten(i) \/ StageNotWritten(i)
       \/ \E r \in Request : RequestWritten(i, r) \/ RequestNotWritten(i, r)
  \/ \E s \in Session : Join(s) \/ Expire(s)

SwitchSpec == SwitchInit /\ [][SwitchNext]_switchVars

-------------------------------------------------------------------------------

\* Whenever the process dies, what it leaves is a registry the next one accepts, and so
\* is every registry still to be written.
RegistrySound ==
  /\ ValidRegistry(registry)
  /\ file # NoFile => ValidRegistry(file)
  /\ \A i \in RegistryWrites : ValidRegistry(writes[i].content)

\* No two projects have one name, and with no write of it under way the file, the
\* registry and the server agree: an operation that was acknowledged survives a crash,
\* and one that failed has left no trace.
FileFollowsMemory ==
  Serving /\ RegistryWrites = {} =>
    /\ file = registry
    /\ activeId = registry.active
    /\ \A i, j \in DOMAIN registry.projects :
         registry.projects[i].name = registry.projects[j].name => i = j

\* Requests under way, the floor, its holds and the jobs of participants belong to the
\* selected project: a switch leaves none of them behind, though the start hook of an
\* administrator's Enter may still begin a job on the project that was left.
OnlySelectedWorks ==
  /\ floor \subseteq {activeId}
  /\ \A r \in Request : request[r].kind = "action" => request[r].project = activeId

\* The people on every open stage are those with a session, whenever it was opened.
EveryoneJoined == \A p \in opened : joined[p] = sessions

\* A stage on disk is never replaced by an older one, by whichever writer.
CheckpointsForward == [][\A p \in Project : stages'[p] >= stages[p]]_switchVars

\* A process that was told to stop and has exited has saved what was on the stages then.
ShutdownSaves == up = "exited" => \A p \in Project : stages[p] >= due[p]

\* Whatever fails and whenever the process dies or stops: the registry is sound, the file,
\* memory and the server's own choice agree once nothing is being written, and a shutdown
\* leaves the stages on disk.
DiskInv == SwitchTypeOK /\ RegistrySound /\ FileFollowsMemory /\ ShutdownSaves

===============================================================================
