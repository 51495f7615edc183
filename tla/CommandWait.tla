------------------------------ MODULE CommandWait ------------------------------
(***************************************************************************)
(* How it is seen that the agent waits for a command (agent/command-       *)
(* wait.mjs and its use in agent/tui-hooks.mjs and agent/present.mjs).  No *)
(* report of the command line says so: the hooks leave a phase, the native *)
(* transcript its rows, and the helper that runs the command binds itself  *)
(* to the row it was called by.  An observer reads the first two every     *)
(* 200 ms and tells the server the rows that are waited for.               *)
(***************************************************************************)
EXTENDS Naturals, SequencesExt

CONSTANTS
  MaxJobs,  \* bound
  MaxRows   \* bound: rows of one job

ASSUME WaitAssumption == MaxJobs \in Nat /\ MaxRows \in Nat

VARIABLES
  turn,     \* the number of the job, 0 for none
  jobs,     \* the jobs begun
  agent,    \* external: "none", "thinking", "called" a tool, in a "command", "returned" from
            \* a tool, or "paused" until what is in the background ends
  rows,     \* external: the rows of the transcript since the job began
  phase,    \* the phase of command-phase-<conversation>.json
  binding,  \* waitFor of the command, its job 0 where there is none
  evidence  \* command-wait.json of this job, since the agent was last seen to start

waitVars == <<turn, jobs, agent, rows, phase, binding, evidence>>

\* A response with one call of the helper that runs a command, any other response, and what
\* came of a call.
Row == {"call", "other", "RUNNING", "DONE"}

Unbound == [job |-> 0, step |-> 0]

\* "waits" is not in the file: it remembers that the agent did wait when it was written.
Unseen == [steps |-> {}, waits |-> FALSE]

WaitTypeOK ==
  /\ turn \in 0..jobs /\ jobs \in 0..MaxJobs
  /\ agent \in {"none", "thinking", "called", "command", "returned", "paused"}
  /\ rows \in Seq(Row) /\ Len(rows) <= MaxRows
  /\ phase \in {"thinking", "tools", "between-tools", "waiting", "idle"}
  /\ binding \in [job : 0..jobs, step : 0..MaxRows]
  /\ evidence \in [steps : SUBSET (1..MaxRows), waits : BOOLEAN]

WaitInit ==
  /\ turn = 0 /\ jobs = 0 /\ agent = "none" /\ rows = <<>> /\ phase = "idle"
  /\ binding = Unbound /\ evidence = Unseen

-------------------------------------------------------------------------------
(* recordCommandPhase(): the hooks of the command line *)

\* PreInvocation.  What was seen before it, or in an earlier job, does not count any more
\* (rootStartedAt, turnToken).
Started == phase' = "thinking" /\ evidence' = Unseen

\* Mutant: the return of a tool leaves the phase as it is.
ReturnUnseen == UNCHANGED <<phase, evidence>>

\* PostToolUse of run_command.
CommandReturned == phase' = "between-tools" /\ UNCHANGED evidence

-------------------------------------------------------------------------------
(* The agent.  A response is in the transcript before its PostInvocation hook, which may come  *)
(* at any time until its tool returns.                                                         *)

Add(row) == Len(rows) < MaxRows /\ rows' = Append(rows, row)

\* The start hook of a new job.
Submitted ==
  /\ turn = 0 /\ jobs < MaxJobs
  /\ jobs' = jobs + 1 /\ turn' = jobs + 1
  /\ agent' = "thinking" /\ rows' = <<>>
  /\ Started
  /\ UNCHANGED binding

Responds ==
  /\ agent = "thinking"
  /\ agent' = "called"
  /\ Add("call") \/ Add("other")
  /\ UNCHANGED <<turn, jobs, phase, binding, evidence>>

Progress ==
  /\ agent \in {"called", "command"}
  /\ phase' = "tools"
  /\ UNCHANGED <<turn, jobs, agent, rows, binding, evidence>>

\* Any tool but a command.
ToolReturns ==
  /\ agent = "called" /\ Last(rows) = "other"
  /\ agent' = "returned"
  /\ Add("DONE")
  /\ UNCHANGED <<turn, jobs, phase, binding, evidence>>

\* The transcript may say so long before the tool returns.
SaysRunning ==
  /\ agent = "command" /\ Last(rows) \in {"call", "other"}
  /\ Add("RUNNING")
  /\ UNCHANGED <<turn, jobs, agent, phase, binding, evidence>>

\* The tool returns and leaves its command in the background.
ToBackground ==
  /\ agent = "command" /\ Last(rows) = "RUNNING"
  /\ agent' = "returned"
  /\ CommandReturned
  /\ UNCHANGED <<turn, jobs, rows, binding>>

\* The next invocation, or one that what was in the background brings about.
Continues ==
  /\ agent \in {"returned", "paused"}
  /\ agent' = "thinking"
  /\ Started
  /\ UNCHANGED <<turn, jobs, rows, binding>>

\* Stop(fullyIdle: false)
Pauses ==
  /\ agent = "called" /\ Last(rows) = "other"
  /\ agent' = "paused" /\ phase' = "waiting"
  /\ UNCHANGED <<turn, jobs, rows, binding, evidence>>

\* Stop(fullyIdle: true)
Finishes ==
  /\ agent = "called" /\ Last(rows) = "other"
  /\ turn' = 0
  /\ agent' = "none" /\ phase' = "idle" /\ rows' = <<>> /\ evidence' = Unseen
  /\ UNCHANGED <<jobs, binding>>

-------------------------------------------------------------------------------
(* The helper *)

\* bindCommandWait(): by the last response, if that called it and nothing came of it yet.
Binds ==
  IF Last(rows) = "call"
    THEN binding' = [job |-> turn, step |-> Len(rows)] /\ phase' = "tools"
    ELSE binding' = Unbound /\ UNCHANGED phase

\* A command that is over, as the command line sees it: its tool returns if it has not.
CommandOver ==
  /\ IF agent = "command"
       THEN /\ agent' = "returned"
            /\ Add("DONE")
            /\ CommandReturned
       ELSE UNCHANGED <<agent, rows, phase, evidence>>
  /\ binding' = Unbound
  /\ UNCHANGED <<turn, jobs>>

-------------------------------------------------------------------------------
(* The observer *)

\* waitingSteps(): the call of the last response that is not done, or, in a pause, those left
\* in the background.
WaitingSteps ==
  CASE phase = "tools" ->
         {i \in DOMAIN rows : rows[i] = "call" /\ \A j \in (i + 1)..Len(rows) : rows[j] = "RUNNING"}
    [] phase = "waiting" ->
         {i \in 1..(Len(rows) - 1) : rows[i] = "call" /\ rows[i + 1] = "RUNNING"}
    [] OTHER -> {}

\* The agent waits: for the tool it called last, or for whatever is in the background.
Waits == agent \in {"called", "command", "paused"}

\* CommandWaitObserver.poll().  Between jobs nobody asks.
Observes ==
  /\ turn # 0
  /\ evidence' = [steps |-> WaitingSteps, waits |-> WaitingSteps # {} /\ Waits]
  /\ UNCHANGED <<turn, jobs, agent, rows, phase, binding>>

\* What a poll of the server takes as evidence for the command, and update() asks for.  It
\* may be more than 1.5 seconds old, and then nothing comes of it.
Evident == turn # 0 /\ binding.job = turn /\ binding.step \in evidence.steps

WaitNext ==
  \/ Responds \/ Progress \/ ToolReturns \/ SaysRunning \/ ToBackground \/ Continues \/ Pauses
  \/ Observes

===============================================================================
