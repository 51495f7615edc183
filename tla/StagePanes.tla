------------------------------ MODULE StagePanes ------------------------------
(***************************************************************************)
(* The panes of one project's stage (server/stage.ts): what the agent, the *)
(* drivers and the processes of the workspace show next to the terminal.   *)
(*                                                                         *)
(* A pane is visible (state.panes, an ordered list) or put away            *)
(* (savedPanes, in the order it was last remembered, the oldest dropped    *)
(* first).  A job publishes its working basis as a context pane that a     *)
(* review takes over when the work is done; commands write to log panes    *)
(* under the id of their run, long after their job if need be.             *)
(*                                                                         *)
(* Who may begin a job is StageFloor's question; here an administrator     *)
(* begins them all.  Subagent panes, shells and sizes are left out.        *)
(***************************************************************************)
EXTENDS StageFloor, SequencesExt

CONSTANTS
  PaneId,      \* the ids the agent and the runs give their panes
  Agent,       \* focusId 'agent': no pane is focused
  NoPane,
  Run,         \* the ids of command runs (requestId)
  NoRun,
  Kinds,       \* bound: the kinds of pane an instance looks at
  MaxVisible,  \* the 6 places of the stage
  MaxSaved     \* the 24 panes remembered

ASSUME IdAssumption == Agent \notin PaneId /\ NoPane \notin PaneId /\ NoRun \notin Run
ASSUME KindAssumption == Kinds \subseteq {"docs", "input", "context", "review", "terminal"}
ASSUME PlacesAssumption == MaxVisible \in Nat \ {0} /\ MaxSaved \in Nat \ {0}

VARIABLES
  panes,       \* state.panes
  saved,       \* savedPanes
  focus,       \* state.focusId
  basis,       \* workContextPaneId
  phase,       \* state.phase
  reviewRuns,  \* reviewRuns: the runs a review of this job may cite
  runs         \* external: the commands, and how far their events have come

paneVars == <<panes, saved, focus, basis, phase, reviewRuns, runs>>
vars == <<floorVars, paneVars>>

Pane ==
  [id : PaneId,
   kind : Kinds,
   manual : BOOLEAN,                                          \* opened or kept by hand
   active : BOOLEAN,                                          \* status 'active'
   job : TurnId \cup {NoTurn},                                \* workContext.turnId
   work : {"none", "working", "finished", "interrupted"},     \* workContext.state
   cites : Run \cup {NoRun},                                  \* a review check's runId
   check : {"none", "unverified", "passed", "failed"},        \* and its status
   run : Run \cup {NoRun},                                    \* terminal.runId
   ended : BOOLEAN,                                           \* terminal.finishedAt is set
   code : {"none", "ok", "bad", "unknown"}]                   \* terminal.code

\* What the schema of a pane asks for: work belongs to contexts and reviews, checks to
\* reviews, and a process to an execution log.
WellFormed(p) ==
  /\ p.work # "none" => p.kind \in {"context", "review"}
  /\ p.check # "none" \/ p.cites # NoRun => p.kind = "review"
  /\ p.run # NoRun => p.kind = "terminal"

RunState ==
  [at : {"unused", "started", "open", "exited", "over"},
   job : TurnId \cup {NoTurn},
   pane : PaneId \cup {NoPane},
   gated : BOOLEAN,  \* its events carry the job's id (WaitingTerminal)
   code : {"none", "ok", "bad", "unknown"}]

PanesTypeOK ==
  /\ FloorTypeOK
  /\ panes \in Seq(Pane) /\ Len(panes) <= MaxVisible
  /\ saved \in Seq(Pane) /\ Len(saved) <= MaxSaved
  /\ focus \in PaneId \cup {Agent}
  /\ basis \in PaneId \cup {NoPane}
  /\ phase \in {"idle", "running", "waiting", "error"}
  /\ reviewRuns \subseteq Run
  /\ runs \in [Run -> RunState]

Blank(id, kind) ==
  [id |-> id, kind |-> kind, manual |-> FALSE, active |-> TRUE, job |-> NoTurn,
   work |-> "none", cites |-> NoRun, check |-> "none", run |-> NoRun, ended |-> FALSE,
   code |-> "none"]

\* A log whose command has not been seen to end.
Unended(p) == p.kind = "terminal" /\ ~p.ended

Exited(p, code) == [p EXCEPT !.ended = TRUE, !.code = code, !.active = FALSE]

NotStarted ==
  [at |-> "unused", job |-> NoTurn, pane |-> NoPane, gated |-> FALSE, code |-> "none"]

PanesInit ==
  /\ FloorInit
  /\ Native
  /\ panes = <<>>
  /\ saved = <<>>
  /\ focus = Agent
  /\ basis = NoPane
  /\ phase = "idle"
  /\ reviewRuns = {}
  /\ runs = [r \in Run |-> NotStarted]

-------------------------------------------------------------------------------
(* Lists of panes.                                                          *)

Ids(list) == {list[i].id : i \in DOMAIN list}

Has(list, id) == \E i \in DOMAIN list : list[i].id = id

Find(list, id) == list[CHOOSE i \in DOMAIN list : list[i].id = id]

\* What a list has at some of its places, in the order of the list.
Among(list, places) ==
  LET first[n \in 0..Len(list)] ==
        IF n = 0 THEN <<>>
        ELSE IF n \in places THEN Append(first[n - 1], list[n]) ELSE first[n - 1]
  IN  first[Len(list)]

Without(list, id) == Among(list, {i \in DOMAIN list : list[i].id # id})

\* Replaces the pane of the same id where it stands.
Update(list, pane) == [i \in DOMAIN list |-> IF list[i].id = pane.id THEN pane ELSE list[i]]

Put(list, pane) ==
  IF Has(list, pane.id) THEN Update(list, pane) ELSE Append(list, pane)

\* Mutant of remember(): the oldest goes whatever it is.
RememberNewest(list, pane, kept) ==
  LET longer == Append(Without(list, pane.id), pane)
  IN  IF pane.kind = "input" THEN list
      ELSE IF Len(longer) <= MaxSaved THEN longer ELSE Tail(longer)

\* Drops the oldest pane but the one kept.
Evict(list, kept) == RemoveFirstMatch(list, LAMBDA p : p.id # kept)

\* remember(): to the end of the saved panes; an overflow drops the oldest one
\* that is not the working basis kept.
Remember(list, pane, kept) ==
  IF pane.kind = "input"
    THEN list
    ELSE LET longer == Append(Without(list, pane.id), pane)
         IN  IF Len(longer) <= MaxSaved THEN longer ELSE Evict(longer, kept)

RememberAll(list, more, kept) ==
  LET after[n \in 0..Len(more)] ==
        IF n = 0 THEN list ELSE Remember(after[n - 1], more[n], kept)
  IN  after[Len(more)]

\* Every pane once, the visible version before the saved one.
Artifacts ==
  [i \in DOMAIN saved |->
     IF Has(panes, saved[i].id) THEN Find(panes, saved[i].id) ELSE saved[i]]
  \o Among(panes, {i \in DOMAIN panes : ~Has(saved, panes[i].id)})

\* Inputs are never remembered.
NoInputs == Among(panes, {i \in DOMAIN panes : panes[i].kind # "input"})

Visible(id) == Has(panes, id)
Known(id) == Visible(id) \/ Has(saved, id)
Current(id) == IF Visible(id) THEN Find(panes, id) ELSE Find(saved, id)

\* foreground(): a visible pane goes first and gets the focus.
Foreground(list, id) == <<Find(list, id)>> \o Without(list, id)

\* The focus stays if its pane does.
FocusOr(other) ==
  IF focus = Agent \/ focus \in Ids(panes') THEN focus
  ELSE IF panes' = <<>> THEN Agent ELSE other

ActiveInput(list) == \E p \in ToSet(list) : p.kind = "input" /\ p.active

SyncPhase ==
  phase' = IF turn = NoTurn THEN phase
           ELSE IF ActiveInput(panes') THEN "waiting" ELSE "running"

-------------------------------------------------------------------------------
(* The job.                                                                 *)

\* beginTui and clearForTurn: everything is put away but what was opened by
\* hand, and the basis, the focus and the citable runs start over.
BeginJob(s, id) ==
  /\ BeginTui(s, id)
  /\ phase' = "running"
  /\ reviewRuns' = {}
  /\ basis' = NoPane
  /\ saved' = RememberAll(saved, panes, NoPane)
  /\ panes' = Among(panes, {i \in DOMAIN panes : panes[i].manual})
  /\ focus' = Agent
  /\ UNCHANGED runs

Settled(p, error) ==
  [p EXCEPT !.work = IF error THEN "interrupted" ELSE "finished",
            !.active = IF p.kind = "context" THEN FALSE ELSE @]

\* How finish() leaves a visible pane: an error ends what is neither a log nor kept by hand.
Closed(p, error) ==
  LET q == IF p.job = turn THEN Settled(p, error) ELSE p
  IN  [q EXCEPT !.active = @ /\ ~(error /\ q.kind # "terminal" /\ ~q.manual)]

\* finish(): the job's basis is settled wherever it is, and inputs close.
FinishJob(error) ==
  /\ turn # NoTurn
  /\ Finish(turn)
  /\ LET done == Among(Artifacts, {i \in DOMAIN Artifacts : Artifacts[i].job = turn})
     IN  saved' = RememberAll(saved, [i \in DOMAIN done |-> Settled(done[i], error)], basis)
  /\ panes' = [i \in DOMAIN NoInputs |-> Closed(NoInputs[i], error)]
  /\ basis' = NoPane
  /\ phase' = IF error THEN "error" ELSE "idle"
  /\ focus' = FocusOr(Last(panes').id)
  /\ UNCHANGED <<reviewRuns, runs>>

ResetPanes ==
  /\ Reset
  /\ panes' = <<>>
  /\ saved' = <<>>
  /\ focus' = Agent
  /\ basis' = NoPane
  /\ phase' = "idle"
  /\ reviewRuns' = {}
  /\ UNCHANGED runs

\* A restart: checkpoint() of the old process, restore() in the new one.  The
\* containers are gone; sessions and floor start over (only randomness, spent,
\* outlives them).
Revived(p) ==
  IF p.work = "working"
    THEN [p EXCEPT !.work = "interrupted", !.active = @ /\ p.kind # "context"]
    ELSE IF Unended(p) THEN Exited(p, "unknown") ELSE p

Restored(list) == [i \in DOMAIN list |-> Revived(list[i])]

\* Over: nothing comes of a run any more, and its pane is forgotten.
Gone(r, code) == [runs[r] EXCEPT !.at = "over", !.pane = NoPane, !.code = code]

RunsKilled ==
  runs' = [r \in Run |->
             CASE runs[r].at \in {"unused", "over"} -> runs[r]
               [] runs[r].at = "exited" -> Gone(r, runs[r].code)
               [] OTHER -> Gone(r, "unknown")]

Restart ==
  /\ saved' = Restored(RememberAll(saved, panes, basis))
  /\ panes' = Restored(NoInputs)
  /\ focus' = FocusOr(Agent)
  /\ basis' = NoPane
  /\ phase' = "idle"
  /\ reviewRuns' = {}
  /\ RunsKilled
  /\ participants' = {} /\ admins' = {}
  /\ speaker' = NoOne /\ leaseLeft' = 0 /\ holdLeft' = 0
  /\ turn' = NoTurn /\ owner' = NoOne
  /\ UNCHANGED <<runner, spent>>

\* What save() and load() take for a checkpoint; they throw at anything else.
Accepts(visible, put) ==
  /\ \A p \in ToSet(visible) \cup ToSet(put) : p.kind # "input" /\ WellFormed(p)
  /\ Len(visible) <= MaxVisible /\ Len(put) <= MaxSaved

-------------------------------------------------------------------------------
(* Presentations of the agent and of administrators.                        *)

\* This job's basis, if it has one.
HasContext == basis # NoPane /\ Known(basis) /\ Current(basis).job = turn
Context == Current(basis)

\* Mutant: only a visible log is protected.
AllowedOverSavedLog(id, kind) ==
  /\ ~(Visible(id) /\ Find(panes, id).kind = "terminal")
  /\ HasContext /\ Context.id = id => kind \in {"context", "review"}
  /\ kind = "context" => turn # NoTurn /\ ~HasContext

\* What pane.upsert lets through: a log is never replaced, and a job has one basis, which
\* a review takes over for good.
Allowed(id, kind) ==
  /\ ~(Visible(id) /\ Find(panes, id).kind = "terminal")
  /\ ~(Has(saved, id) /\ Find(saved, id).kind = "terminal")
  /\ kind = "context" => turn # NoTurn
  /\ HasContext =>
       IF Context.id = id
         THEN kind = "review" \/ (kind = "context" /\ Context.kind # "review")
         ELSE kind # "context" /\ (kind = "review" => Context.kind # "review")

\* A review that cites a run gets the verdict of what the server observed.
Verdict(r) ==
  IF r = NoRun THEN "none"
  ELSE IF r \notin reviewRuns \/ runs[r].code = "unknown" THEN "unverified"
  ELSE IF runs[r].code = "ok" THEN "passed" ELSE "failed"

Upsert(id, kind, cites) ==
  /\ Allowed(id, kind)
  /\ LET takesOver == kind = "review" /\ HasContext
         replaced == IF takesOver /\ Context.id # id THEN Context.id ELSE NoPane
         remaining == Without(panes, replaced)
         pane == [Blank(id, kind) EXCEPT
                    !.manual = (Visible(id) /\ Find(panes, id).manual)
                                 \/ (Has(saved, id) /\ Find(saved, id).manual)
                                 \/ (replaced # NoPane /\ Context.manual),
                    !.active = kind # "review",
                    !.job = CASE kind = "context" -> turn
                              [] takesOver -> Context.job
                              [] OTHER -> NoTurn,
                    !.work = CASE kind = "context" -> "working"
                               [] takesOver -> Context.work
                               [] OTHER -> "none",
                    !.cites = cites,
                    !.check = Verdict(cites)]
     IN  /\ Len(remaining) < MaxVisible \/ Has(remaining, id)
         /\ basis' = IF pane.work # "none" THEN id ELSE basis
         /\ IF kind = "context"
              THEN panes' = Put(remaining, pane) /\ UNCHANGED focus
              ELSE panes' = Foreground(Put(remaining, pane), id) /\ focus' = id
         /\ saved' = Remember(Without(saved, replaced), pane, basis')
  /\ SyncPhase
  /\ UNCHANGED <<floorVars, reviewRuns, runs>>

\* pane.show, and /api/panes/add of a saved pane, which then keeps it by hand.
Show(id, byHand) ==
  /\ Known(id)
  /\ Visible(id) \/ Len(panes) < MaxVisible
  /\ byHand => Current(id).kind # "input"
  /\ LET shown == Foreground(Put(panes, Current(id)), id)
         kept == [Current(id) EXCEPT !.manual = TRUE]
     IN  IF byHand
           THEN panes' = Update(shown, kept) /\ saved' = Remember(saved, kept, basis)
           ELSE panes' = shown /\ UNCHANGED saved
  /\ focus' = id
  /\ SyncPhase
  /\ UNCHANGED <<floorVars, basis, reviewRuns, runs>>

Close(id) ==
  /\ Visible(id)
  /\ saved' = Remember(saved, Find(panes, id), basis)
  /\ panes' = Without(panes, id)
  /\ focus' = FocusOr(Head(panes').id)
  /\ SyncPhase
  /\ UNCHANGED <<floorVars, basis, reviewRuns, runs>>

Focus(id) ==
  /\ Visible(id)
  /\ panes' = Foreground(panes, id)
  /\ focus' = id
  /\ SyncPhase
  /\ UNCHANGED <<floorVars, saved, basis, reviewRuns, runs>>

\* The agent's own pane is always there.
FocusAgent ==
  /\ focus' = Agent
  /\ UNCHANGED <<floorVars, panes, saved, basis, reviewRuns, runs>>
  /\ SyncPhase

-------------------------------------------------------------------------------
(* Commands and their logs.                                                 *)

StartRun(r, id, gated) ==
  /\ turn # NoTurn
  /\ "terminal" \in Kinds
  /\ runs[r].at = "unused"
  /\ runs' = [runs EXCEPT ![r] = [at |-> "started", job |-> turn, pane |-> id,
                                  gated |-> gated, code |-> "none"]]
  /\ UNCHANGED <<floorVars, panes, saved, focus, basis, phase, reviewRuns>>

Dropped(r) == runs[r].gated /\ turn # runs[r].job

\* terminal.open.  A refused one leaves the command running without a log.
OpenLog(r, foreground) ==
  /\ runs[r].at = "started"
  /\ ~Dropped(r)
  /\ LET id == runs[r].pane
         log == [Blank(id, "terminal") EXCEPT
                   !.run = r, !.manual = Known(id) /\ Current(id).manual]
     IN  /\ id # basis
         /\ Visible(id) \/ Len(panes) < MaxVisible
         /\ saved' = Remember(saved, log, basis)
         /\ IF foreground
              THEN panes' = Foreground(Put(panes, log), id) /\ focus' = id
              ELSE panes' = Put(panes, log) /\ UNCHANGED focus
  /\ runs' = [runs EXCEPT ![r].at = "open"]
  /\ UNCHANGED <<floorVars, basis, phase, reviewRuns>>

\* The log an event of run r may still change.
LogOf(r) ==
  {p \in IF Known(runs[r].pane) THEN {Current(runs[r].pane)} ELSE {} :
     p.kind = "terminal" /\ p.run = r /\ ~p.ended}

WriteLog(p) ==
  /\ panes' = Update(panes, p)
  /\ saved' = Remember(saved, p, basis)

\* terminal.append and terminal.ready.
AppendLog(r) ==
  /\ runs[r].at = "open"
  /\ ~Dropped(r)
  /\ \E p \in LogOf(r) : WriteLog(p)
  /\ UNCHANGED <<floorVars, focus, basis, phase, reviewRuns, runs>>

ExitLog(r, code) ==
  /\ runs[r].at \in {"started", "open"}
  /\ runs' = [runs EXCEPT ![r].at = "exited", ![r].code = code]
  /\ IF runs[r].at = "open" /\ ~Dropped(r) /\ LogOf(r) # {}
       THEN \E p \in LogOf(r) : WriteLog(Exited(p, code))
       ELSE UNCHANGED <<panes, saved>>
  /\ UNCHANGED <<floorVars, focus, basis, phase, reviewRuns>>

\* Mutant: a result that comes too late counts for the next job.
AlwaysCitable(r) == TRUE
Citable(r) == turn = runs[r].job

\* recordReviewRun: the result comes after the exit, under the command's job.
RecordRun(r) ==
  /\ runs[r].at = "exited"
  /\ runs' = [runs EXCEPT ![r] = Gone(r, runs[r].code)]
  /\ reviewRuns' = IF Citable(r) THEN reviewRuns \cup {r} ELSE reviewRuns
  /\ UNCHANGED <<floorVars, panes, saved, focus, basis, phase>>

Interrupted(p) == IF Unended(p) THEN Exited(p, "unknown") ELSE p

\* The session stopped: interruptTerminals, and nothing more of any run.
Interrupt ==
  /\ LET open == Among(Artifacts, {i \in DOMAIN Artifacts : Unended(Artifacts[i])})
     IN  saved' = RememberAll(saved, [i \in DOMAIN open |-> Exited(open[i], "unknown")], basis)
  /\ panes' = [i \in DOMAIN panes |-> Interrupted(panes[i])]
  /\ RunsKilled
  /\ UNCHANGED <<floorVars, focus, basis, phase, reviewRuns>>

-------------------------------------------------------------------------------

\* join() and adminLogin() in one step: nothing of the panes tells a session in between.
Arrive(s) ==
  /\ s \notin participants
  /\ Cardinality(participants) < MaxParticipants
  /\ participants' = participants \cup {s}
  /\ admins' = admins \cup {s}
  /\ UNCHANGED <<runner, speaker, leaseLeft, holdLeft, turn, owner, spent, paneVars>>

\* Bound on inputs: a review cites a run that was asked for, whatever became of it.
Cites(kind) ==
  {NoRun} \cup {r \in Run : kind = "review" /\ runs[r].at # "unused"}

\* What the agent presents and a visitor asks for.
Present(id) ==
  \/ \E kind \in Kinds \ {"terminal"} : \E cites \in Cites(kind) : Upsert(id, kind, cites)
  \/ Show(id, TRUE)
  \/ ~Visible(id) /\ Show(id, FALSE)  \* of a visible pane it is Focus(id)
  \/ Close(id)
  \/ Focus(id)

\* What the events of a command make of its log.
Follow(r) ==
  \/ \E id \in PaneId, gated \in BOOLEAN : StartRun(r, id, gated)
  \/ \E foreground \in BOOLEAN : OpenLog(r, foreground)
  \/ AppendLog(r)
  \/ \E code \in {"ok", "bad", "unknown"} : ExitLog(r, code)
  \/ RecordRun(r)

PanesNext ==
  \/ \E s \in Session :
       \/ Arrive(s)
       \/ \E id \in TurnId : BeginJob(s, id)
  \/ \E error \in BOOLEAN : FinishJob(error)
  \/ ResetPanes
  \/ Restart
  \/ \E id \in PaneId : Present(id)
  \/ FocusAgent
  \/ \E r \in Run : Follow(r)
  \/ Interrupt

PanesSpec == PanesInit /\ [][PanesNext]_vars

-------------------------------------------------------------------------------
(* Properties.                                                              *)

\* Nothing shows work in progress but the running job's one basis: wherever
\* contexts are put away, evicted, taken over by a review, kept by hand, or
\* restored, no pane of an ended job still says "working".
OneBasis ==
  \A p \in ToSet(panes) \cup ToSet(saved) :
    p.work = "working" => turn # NoTurn /\ p.job = turn /\ p.id = basis

\* And while its job runs the basis is never lost, not even when it was
\* dismissed and every place is taken by other artifacts.
BasisKept == basis # NoPane => Known(basis) /\ Current(basis).job = turn /\ turn # NoTurn

\* The focus is on the agent or on a visible pane.
FocusVisible == focus \in Ids(panes) \cup {Agent}

\* A visible log and its saved copy tell the same story, and an exit code in a
\* log is that of its own run, or "unknown" after an interruption.
LogsHonest ==
  /\ \A p \in ToSet(panes), q \in ToSet(saved) :
       p.kind = "terminal" /\ q.id = p.id =>
         q.kind = "terminal" /\ q.run = p.run /\ q.ended = p.ended /\ q.code = p.code
  /\ \A p \in ToSet(panes) \cup ToSet(saved) :
       p.kind = "terminal" =>
         /\ p.ended => p.code \in {runs[p.run].code, "unknown"}
         /\ ~p.ended => runs[p.run].at = "open" \/ Dropped(p.run)

\* At any time the stage could be saved and loaded again: a project with a pane its schema
\* refuses could not be opened any more.
Storable ==
  Accepts(NoInputs, saved)

\* Whatever is shown, put away, evicted, taken over, restored or interrupted, the stage
\* has at most one basis, never loses it, never points at a pane that is not there, tells
\* the truth about its commands, and can be saved.
PanesInv == PanesTypeOK /\ OneBasis /\ BasisKept /\ FocusVisible /\ LogsHonest /\ Storable

\* An execution log is only ever replaced by the log of another run, and its
\* ending is final: no presentation and no late event rewrites it.
LogsFinal ==
  [][\A p \in {o \in ToSet(panes) \cup ToSet(saved) : o.kind = "terminal"} :
       \A q \in {o \in ToSet(panes') \cup ToSet(saved') : o.id = p.id} :
         /\ q.kind = "terminal"
         /\ q.run = p.run /\ p.ended => q.ended /\ q.code = p.code]_vars

\* A review says "passed" about a run it cites only if the server saw that run
\* exit with 0, and never about a command of an earlier job than the running one.
Passed(list) == {<<p.id, p.cites>> : p \in {q \in ToSet(list) : q.check = "passed"}}
PassedMeansRan ==
  [][\A c \in Passed(panes') \ (Passed(panes) \cup Passed(saved)) :
       runs[c[2]].at = "over" /\ runs[c[2]].code = "ok" /\ turn \in {NoTurn, runs[c[2]].job}]_vars
===============================================================================
