----------------------------- MODULE PreviewsProofs -----------------------------
(***************************************************************************)
(* Theorems about the app runtime and its gateway, for any number of       *)
(* requests, logs and visitors.                                            *)
(***************************************************************************)
EXTENDS Previews, FiniteSetTheorems, TLAPS

Busy == {"environment", "replace", "create", "attached", "probe", "inspect", "fetch", "failing"}

\* An operation works for a run that asked for it; "stop" asks for none.
OpHasRun ==
  /\ op.at \in Busy => op.run \in Run /\ request[op.run].action # "none"
  /\ op.at \notin Busy => op.run = NoRun
  /\ op.at \in {"replace", "probe", "inspect", "fetch"} => Serves(op.run)
  /\ op.at = "attached" => ~Serves(op.run)

\* Nothing is known of a container before it is created, and it is created by its operation.
Unmade ==
  /\ \A r \in Run : request[r].action = "none" => container[r] = "none" /\ r \notin fresh
  /\ \A r \in Run : container[r] = "none" =>
       /\ r \notin names \cup exits \cup {app, ports, epoch}
       /\ \A l \in Log : logs[l] # r
  /\ \A r \in Run : container[r] = "creating" <=> op.run = r /\ At("create")
  /\ op.at \in Busy => (container[op.run] = "none" <=> op.at \in {"environment", "replace"})

\* What stop() must stop, it knows.
RunningIsNamed == \A r \in Run : container[r] \in {"creating", "up"} => r \in names

\* A stop() leaves no run fresh and no log with an owner.
StopForgets ==
  /\ stopping => fresh = {}
  /\ \A l \in Log : owner[l] # NoRun => owner[l] \in fresh /\ request[owner[l]].log = l

\* What an operation that serves has made of the runtime so far.
ServeInCharge ==
  op.at \in Busy /\ Serves(op.run) =>
    /\ op.at = "create" => app = NoRun
    /\ op.at \in {"create", "probe", "inspect", "fetch", "failing"} =>
         /\ state # "running"
         /\ app \in {NoRun, op.run}
         /\ ports \in {NoRun, op.run}
         /\ op.run \in fresh => epoch = op.run
    /\ op.run \in fresh /\ op.at \in {"probe", "inspect", "fetch"} => app = op.run
    /\ op.run \in fresh /\ op.at = "fetch" /\ ports # NoRun => container[ports] \in {"up", "exited"}

\* An app that runs is the one the runtime would replace, or about to be stopped.
ServeIsApp ==
  \A r \in Run : Serves(r) /\ container[r] = "up" =>
    unsafe \/ app = r \/ (op.run = r /\ At("failing"))

\* The target is a run that stop() has not seen, as its ports are.
TargetIsFresh ==
  Target # NoRun =>
    Target = epoch /\ Target = app /\ Target \in fresh /\ container[Target] \in {"up", "exited"}

\* Only an operation that has yet to fail shows an ended run as its log's owner.
LogsEndSoon ==
  \A l \in Log : logs[l] # NoRun /\ owner[l] = logs[l] =>
    \/ container[logs[l]] \in {"up", "exited"}
    \/ op.run = logs[l] /\ op.at \in {"create", "failing"}

RuntimeIInv ==
  /\ RuntimeTypeOK
  /\ OpHasRun /\ Unmade /\ RunningIsNamed /\ StopForgets
  /\ ServeInCharge /\ ServeIsApp /\ TargetIsFresh /\ LogsEndSoon /\ NoneOutlivesStop

-------------------------------------------------------------------------------

\* A connection was made to the app of the epoch that its visitor entered.
ConnectionsMatch == \A c \in connections : c.app = c.epoch

AccessIInv == RuntimeIInv /\ PreviewsTypeOK /\ ConnectionsMatch /\ NoStaleConnection

-------------------------------------------------------------------------------
(* Each kind of step keeps the invariant of the runtime.                     *)

\* A request is made.
Requesting ==
  \E r \in Run, l \in Log, action \in {"exec", "serve"}, shown \in BOOLEAN :
    Execute(r, action, l, shown)

\* An operation moves on, and Docker has nothing to do for it.
Awaiting == BeginReplace \/ ExecEnds \/ Probe \/ Inspected \/ Answered \/ NoAnswer \/ GiveUp

\* A container ends by itself.
Ending == \E r \in Run : Exits(r) \/ Closes(r)

LEMMA RequestingKeeps ==
  ASSUME RuntimeIInv, Requesting
  PROVE  RuntimeIInv'
<1> USE RunAssumption
    DEF RuntimeIInv, RuntimeTypeOK, RuntimeRequest, Busy, At, Goto, NoOperation, Serves, Speaks,
           LogsEnded, StoppedIn,
        Requesting, Execute, CanExecute
<1>1. RuntimeTypeOK'
  OBVIOUS
<1>2. OpHasRun'
  BY DEF OpHasRun
<1>3. Unmade'
  BY DEF OpHasRun, Unmade
<1>4. RunningIsNamed'
  BY DEF OpHasRun, Unmade, RunningIsNamed
<1>5. StopForgets'
  BY DEF StopForgets, Unmade
<1>6. ServeInCharge'
  BY DEF OpHasRun, Unmade, ServeInCharge, StopForgets, TargetIsFresh, Target
<1>7. ServeIsApp'
  BY DEF OpHasRun, Unmade, ServeInCharge, ServeIsApp, RunningIsNamed
<1>8. TargetIsFresh'
  BY DEF OpHasRun, Unmade, ServeInCharge, TargetIsFresh, Target, StopForgets
<1>9. LogsEndSoon'
  BY DEF OpHasRun, Unmade, StopForgets, LogsEndSoon
<1>10. NoneOutlivesStop'
  BY DEF OpHasRun, Unmade, RunningIsNamed, StopForgets, NoneOutlivesStop
<1>11. QED
  BY <1>1, <1>2, <1>3, <1>4, <1>5, <1>6, <1>7, <1>8, <1>9, <1>10

LEMMA AwaitingKeeps ==
  ASSUME RuntimeIInv, Awaiting
  PROVE  RuntimeIInv'
<1> USE RunAssumption
    DEF RuntimeIInv, RuntimeTypeOK, RuntimeRequest, Busy, At, Goto, NoOperation, Serves, Speaks,
           LogsEnded, StoppedIn,
        Awaiting, BeginReplace, Replaces, ExecEnds, Probe, Ask, Inspected, Answered,
        NoAnswer, GiveUp
<1>1. RuntimeTypeOK'
  OBVIOUS
<1>2. OpHasRun'
  BY DEF OpHasRun
<1>3. Unmade'
  BY DEF OpHasRun, Unmade
<1>4. RunningIsNamed'
  BY DEF OpHasRun, Unmade, RunningIsNamed
<1>5. StopForgets'
  BY DEF StopForgets, Unmade
<1>6. ServeInCharge'
  BY DEF OpHasRun, Unmade, ServeInCharge, StopForgets, TargetIsFresh, Target
<1>7. ServeIsApp'
  BY DEF OpHasRun, Unmade, ServeInCharge, ServeIsApp, RunningIsNamed
<1>8. TargetIsFresh'
  BY DEF OpHasRun, Unmade, ServeInCharge, TargetIsFresh, Target, StopForgets
<1>9. LogsEndSoon'
  BY DEF OpHasRun, Unmade, StopForgets, LogsEndSoon
<1>10. NoneOutlivesStop'
  BY DEF OpHasRun, Unmade, RunningIsNamed, StopForgets, NoneOutlivesStop
<1>11. QED
  BY <1>1, <1>2, <1>3, <1>4, <1>5, <1>6, <1>7, <1>8, <1>9, <1>10

\* A container is created once the app it replaces, if any, is gone.
LEMMA BeginCreateKeeps ==
  ASSUME RuntimeIInv, NEW gone \in SUBSET Run, gone \subseteq {app},
         op.at \in {"environment", "replace"}, Serves(op.run) => app \in gone \cup {NoRun},
         BeginCreate(op.run, gone)
  PROVE  RuntimeIInv'
<1> USE RunAssumption
    DEF RuntimeIInv, RuntimeTypeOK, RuntimeRequest, Busy, At, Goto, NoOperation, Serves, Speaks,
           LogsEnded, StoppedIn,
        BeginCreate
<1>1. RuntimeTypeOK'
  OBVIOUS
<1>2. OpHasRun'
  BY DEF OpHasRun
<1>3. Unmade'
  BY DEF OpHasRun, Unmade
<1>4. RunningIsNamed'
  BY DEF OpHasRun, Unmade, RunningIsNamed
<1>5. StopForgets'
  BY DEF StopForgets, Unmade
<1>6. ServeInCharge'
  BY DEF OpHasRun, Unmade, ServeInCharge, StopForgets, TargetIsFresh, Target
<1>7. ServeIsApp'
  BY DEF OpHasRun, Unmade, ServeInCharge, ServeIsApp, RunningIsNamed
<1>8. TargetIsFresh'
  BY DEF OpHasRun, Unmade, ServeInCharge, TargetIsFresh, Target, StopForgets
<1>9. LogsEndSoon'
  BY DEF OpHasRun, Unmade, StopForgets, LogsEndSoon
<1>10. NoneOutlivesStop'
  BY DEF OpHasRun, Unmade, RunningIsNamed, StopForgets, NoneOutlivesStop
<1>11. QED
  BY <1>1, <1>2, <1>3, <1>4, <1>5, <1>6, <1>7, <1>8, <1>9, <1>10

LEMMA CreatedKeeps ==
  ASSUME RuntimeIInv, CreateFails \/ Start
  PROVE  RuntimeIInv'
<1> USE RunAssumption
    DEF RuntimeIInv, RuntimeTypeOK, RuntimeRequest, Busy, At, Goto, NoOperation, Serves, Speaks,
           LogsEnded, StoppedIn,
        CreateFails, Start
<1>1. RuntimeTypeOK'
  OBVIOUS
<1>2. OpHasRun'
  BY DEF OpHasRun
<1>3. Unmade'
  BY DEF OpHasRun, Unmade
<1>4. RunningIsNamed'
  BY DEF OpHasRun, Unmade, RunningIsNamed
<1>5. StopForgets'
  BY DEF StopForgets, Unmade
<1>6. ServeInCharge'
  BY DEF OpHasRun, Unmade, ServeInCharge, StopForgets, TargetIsFresh, Target
<1>7. ServeIsApp'
  BY DEF OpHasRun, Unmade, ServeInCharge, ServeIsApp, RunningIsNamed
<1>8. TargetIsFresh'
  BY DEF OpHasRun, Unmade, ServeInCharge, TargetIsFresh, Target, StopForgets
<1>9. LogsEndSoon'
  BY DEF OpHasRun, Unmade, StopForgets, LogsEndSoon
<1>10. NoneOutlivesStop'
  BY DEF OpHasRun, Unmade, RunningIsNamed, StopForgets, NoneOutlivesStop
<1>11. QED
  BY <1>1, <1>2, <1>3, <1>4, <1>5, <1>6, <1>7, <1>8, <1>9, <1>10

LEMMA EnvironmentFailsKeeps ==
  ASSUME RuntimeIInv, EnvironmentFails
  PROVE  RuntimeIInv'
<1> USE RunAssumption
    DEF RuntimeIInv, RuntimeTypeOK, RuntimeRequest, Busy, At, Goto, NoOperation, Serves, Speaks,
           LogsEnded, StoppedIn,
        EnvironmentFails, FailState
<1>1. RuntimeTypeOK'
  OBVIOUS
<1>2. OpHasRun'
  BY DEF OpHasRun
<1>3. Unmade'
  BY DEF OpHasRun, Unmade
<1>4. RunningIsNamed'
  BY DEF OpHasRun, Unmade, RunningIsNamed
<1>5. StopForgets'
  BY DEF StopForgets, Unmade
<1>6. ServeInCharge'
  BY DEF OpHasRun, Unmade, ServeInCharge, StopForgets, TargetIsFresh, Target
<1>7. ServeIsApp'
  BY DEF OpHasRun, Unmade, ServeInCharge, ServeIsApp, RunningIsNamed
<1>8. TargetIsFresh'
  BY DEF OpHasRun, Unmade, ServeInCharge, TargetIsFresh, Target, StopForgets
<1>9. LogsEndSoon'
  BY DEF OpHasRun, Unmade, StopForgets, LogsEndSoon
<1>10. NoneOutlivesStop'
  BY DEF OpHasRun, Unmade, RunningIsNamed, StopForgets, NoneOutlivesStop
<1>11. QED
  BY <1>1, <1>2, <1>3, <1>4, <1>5, <1>6, <1>7, <1>8, <1>9, <1>10

LEMMA ReplaceFailsKeeps ==
  ASSUME RuntimeIInv, ReplaceFails
  PROVE  RuntimeIInv'
<1> USE RunAssumption
    DEF RuntimeIInv, RuntimeTypeOK, RuntimeRequest, Busy, At, Goto, NoOperation, Serves, Speaks,
           LogsEnded, StoppedIn,
        ReplaceFails, FailState
<1>1. RuntimeTypeOK'
  OBVIOUS
<1>2. OpHasRun'
  BY DEF OpHasRun
<1>3. Unmade'
  BY DEF OpHasRun, Unmade
<1>4. RunningIsNamed'
  BY DEF OpHasRun, Unmade, RunningIsNamed
<1>5. StopForgets'
  BY DEF StopForgets, Unmade
<1>6. ServeInCharge'
  BY DEF OpHasRun, Unmade, ServeInCharge, StopForgets, TargetIsFresh, Target
<1>7. ServeIsApp'
  BY DEF OpHasRun, Unmade, ServeInCharge, ServeIsApp, RunningIsNamed
<1>8. TargetIsFresh'
  BY DEF OpHasRun, Unmade, ServeInCharge, TargetIsFresh, Target, StopForgets
<1>9. LogsEndSoon'
  BY DEF OpHasRun, Unmade, StopForgets, LogsEndSoon
<1>10. NoneOutlivesStop'
  BY DEF OpHasRun, Unmade, RunningIsNamed, StopForgets, NoneOutlivesStop
<1>11. QED
  BY <1>1, <1>2, <1>3, <1>4, <1>5, <1>6, <1>7, <1>8, <1>9, <1>10

LEMMA FailKeeps ==
  ASSUME RuntimeIInv, NEW outcome \in {"gone", "unknown"}, ExecTimesOut(outcome) \/ Fail(outcome)
  PROVE  RuntimeIInv'
<1> USE RunAssumption
    DEF RuntimeIInv, RuntimeTypeOK, RuntimeRequest, Busy, At, Goto, NoOperation, Serves, Speaks,
           LogsEnded, StoppedIn,
        ExecTimesOut, Fail, Forget, FailState
<1>1. RuntimeTypeOK'
  <2>1. CASE outcome = "gone"
    BY <2>1
  <2>2. CASE outcome = "unknown" /\ ExecTimesOut(outcome)
    BY <2>2
  <2>3. CASE outcome = "unknown" /\ Fail(outcome)
    BY <2>3
  <2>4. QED
    BY <2>1, <2>2, <2>3
<1>2. OpHasRun'
  BY DEF OpHasRun
<1>3. Unmade'
  BY DEF OpHasRun, Unmade
<1>4. RunningIsNamed'
  BY DEF OpHasRun, Unmade, RunningIsNamed
<1>5. StopForgets'
  BY DEF StopForgets, Unmade
<1>6. ServeInCharge'
  BY DEF OpHasRun, Unmade, ServeInCharge, StopForgets, TargetIsFresh, Target
<1>7. ServeIsApp'
  BY DEF OpHasRun, Unmade, ServeInCharge, ServeIsApp, RunningIsNamed
<1>8. TargetIsFresh'
  BY DEF OpHasRun, Unmade, ServeInCharge, TargetIsFresh, Target, StopForgets
<1>9. LogsEndSoon'
  BY DEF OpHasRun, Unmade, StopForgets, LogsEndSoon
<1>10. NoneOutlivesStop'
  BY DEF OpHasRun, Unmade, RunningIsNamed, StopForgets, NoneOutlivesStop
<1>11. QED
  BY <1>1, <1>2, <1>3, <1>4, <1>5, <1>6, <1>7, <1>8, <1>9, <1>10

LEMMA BeginStopKeeps ==
  ASSUME RuntimeIInv, Stop \/ ExecuteStop
  PROVE  RuntimeIInv'
<1> USE RunAssumption
    DEF RuntimeIInv, RuntimeTypeOK, RuntimeRequest, Busy, At, Goto, NoOperation, Serves, Speaks,
           LogsEnded, StoppedIn,
        Stop, ExecuteStop, BeginStop, CanExecute
<1>1. RuntimeTypeOK'
  <2>1. CASE Stop
    BY <2>1
  <2>2. CASE ExecuteStop
    BY <2>2
  <2>3. QED
    BY <2>1, <2>2
<1>2. OpHasRun'
  BY DEF OpHasRun
<1>3. Unmade'
  BY DEF OpHasRun, Unmade
<1>4. RunningIsNamed'
  BY DEF OpHasRun, Unmade, RunningIsNamed
<1>5. StopForgets'
  BY DEF StopForgets, Unmade
<1>6. ServeInCharge'
  BY DEF OpHasRun, Unmade, ServeInCharge, StopForgets, TargetIsFresh, Target
<1>7. ServeIsApp'
  BY DEF OpHasRun, Unmade, ServeInCharge, ServeIsApp, RunningIsNamed
<1>8. TargetIsFresh'
  BY DEF OpHasRun, Unmade, ServeInCharge, TargetIsFresh, Target, StopForgets
<1>9. LogsEndSoon'
  BY DEF OpHasRun, Unmade, StopForgets, LogsEndSoon
<1>10. NoneOutlivesStop'
  BY DEF OpHasRun, Unmade, RunningIsNamed, StopForgets, NoneOutlivesStop
<1>11. QED
  BY <1>1, <1>2, <1>3, <1>4, <1>5, <1>6, <1>7, <1>8, <1>9, <1>10

LEMMA AllStoppedKeeps ==
  ASSUME RuntimeIInv, AllStopped
  PROVE  RuntimeIInv'
<1> USE RunAssumption
    DEF RuntimeIInv, RuntimeTypeOK, RuntimeRequest, Busy, At, Goto, NoOperation, Serves, Speaks,
           LogsEnded, StoppedIn,
        AllStopped, CanStopAll, Forget, OpAfterStop
<1>1. RuntimeTypeOK'
  OBVIOUS
<1>2. OpHasRun'
  BY DEF OpHasRun
<1>3. Unmade'
  BY DEF OpHasRun, Unmade
<1>4. RunningIsNamed'
  BY DEF OpHasRun, Unmade, RunningIsNamed
<1>5. StopForgets'
  BY DEF StopForgets, Unmade
<1>6. ServeInCharge'
  BY DEF OpHasRun, Unmade, ServeInCharge, StopForgets, TargetIsFresh, Target
<1>7. ServeIsApp'
  BY DEF OpHasRun, Unmade, ServeInCharge, ServeIsApp, RunningIsNamed
<1>8. TargetIsFresh'
  BY DEF OpHasRun, Unmade, ServeInCharge, TargetIsFresh, Target, StopForgets
<1>9. LogsEndSoon'
  BY DEF OpHasRun, Unmade, StopForgets, LogsEndSoon
<1>10. NoneOutlivesStop'
  BY DEF OpHasRun, Unmade, RunningIsNamed, StopForgets, NoneOutlivesStop
<1>11. QED
  BY <1>1, <1>2, <1>3, <1>4, <1>5, <1>6, <1>7, <1>8, <1>9, <1>10

LEMMA SomeSurviveKeeps ==
  ASSUME RuntimeIInv, SomeSurvive
  PROVE  RuntimeIInv'
<1> USE RunAssumption
    DEF RuntimeIInv, RuntimeTypeOK, RuntimeRequest, Busy, At, Goto, NoOperation, Serves, Speaks,
           LogsEnded, StoppedIn,
        SomeSurvive, CanStopAll, Forget, OpAfterStop
<1>1. RuntimeTypeOK'
  <2>1. PICK gone \in SUBSET names : Forget(gone)
    OBVIOUS
  <2>2. container' \in [Run -> {"none", "creating", "up", "exited", "closed"}]
    BY <2>1
  <2>3. logs' \in [Log -> Run \cup {NoRun}]
    BY <2>1
  <2>4. names' \subseteq Run /\ exits' \subseteq Run
    BY <2>1
  <2>5. op' \in {op, NoOperation} /\ (unsafe' = TRUE \/ unsafe' = unsafe) /\ ~stopping'
    OBVIOUS
  <2>6. unsafe' \in BOOLEAN
    BY <2>5
  <2>7. QED
    BY <2>2, <2>3, <2>4, <2>5, <2>6
<1>2. OpHasRun'
  BY DEF OpHasRun
<1>3. Unmade'
  BY DEF OpHasRun, Unmade
<1>4. RunningIsNamed'
  BY DEF OpHasRun, Unmade, RunningIsNamed
<1>5. StopForgets'
  BY DEF StopForgets, Unmade
<1>6. ServeInCharge'
  BY DEF OpHasRun, Unmade, ServeInCharge, StopForgets, TargetIsFresh, Target
<1>7. ServeIsApp'
  BY DEF OpHasRun, Unmade, ServeInCharge, ServeIsApp, RunningIsNamed
<1>8. TargetIsFresh'
  BY DEF OpHasRun, Unmade, ServeInCharge, TargetIsFresh, Target, StopForgets
<1>9. LogsEndSoon'
  BY DEF OpHasRun, Unmade, StopForgets, LogsEndSoon
<1>10. NoneOutlivesStop'
  BY DEF OpHasRun, Unmade, RunningIsNamed, StopForgets, NoneOutlivesStop
<1>11. QED
  BY <1>1, <1>2, <1>3, <1>4, <1>5, <1>6, <1>7, <1>8, <1>9, <1>10

LEMMA EndingKeeps ==
  ASSUME RuntimeIInv, Ending
  PROVE  RuntimeIInv'
<1> USE RunAssumption
    DEF RuntimeIInv, RuntimeTypeOK, RuntimeRequest, Busy, At, Goto, NoOperation, Serves, Speaks,
           LogsEnded, StoppedIn,
        Ending, Exits, Closes
<1>1. RuntimeTypeOK'
  OBVIOUS
<1>2. OpHasRun'
  BY DEF OpHasRun
<1>3. Unmade'
  BY DEF OpHasRun, Unmade
<1>4. RunningIsNamed'
  BY DEF OpHasRun, Unmade, RunningIsNamed
<1>5. StopForgets'
  BY DEF StopForgets, Unmade
<1>6. ServeInCharge'
  BY DEF OpHasRun, Unmade, ServeInCharge, StopForgets, TargetIsFresh, Target
<1>7. ServeIsApp'
  BY DEF OpHasRun, Unmade, ServeInCharge, ServeIsApp, RunningIsNamed
<1>8. TargetIsFresh'
  BY DEF OpHasRun, Unmade, ServeInCharge, TargetIsFresh, Target, StopForgets
<1>9. LogsEndSoon'
  BY DEF OpHasRun, Unmade, StopForgets, LogsEndSoon
<1>10. NoneOutlivesStop'
  BY DEF OpHasRun, Unmade, RunningIsNamed, StopForgets, NoneOutlivesStop
<1>11. QED
  BY <1>1, <1>2, <1>3, <1>4, <1>5, <1>6, <1>7, <1>8, <1>9, <1>10

LEMMA RuntimeIInvInit == RuntimeInit => RuntimeIInv
<1> SUFFICES ASSUME RuntimeInit PROVE RuntimeIInv
  OBVIOUS
<1> USE DEF RuntimeInit, NoOperation, Unused, Target, At
<1>1. RuntimeTypeOK
  BY LogAssumption DEF RuntimeTypeOK, RuntimeRequest
<1>2. OpHasRun /\ ServeInCharge
  BY DEF OpHasRun, ServeInCharge, Busy
<1>3. Unmade /\ RunningIsNamed /\ StopForgets /\ ServeIsApp /\ NoneOutlivesStop
  BY RunAssumption, LogAssumption
     DEF Unmade, RunningIsNamed, StopForgets, ServeIsApp, NoneOutlivesStop, Busy
<1>4. TargetIsFresh /\ LogsEndSoon
  BY DEF TargetIsFresh, LogsEndSoon
<1>5. QED
  BY <1>1, <1>2, <1>3, <1>4 DEF RuntimeIInv

LEMMA RuntimeIInvNext == RuntimeIInv /\ [RuntimeNext]_runtimeVars => RuntimeIInv'
<1> SUFFICES ASSUME RuntimeIInv, [RuntimeNext]_runtimeVars PROVE RuntimeIInv'
  OBVIOUS
<1>1. CASE EnvironmentReady \/ Replaced
  <2>1. app \in Run \cup {NoRun} /\ (At("replace") => Serves(op.run))
    BY DEF RuntimeIInv, RuntimeTypeOK, OpHasRun, At
  <2>2. CASE EnvironmentReady
    BY <2>1, <2>2, BeginCreateKeeps DEF EnvironmentReady, Replaces, At
  <2>3. CASE Replaced
    BY <2>1, <2>3, BeginCreateKeeps DEF Replaced, At
  <2>4. QED
    BY <1>1, <2>2, <2>3
<1>2. CASE UNCHANGED runtimeVars
  BY <1>2
     DEF RuntimeIInv, runtimeVars, RuntimeTypeOK, OpHasRun, Unmade, RunningIsNamed, StopForgets,
         ServeInCharge, ServeIsApp, TargetIsFresh, LogsEndSoon, NoneOutlivesStop, Target, Serves, At
<1>3. CASE RuntimeNext
  BY <1>1, <1>3, RequestingKeeps, AwaitingKeeps, CreatedKeeps, EnvironmentFailsKeeps,
     ReplaceFailsKeeps, FailKeeps, BeginStopKeeps, AllStoppedKeeps, SomeSurviveKeeps, EndingKeeps
     DEF RuntimeNext, Operation, Requesting, Awaiting, StopEnds, Ending, ResumeApp
<1>4. QED
  BY <1>2, <1>3

-------------------------------------------------------------------------------

\* No container of an earlier generation is left running behind a stop() that reported
\* success (app-runtime.ts: stop()), however many requests are made.
THEOREM NoneOutlivesStopHolds == RuntimeSpec => []NoneOutlivesStop
<1>1. RuntimeIInv => NoneOutlivesStop
  BY DEF RuntimeIInv
<1>2. QED
  BY RuntimeIInvInit, RuntimeIInvNext, <1>1, PTL DEF RuntimeSpec

\* The gateway is sent to the app of the current epoch or to none (target()).
THEOREM TargetIsCurrentHolds == RuntimeSpec => []TargetIsCurrent
<1>1. RuntimeIInv => TargetIsCurrent
  BY DEF RuntimeIInv, TargetIsFresh, TargetIsCurrent
<1>2. QED
  BY RuntimeIInvInit, RuntimeIInvNext, <1>1, PTL DEF RuntimeSpec

\* Of the apps that run at most one is neither a leftover of a failed operation nor locked away.
LEMMA OneAppRuns == RuntimeIInv => OneApp
<1> SUFFICES ASSUME RuntimeIInv, ~unsafe
             PROVE  Cardinality({r \in Run : Serves(r) /\ container[r] = "up"}) <= 1
  BY DEF OneApp
<1> DEFINE Apps == {r \in Run : Serves(r) /\ container[r] = "up"}
<1>1. \A r1, r2 \in Apps : r1 = r2
  BY RunAssumption
     DEF RuntimeIInv, RuntimeTypeOK, OpHasRun, Busy, ServeInCharge, ServeIsApp, At, Serves
<1>2. CASE Apps = {}
  BY <1>2, FS_EmptySet
<1>3. CASE Apps # {}
  <2>1. PICK r : Apps = {r}
    BY <1>1, <1>3
  <2>2. Cardinality(Apps) = 1
    BY <2>1, FS_Singleton, Zenon
  <2>3. QED
    BY <2>2
<1>4. QED
  BY <1>2, <1>3

-------------------------------------------------------------------------------
(* The gateway. *)

\* The runtime changes the target only while it announces so, or while there is none.
LEMMA TargetIsAnnounced ==
  ASSUME RuntimeIInv, RuntimeNext, ~Announced
  PROVE  Target' = Target
<1> USE DEF Announced, Target
<1>1. CASE Inspected
  BY <1>1 DEF Inspected, RuntimeIInv, OpHasRun, ServeInCharge, Busy, At
<1>2. CASE Operation /\ ~Inspected
  BY <1>2 DEF Operation, EnvironmentFails, EnvironmentReady, BeginReplace, Replaced, BeginCreate,
              ReplaceFails, FailState, CreateFails, Start, ExecEnds, ExecTimesOut, Probe,
              Answered, NoAnswer, GiveUp, Fail
<1>3. CASE Stop \/ ExecuteStop \/ StopEnds
  BY <1>3 DEF Stop, ExecuteStop, BeginStop, StopEnds, AllStopped, SomeSurvive
<1>4. CASE \E r \in Run : Exits(r) \/ Closes(r)
  BY <1>4 DEF Exits, Closes
<1>5. QED
  BY <1>1, <1>2, <1>3, <1>4 DEF RuntimeNext, Execute, ResumeApp

\* What a sweep leaves is connected to the app there is.
LEMMA SweepCuts ==
  ASSUME AccessIInv, Sweep, RuntimeIInv', PreviewsTypeOK'
  PROVE  ConnectionsMatch' /\ NoStaleConnection'
<1>1. \A c \in connections' : c \in connections /\ Permitted(c)'
  BY DEF Sweep
<1>2. ConnectionsMatch'
  BY <1>1 DEF AccessIInv, ConnectionsMatch
<1>3. \A c \in connections' : c.app = Target' /\ published' /\ (c.writes => active')
  BY <1>1, <1>2
     DEF Permitted, Reachable, ReadOnly, ConnectionsMatch, RuntimeIInv, TargetIsFresh
<1>4. QED
  BY <1>2, <1>3 DEF NoStaleConnection

\* A sweep forgets tickets and grants, and makes none.
LEMMA SweepTypes ==
  ASSUME PreviewsTypeOK, Sweep, RuntimeTypeOK',
         members' \subseteq Visitor, published' \in BOOLEAN, active' \in BOOLEAN,
         switching' \in BOOLEAN, UNCHANGED entering
  PROVE  PreviewsTypeOK'
BY DEF PreviewsTypeOK, Sweep, SweepAccess

LEMMA AccessIInvInit == PreviewInit => AccessIInv
<1> SUFFICES ASSUME PreviewInit PROVE AccessIInv
  OBVIOUS
<1>1. RuntimeIInv
  BY RuntimeIInvInit DEF PreviewInit
<1>2. PreviewsTypeOK
  BY <1>1 DEF PreviewInit, PreviewsTypeOK, RuntimeIInv
<1>3. QED
  BY <1>1, <1>2 DEF PreviewInit, AccessIInv, ConnectionsMatch, NoStaleConnection

\* The steps that leave the runtime alone.
LEMMA AccessKept ==
  ASSUME AccessIInv, UNCHANGED runtimeVars, RuntimeIInv',
         PreviewNext \/ UNCHANGED accessVars
  PROVE  AccessIInv'
<1>1. RuntimeTypeOK' /\ Target' = Target /\ epoch' = epoch /\ PreviewsTypeOK
  BY DEF AccessIInv, RuntimeIInv, runtimeVars, Target
<1>2. CASE StageChanges \/ EndSwitch \/ TimerSweeps
  <2>1. PreviewsTypeOK'
    BY <1>1, <1>2, SweepTypes DEF StageChanges, EndSwitch, TimerSweeps, PreviewsTypeOK
  <2>2. QED
    BY <1>2, <2>1, SweepCuts DEF StageChanges, EndSwitch, TimerSweeps, AccessIInv
<1>3. CASE \E v \in Visitor : Issue(v) \/ BeginEnter(v) \/ Enter(v)
  <2>1. PreviewsTypeOK'
    BY <1>1, <1>3 DEF PreviewsTypeOK, Issue, BeginEnter, Enter, RuntimeTypeOK, Reachable
  <2>2. QED
    BY <1>1, <1>3, <2>1
       DEF AccessIInv, ConnectionsMatch, NoStaleConnection, Issue, BeginEnter, Enter
<1>4. CASE BeginSwitch \/ \E v \in Visitor : Expire(v)
  <2>1. /\ members' \subseteq Visitor /\ switching' \in BOOLEAN
        /\ UNCHANGED <<published, active, tickets, entering, grants, connections>>
    BY <1>1, <1>4 DEF PreviewsTypeOK, BeginSwitch, Expire
  <2>2. QED
    BY <1>1, <2>1 DEF AccessIInv, PreviewsTypeOK, ConnectionsMatch, NoStaleConnection
<1>5. CASE \E v \in Visitor, writes \in BOOLEAN : Connect(v, writes)
  <2>1. PICK v \in Visitor, writes \in BOOLEAN : Connect(v, writes)
    BY <1>5
  <2> DEFINE new == [visitor |-> v, epoch |-> epoch, app |-> ports, writes |-> writes]
  <2>2. ports = Target /\ epoch = Target /\ Target \in Run
    BY <2>1, RunAssumption DEF Connect, CanConnect, Reachable, Target, AccessIInv, RuntimeIInv,
                               RuntimeTypeOK, TargetIsFresh
  <2>3. new \in [visitor : Visitor, epoch : Run, app : Run, writes : BOOLEAN]
    BY <2>2
  <2>4. published /\ (writes => active) /\ connections' = connections \cup {new}
    BY <2>1 DEF Connect, CanConnect, Reachable, ReadOnly
  <2>5. PreviewsTypeOK'
    BY <1>1, <2>1, <2>3, <2>4 DEF PreviewsTypeOK, Connect
  <2>6. ConnectionsMatch' /\ NoStaleConnection'
    BY <1>1, <2>1, <2>2, <2>4 DEF AccessIInv, ConnectionsMatch, NoStaleConnection, Connect
  <2>7. QED
    BY <2>5, <2>6 DEF AccessIInv
<1>6. CASE \E c \in connections : Disconnect(c)
  BY <1>1, <1>6 DEF AccessIInv, PreviewsTypeOK, ConnectionsMatch, NoStaleConnection, Disconnect
<1>7. CASE UNCHANGED accessVars
  BY <1>1, <1>7 DEF AccessIInv, PreviewsTypeOK, ConnectionsMatch, NoStaleConnection, accessVars
<1>8. CASE RuntimeStep
  <2>1. ~Announced
    BY DEF Announced, runtimeVars
  <2>2. QED
    BY <1>1, <1>8, <2>1
       DEF RuntimeStep, AccessIInv, PreviewsTypeOK, ConnectionsMatch, NoStaleConnection
<1>9. QED
  BY <1>2, <1>3, <1>4, <1>5, <1>6, <1>7, <1>8 DEF PreviewNext

LEMMA AccessIInvNext == AccessIInv /\ [PreviewNext]_previewVars => AccessIInv'
<1> SUFFICES ASSUME AccessIInv, [PreviewNext]_previewVars PROVE AccessIInv'
  OBVIOUS
<1>1. [RuntimeNext]_runtimeVars
  BY DEF PreviewNext, previewVars, RuntimeStep, StageChanges, BeginSwitch, EndSwitch,
         TimerSweeps, Issue, BeginEnter, Enter, Expire, Connect, Disconnect
<1>2. RuntimeIInv'
  BY <1>1, RuntimeIInvNext DEF AccessIInv
<1>3. CASE RuntimeStep /\ Announced
  <2>1. PreviewsTypeOK'
    BY <1>2, <1>3, SweepTypes DEF RuntimeStep, AccessIInv, PreviewsTypeOK, RuntimeIInv
  <2>2. QED
    BY <1>2, <1>3, <2>1, SweepCuts DEF RuntimeStep, AccessIInv
<1>4. CASE RuntimeStep /\ ~Announced
  <2>1. Target' = Target
    BY <1>4, TargetIsAnnounced DEF RuntimeStep, AccessIInv
  <2>2. QED
    BY <1>2, <1>4, <2>1 DEF RuntimeStep, AccessIInv, PreviewsTypeOK, ConnectionsMatch,
                            NoStaleConnection, RuntimeIInv
<1>5. CASE ~RuntimeStep
  <2>1. UNCHANGED runtimeVars /\ (PreviewNext \/ UNCHANGED accessVars)
    BY <1>5 DEF PreviewNext, previewVars, StageChanges, BeginSwitch, EndSwitch,
                TimerSweeps, Issue, BeginEnter, Enter, Expire, Connect, Disconnect
  <2>2. QED
    BY <1>2, <2>1, AccessKept
<1>6. QED
  BY <1>3, <1>4, <1>5

\* Two apps never share the workspace, and no log of an app is left running for ever, with any
\* number of requests and visitors: of every state of the runtime behind its gateway.
THEOREM PreviewsInvHolds == PreviewSpec => []PreviewsInv
<1>1. AccessIInv => PreviewsInv
  <2>1. RuntimeIInv => LogsEnd
    BY DEF RuntimeIInv, LogsEndSoon, LogsEnd
  <2>2. QED
    BY <2>1, OneAppRuns DEF AccessIInv, PreviewsInv
<1>2. QED
  BY AccessIInvInit, AccessIInvNext, <1>1, PTL DEF PreviewSpec

\* docs/LIVE_APPS.md:30: whoever is connected is connected to the app there is, shown on the
\* stage, and if he writes, in the turn of its project (preview-gateway.ts: sweep()).
THEOREM NoStaleConnectionHolds == PreviewSpec => []NoStaleConnection
<1>1. AccessIInv => NoStaleConnection
  BY DEF AccessIInv
<1>2. QED
  BY AccessIInvInit, AccessIInvNext, <1>1, PTL DEF PreviewSpec

\* Behind the gateway the runtime is the runtime: what is proved of it alone holds here.
THEOREM GatewayLeavesRuntime == PreviewSpec => RuntimeSpec
<1>1. PreviewInit => RuntimeInit
  BY DEF PreviewInit
<1>2. [PreviewNext]_previewVars => [RuntimeNext]_runtimeVars
  BY DEF PreviewNext, previewVars, RuntimeStep, StageChanges, BeginSwitch, EndSwitch,
         TimerSweeps, Issue, BeginEnter, Enter, Expire, Connect, Disconnect
<1>3. QED
  BY <1>1, <1>2, PTL DEF PreviewSpec, RuntimeSpec

===============================================================================
