----------------------------- MODULE ShellSessions -----------------------------
(***************************************************************************)
(* The terminals that people open by hand (server/shell-sessions.ts over   *)
(* server/docker-terminal.ts): a container for each, started while its     *)
(* speaker may lose control, its pane may leave the stage or the server    *)
(* may stop it, resized by one request after another, closed once what is  *)
(* under way has ended.                                                    *)
(*                                                                         *)
(* Assumed of Docker: the client that attaches to a container ends with    *)
(* it, and no container is up before `docker start` is called or after its *)
(* shutdown was confirmed.                                                 *)
(***************************************************************************)
EXTENDS Naturals, FiniteSets

CONSTANTS
  Session,
  Pane,       \* ids of manual terminal panes; bound
  Run,        \* one for each start() that gets past its guards; bound
  NoRun,
  MaxShells   \* 3

ASSUME ShellAssumption ==
  /\ Session # {} /\ Pane # {}
  /\ NoRun \notin Run
  /\ MaxShells \in Nat

VARIABLES
  controls,   \* the sessions that pass assertPaneControl()
  shown,      \* the panes on the stage that have a shell
  known,      \* the panes the stage knows, shown or saved
  shells,     \* this.shells: the run of each pane
  of,         \* the pane of each run
  by,         \* the session that asked for it
  start,      \* where its starting awaits: "over" is a starting of undefined
  process,    \* whether shell.process is set
  closing,    \* "no", or who awaits its close: "asked" nobody, "route" the pane's closing
  ended,      \* shell.ended
  status,     \* shell.screen.status
  resizing,   \* the runs with a resize under way
  stopping,   \* this.stopping
  unsafe,     \* this.unsafe
  container   \* external: Docker's containers, "up" from `docker start` on

shellVars == <<controls, shown, known, shells, of, by, start, process, closing, ended,
               status, resizing, stopping, unsafe, container>>

ShellTypeOK ==
  /\ controls \subseteq Session
  /\ shown \subseteq known /\ known \subseteq Pane
  /\ shells \in [Pane -> Run \cup {NoRun}]
  /\ of \in [Run -> Pane]
  /\ by \in [Run -> Session]
  /\ start \in [Run -> {"unused", "launch", "resize", "failing", "over"}]
  /\ process \in [Run -> BOOLEAN]
  /\ closing \in [Run -> {"no", "asked", "route", "failed"}]
  /\ ended \in [Run -> BOOLEAN]
  /\ status \in [Run -> {"starting", "ready", "stopped", "error"}]
  /\ resizing \subseteq Run
  /\ stopping \in BOOLEAN /\ unsafe \in BOOLEAN
  /\ container \in [Run -> {"none", "up", "gone"}]

ShellInit ==
  /\ controls \in SUBSET Session
  /\ shown = {} /\ known = {}
  /\ shells = [p \in Pane |-> NoRun]
  /\ of = [r \in Run |-> CHOOSE p \in Pane : TRUE]
  /\ by = [r \in Run |-> CHOOSE s \in Session : TRUE]
  /\ start = [r \in Run |-> "unused"]
  /\ process = [r \in Run |-> FALSE]
  /\ closing = [r \in Run |-> "no"]
  /\ ended = [r \in Run |-> FALSE]
  /\ status = [r \in Run |-> "starting"]
  /\ resizing = {}
  /\ stopping = FALSE /\ unsafe = FALSE
  /\ container = [r \in Run |-> "none"]

Starting(r) == start[r] \in {"launch", "resize", "failing"}
Open == {shells[p] : p \in Pane} \ {NoRun}

-------------------------------------------------------------------------------
(* start() *)

CanOpen == ~unsafe /\ ~stopping /\ Cardinality({r \in Open : ~ended[r]}) < MaxShells

\* A run for pane p, up to the first await of its starting.
Launch(s, p, r) ==
  /\ s \in controls
  /\ CanOpen
  /\ shells[p] # NoRun =>
       ended[shells[p]] /\ ~Starting(shells[p]) /\ closing[shells[p]] = "no"
  /\ start[r] = "unused"
  /\ start' = [start EXCEPT ![r] = "launch"]
  /\ shells' = [shells EXCEPT ![p] = r]
  /\ of' = [of EXCEPT ![r] = p]
  /\ by' = [by EXCEPT ![r] = s]
  /\ container' = [container EXCEPT ![r] = "up"]
  /\ UNCHANGED <<controls, process, closing, ended, status, resizing, stopping, unsafe>>

\* POST /api/panes/add
AddShell(s, p, r) ==
  /\ p \notin known
  /\ shown' = shown \cup {p}
  /\ known' = known \cup {p}
  /\ Launch(s, p, r)

\* POST /api/shell/<p>/start
Restart(s, p, r) ==
  /\ p \in shown
  /\ Launch(s, p, r)
  /\ UNCHANGED <<shown, known>>

\* finish()
Finish(r, s) ==
  /\ ended' = [ended EXCEPT ![r] = TRUE]
  /\ status' = IF ended[r] THEN status ELSE [status EXCEPT ![r] = s]

\* process.stop(): confirmed, or rejected while Docker still lists the container.
Confirmed(r) == container' = [container EXCEPT ![r] = "gone"]
Unconfirmed(r) == container[r] = "up" /\ UNCHANGED container

StartGoes(r, step) == start' = [start EXCEPT ![r] = step]

\* The launcher has seen the container up, or its client gone.
Launched(r) ==
  /\ start[r] = "launch"
  /\ process' = [process EXCEPT ![r] = TRUE]
  /\ StartGoes(r, IF closing[r] # "no" \/ ended[r] THEN "over"
                  ELSE IF by[r] \in controls /\ of[r] \in shown THEN "resize"
                  ELSE "failing")
  /\ UNCHANGED <<controls, shown, known, shells, of, by, closing, ended, status, resizing,
                 stopping, unsafe, container>>

\* docker create fails, or the start is never confirmed and neither is its undoing.
LaunchFails(r, unconfirmed) ==
  /\ start[r] = "launch"
  /\ IF unconfirmed THEN unsafe' = TRUE /\ UNCHANGED container
                    ELSE Confirmed(r) /\ UNCHANGED unsafe
  /\ StartGoes(r, "over")
  /\ Finish(r, "error")
  /\ UNCHANGED <<controls, shown, known, shells, of, by, process, closing, resizing, stopping>>

\* The first resize; the shell may have ended meanwhile.
Readied(r) ==
  /\ start[r] = "resize"
  /\ status' = [status EXCEPT ![r] = "ready"]
  /\ StartGoes(r, "over")
  /\ UNCHANGED <<controls, shown, known, shells, of, by, process, closing, ended, resizing,
                 stopping, unsafe, container>>

ReadyFails(r) ==
  /\ start[r] = "resize"
  /\ StartGoes(r, "failing")
  /\ UNCHANGED <<controls, shown, known, shells, of, by, process, closing, ended, status,
                 resizing, stopping, unsafe, container>>

\* The catch of a starting
StartFails(r) ==
  /\ start[r] = "failing"
  /\ \/ Confirmed(r) /\ UNCHANGED unsafe
     \/ Unconfirmed(r) /\ unsafe' = TRUE
  /\ Finish(r, "error")
  /\ StartGoes(r, "over")
  /\ UNCHANGED <<controls, shown, known, shells, of, by, process, closing, resizing, stopping>>

-------------------------------------------------------------------------------
(* resize() *)

\* Once the requests before it are done; one that is refused by then changes nothing.
Resize(r) ==
  /\ r \in Open \ resizing
  /\ controls # {} /\ of[r] \in shown
  /\ process[r] /\ ~ended[r] /\ closing[r] = "no"
  /\ resizing' = resizing \cup {r}
  /\ UNCHANGED <<controls, shown, known, shells, of, by, start, process, closing, ended,
                 status, stopping, unsafe, container>>

ResizeEnds(r) ==
  /\ r \in resizing
  /\ resizing' = resizing \ {r}
  /\ UNCHANGED <<controls, shown, known, shells, of, by, start, process, closing, ended,
                 status, stopping, unsafe, container>>

-------------------------------------------------------------------------------
(* close(), reconcile() and stop() *)

\* close() of the runs rs, as far as it is synchronous.
CloseAll(rs) ==
  closing' = [r \in Run |-> IF r \in rs /\ closing[r] = "no" THEN "asked" ELSE closing[r]]

\* POST /api/panes/present with pane.close: the pane follows once its shell is closed.
ClosePane(p) ==
  /\ controls # {} /\ p \in shown
  /\ IF shells[p] = NoRun
       THEN shown' = shown \ {p} /\ UNCHANGED closing
       ELSE /\ closing[shells[p]] \in {"no", "asked"}
            /\ closing' = [closing EXCEPT ![shells[p]] = "route"]
            /\ UNCHANGED shown
  /\ UNCHANGED <<controls, known, shells, of, by, start, process, ended, status, resizing,
                 stopping, unsafe, container>>

\* The agent or another artifact takes the pane from the stage, and reconcile() runs.
HidePane(p) ==
  /\ p \in shown
  /\ shown' = shown \ {p}
  /\ CloseAll({shells[p]} \ {NoRun})
  /\ UNCHANGED <<controls, known, shells, of, by, start, process, ended, status, resizing,
                 stopping, unsafe, container>>

\* A saved pane is shown again.
ShowPane(p) ==
  /\ p \in known \ shown
  /\ shown' = shown \cup {p}
  /\ UNCHANGED <<controls, known, shells, of, by, start, process, closing, ended, status,
                 resizing, stopping, unsafe, container>>

\* mutant: a starting is not awaited.
CanCloseAtOnce(r) == closing[r] \in {"asked", "route"} /\ r \notin resizing

\* What a close waits for.
CanClose(r) ==
  /\ closing[r] \in {"asked", "route"}
  /\ ~Starting(r) /\ r \notin resizing

Closed(r) ==
  /\ CanClose(r)
  /\ container' = IF process[r] THEN [container EXCEPT ![r] = "gone"] ELSE container
  /\ ended' = [ended EXCEPT ![r] = TRUE]
  /\ status' = [status EXCEPT ![r] = "stopped"]
  /\ shells' = [shells EXCEPT ![of[r]] = NoRun]
  /\ closing' = [closing EXCEPT ![r] = "no"]
  /\ shown' = IF closing[r] = "route" THEN shown \ {of[r]} ELSE shown
  /\ UNCHANGED <<controls, known, of, by, start, process, resizing, stopping, unsafe>>

CloseFails(r) ==
  /\ CanClose(r)
  /\ process[r] /\ Unconfirmed(r)
  /\ closing' = [closing EXCEPT ![r] = "failed"]
  /\ unsafe' = TRUE
  /\ UNCHANGED <<controls, shown, known, shells, of, by, start, process, ended, status,
                 resizing, stopping>>

BeginStop ==
  /\ ~stopping
  /\ stopping' = TRUE
  /\ CloseAll(Open)
  /\ UNCHANGED <<controls, shown, known, shells, of, by, start, process, ended, status,
                 resizing, unsafe, container>>

\* Promise.all: every close is done, or one of them was rejected.  No shell is opened
\* in between.
EndStop ==
  /\ stopping
  /\ \/ Open = {}
     \/ \E r \in Open : closing[r] = "failed"
  /\ stopping' = FALSE
  /\ UNCHANGED <<controls, shown, known, shells, of, by, start, process, closing, ended,
                 status, resizing, unsafe, container>>

-------------------------------------------------------------------------------
(* The floor changes hands; containers exit. *)

ControlChanges ==
  /\ controls' \in SUBSET Session \ {controls}
  /\ UNCHANGED <<shown, known, shells, of, by, start, process, closing, ended, status,
                 resizing, stopping, unsafe, container>>

Exits(r) ==
  /\ container[r] = "up"
  /\ container' = [container EXCEPT ![r] = "gone"]
  /\ \E s \in {"stopped", "error"} : Finish(r, s)
  /\ UNCHANGED <<controls, shown, known, shells, of, by, start, process, closing, resizing,
                 stopping, unsafe>>

ShellNext ==
  \/ \E s \in Session, p \in Pane :
       \E r \in Run : AddShell(s, p, r) \/ Restart(s, p, r)
  \/ \E p \in Pane : ClosePane(p) \/ HidePane(p) \/ ShowPane(p)
  \/ \E r \in Run :
       \/ Launched(r) \/ Readied(r) \/ ReadyFails(r) \/ StartFails(r)
       \/ \E unconfirmed \in BOOLEAN : LaunchFails(r, unconfirmed)
       \/ Resize(r) \/ ResizeEnds(r) \/ Closed(r) \/ CloseFails(r)
       \/ Exits(r)
  \/ BeginStop \/ EndStop \/ ControlChanges

ShellSpec == ShellInit /\ [][ShellNext]_shellVars

-------------------------------------------------------------------------------

\* A shell's container is accounted for: it is starting, or it is open and its pane
\* is on the stage or its close is under way, or no more shells are opened.
NoOrphanShell ==
  \A r \in Run : container[r] = "up" =>
    \/ unsafe
    \/ /\ shells[of[r]] = r
       /\ Starting(r) \/ ~ended[r]
       /\ of[r] \in shown \/ closing[r] # "no"

\* A pane never hosts more than one container, nor the project more than MaxShells.
ShellsBounded ==
  unsafe \/ /\ Cardinality({r \in Run : container[r] = "up"}) <= MaxShells
            /\ \A r, q \in Run : container[r] = "up" /\ container[q] = "up" /\ of[r] = of[q] => r = q

===============================================================================
