-------------------------------- MODULE Answers --------------------------------
(***************************************************************************)
(* Inputs and their answers (server/runner.ts, the answers of              *)
(* server/tui-session.ts, server/project-secrets.ts, `wait` of             *)
(* agent/present.mjs): the agent publishes an input and waits for a file,  *)
(* several people may answer it while writes fail, the pane is replaced or *)
(* closed and the job ends; a secret is stored first and only its name     *)
(* answers.  In a rehearsal the one input is awaited by the server itself. *)
(*                                                                         *)
(* Assumed of the agent, as it is instructed: it does one thing at a time, *)
(* and an input has an id of its own; only an input whose page failed is   *)
(* published again.                                                        *)
(***************************************************************************)
EXTENDS Naturals, SequencesExt

CONSTANTS
  Pane,          \* ids of input panes
  SecretPane,    \* those that ask for a secret, each for a variable of its own
  Request,       \* POST /api/input and /api/input/secret, each with a value of its own; bound
  None,
  MaxJobs,       \* bound
  MaxPublished   \* bound: how often a pane is published

ASSUME AnswerAssumption ==
  /\ SecretPane \subseteq Pane
  /\ None \notin Pane \cup Request
  /\ MaxJobs \in Nat /\ MaxPublished \in Nat

VARIABLES
  native,      \* store.state.runner = 'antigravity'
  turn,        \* store.state.turn: the number of the job, 0 for none
  jobs,        \* the jobs begun
  pane,        \* the status of each input on the stage, "none" when it is not there
  object,      \* how often each was put there: the identity of the pane object
  published,   \* the upserts in the journal that the poll has not read
  process,     \* tui.process is set
  accepted, reported,
  submissions, \* runner.submissions
  request,     \* what each request is for and where it is
  answered,    \* <id>.answer.json in the bridge
  failed,      \* the panes with an <id>.error.json in it
  errors,      \* the inputError() calls whose file is being written
  agent,       \* external: "none", "thinking", "waiting" or "command"
  asking,      \* external: the pane it waits for, or is to publish again
  got,         \* external: what it read of each pane
  stored,      \* secrets.json
  sets,        \* the set() calls that are queued behind each other
  step,        \* where rehearsal() is
  answer,      \* runner.answer is set
  aborted,     \* the signal of the rehearsal has been aborted
  stops        \* the stop() calls under way: the job each found

answerVars ==
  <<native, turn, jobs, pane, object, published, process, accepted, reported, submissions,
    request, answered, failed, errors, agent, asking, got, stored, sets, step, answer, aborted,
    stops>>

Unused == [pane |-> None, object |-> 0, turn |-> 0, at |-> "unused"]

RequestState ==
  [pane : Pane \cup {None}, object : 0..MaxPublished, turn : 0..MaxJobs,
   at : {"unused", "saving", "saved", "writing", "ok", "refused"}]

\* What secrets.json may hold.
Secrets == [SecretPane -> Request \cup {None}]

AnswersTypeOK ==
  /\ native \in BOOLEAN /\ process \in BOOLEAN /\ answer \in BOOLEAN /\ aborted \in BOOLEAN
  /\ turn \in 0..jobs /\ jobs \in 0..MaxJobs
  /\ pane \in [Pane -> {"none", "active", "done"}]
  /\ object \in [Pane -> 0..MaxPublished]
  /\ published \subseteq Pane
  /\ accepted \subseteq Pane /\ reported \subseteq Pane /\ submissions \subseteq Pane
  /\ request \in [Request -> RequestState]
  /\ answered \in [Pane -> Request \cup {None}] /\ got \in [Pane -> Request \cup {None}]
  /\ failed \subseteq Pane /\ errors \subseteq Pane
  /\ agent \in {"none", "thinking", "waiting", "command"} /\ asking \in Pane \cup {None}
  /\ stored \in Secrets
  /\ sets \in Seq([request : Request, name : SecretPane, read : Secrets \cup {None}])
  /\ step \in {"none", "begun", "context", "asked", "answered", "child"}
  /\ stops \subseteq 0..MaxJobs

AnswersInit ==
  /\ native \in BOOLEAN
  /\ turn = 0 /\ jobs = 0
  /\ pane = [p \in Pane |-> "none"] /\ object = [p \in Pane |-> 0]
  /\ published = {} /\ process = native
  /\ accepted = {} /\ reported = {} /\ submissions = {}
  /\ request = [r \in Request |-> Unused]
  /\ answered = [p \in Pane |-> None] /\ failed = {} /\ errors = {}
  /\ agent = "none" /\ asking = None /\ got = [p \in Pane |-> None]
  /\ stored = [s \in SecretPane |-> None] /\ sets = <<>>
  /\ step = "none" /\ answer = FALSE /\ aborted = FALSE
  /\ stops = {}

rehearsalVars == <<step, answer, aborted>>
agentVars == <<agent, asking, got>>
bridgeVars == <<published, answered, failed>>
secretVars == <<stored, sets>>
sessionVars == <<process, accepted, reported>>
floorVars == <<native, jobs, stops>>

\* finish(): the job ends and takes its inputs from the stage.
Finish(t) ==
  IF turn = t /\ t # 0
    THEN turn' = 0 /\ pane' = [p \in Pane |-> "none"]
    ELSE UNCHANGED <<turn, pane>>

-------------------------------------------------------------------------------
(* A native job, and what the agent does in it.                            *)

BeginNative ==
  /\ native /\ process /\ turn = 0 /\ stops = {} /\ jobs < MaxJobs
  /\ jobs' = jobs + 1 /\ turn' = jobs + 1
  /\ accepted' = {} /\ reported' = {}
  /\ agent' = "thinking" /\ asking' = None
  /\ UNCHANGED <<native, pane, object, process, submissions, request, errors, got, bridgeVars,
                 secretVars, rehearsalVars, stops>>

\* emit() of an input, and `wait` for it.
Publish(p) ==
  /\ agent = "thinking"
  /\ asking = p \/ (asking = None /\ object[p] = 0)
  /\ p \notin published /\ object[p] < MaxPublished
  /\ published' = published \cup {p}
  /\ failed' = failed \ {p}
  /\ agent' = "waiting" /\ asking' = p
  /\ UNCHANGED <<floorVars, turn, pane, object, sessionVars, submissions, request, errors, got,
                 answered, secretVars, rehearsalVars>>

\* The poll reads the input.
Present(p) ==
  /\ process /\ p \in published
  /\ published' = published \ {p}
  /\ IF turn = 0
       THEN UNCHANGED <<pane, object, reported>>
       ELSE /\ pane' = [pane EXCEPT ![p] = "active"]
            /\ object' = [object EXCEPT ![p] = @ + 1]
            /\ reported' = reported \ {p}
  /\ UNCHANGED <<floorVars, turn, process, accepted, submissions, request, errors, agentVars,
                 answered, failed, secretVars, rehearsalVars>>

\* `wait` looks for a failure of the page first, then for an answer.
AgentReads ==
  /\ agent = "waiting"
  /\ agent' = "thinking"
  /\ IF asking \in failed
       THEN UNCHANGED <<asking, got>>
       ELSE /\ answered[asking] # None
            /\ got' = [got EXCEPT ![asking] = answered[asking]]
            /\ asking' = None
  /\ UNCHANGED <<floorVars, turn, pane, object, sessionVars, submissions, request, errors,
                 bridgeVars, secretVars, rehearsalVars>>

\* Its 180 seconds are over, or it gives up on a page it was to repair.
AgentGivesUp ==
  /\ agent \in {"waiting", "thinking"} /\ asking # None
  /\ agent' = "thinking" /\ asking' = None
  /\ UNCHANGED <<floorVars, turn, pane, object, sessionVars, submissions, request, errors, got,
                 bridgeVars, secretVars, rehearsalVars>>

ClosePane(p) ==
  /\ agent = "thinking" /\ pane[p] # "none"
  /\ pane' = [pane EXCEPT ![p] = "none"]
  /\ UNCHANGED <<floorVars, turn, object, sessionVars, submissions, request, errors, agentVars,
                 bridgeVars, secretVars, rehearsalVars>>

\* The job ends once what the agent published before is presented.
EndNative ==
  /\ agent = "thinking" /\ published = {}
  /\ Finish(turn)
  /\ agent' = "none" /\ asking' = None
  /\ UNCHANGED <<floorVars, object, sessionVars, submissions, request, errors, got, bridgeVars,
                 secretVars, rehearsalVars>>

\* The page of an input fails; the report is written beside whatever else happens.
InputError(p) ==
  /\ turn # 0 /\ pane[p] = "active" /\ p \notin SecretPane
  /\ process /\ p \notin reported /\ p \notin errors
  /\ reported' = reported \cup {p}
  /\ errors' = errors \cup {p}
  /\ UNCHANGED <<floorVars, turn, pane, object, process, accepted, submissions, request,
                 agentVars, bridgeVars, secretVars, rehearsalVars>>

ErrorWritten(p) ==
  /\ p \in errors
  /\ errors' = errors \ {p}
  /\ failed' \in {failed \cup {p}, failed}
  /\ UNCHANGED <<floorVars, turn, pane, object, sessionVars, submissions, request, agentVars,
                 published, answered, secretVars, rehearsalVars>>

-------------------------------------------------------------------------------
(* submit(), submitSecret() and deliverAnswer() *)

Goes(r, where) == request' = [request EXCEPT ![r].at = where]

Refused(r) ==
  /\ Goes(r, "refused")
  /\ submissions' = submissions \ {request[r].pane}

\* mutant: whoever comes second is not told that he does.
CanDeliverTwice(p) == turn # 0 /\ pane[p] = "active" /\ p \notin submissions

CanDeliver(p) ==
  /\ turn # 0 /\ pane[p] = "active"
  /\ p \notin submissions
  /\ IF native THEN process /\ p \notin accepted ELSE answer

Asked(r, p, where) ==
  request' = [request EXCEPT ![r] =
                [pane |-> p, object |-> object[p], turn |-> turn, at |-> where]]

\* An answer to a native input goes straight to its file.
Submit(r, p) ==
  /\ native /\ request[r] = Unused /\ p \notin SecretPane
  /\ CanDeliver(p)
  /\ submissions' = submissions \cup {p}
  /\ accepted' = accepted \cup {p}
  /\ Asked(r, p, "writing")
  /\ UNCHANGED <<floorVars, turn, pane, object, process, reported, errors, agentVars,
                 bridgeVars, secretVars, rehearsalVars>>

\* A secret is saved first.
SubmitSecret(r, p) ==
  /\ native /\ request[r] = Unused /\ p \in SecretPane
  /\ CanDeliver(p)
  /\ submissions' = submissions \cup {p}
  /\ sets' = Append(sets, [request |-> r, name |-> p, read |-> None])
  /\ Asked(r, p, "saving")
  /\ UNCHANGED <<floorVars, turn, pane, object, sessionVars, errors, agentVars, bridgeVars,
                 stored, rehearsalVars>>

\* mutant: set() calls are not queued behind each other.
CanReadAtOnce(i) == sets[i].read = None

\* set() waits for the calls before it, then reads the file ...
CanRead(i) == i = 1 /\ sets[i].read = None

ReadSecrets(i) ==
  /\ CanRead(i)
  /\ sets' = [sets EXCEPT ![i].read = stored]
  /\ UNCHANGED <<floorVars, turn, pane, object, sessionVars, submissions, request, errors,
                 agentVars, bridgeVars, stored, rehearsalVars>>

\* ... and writes what it read with its own value, or cannot.
Saved(i) ==
  /\ sets[i].read # None
  /\ sets' = RemoveAt(sets, i)
  /\ \/ /\ stored' = [sets[i].read EXCEPT ![sets[i].name] = sets[i].request]
        /\ Goes(sets[i].request, "saved")
        /\ UNCHANGED submissions
     \/ UNCHANGED stored /\ Refused(sets[i].request)
  /\ UNCHANGED <<floorVars, turn, pane, object, sessionVars, errors, agentVars, bridgeVars,
                 rehearsalVars>>

StillAsked(r) ==
  LET p == request[r].pane IN
  turn = request[r].turn /\ pane[p] # "none" /\ object[p] = request[r].object

\* deliverAnswer() after the save.
Deliver(r) ==
  /\ request[r].at = "saved"
  /\ IF StillAsked(r) /\ process /\ request[r].pane \notin accepted
       THEN /\ Goes(r, "writing")
            /\ accepted' = accepted \cup {request[r].pane}
            /\ UNCHANGED submissions
       ELSE Refused(r) /\ UNCHANGED accepted
  /\ UNCHANGED <<floorVars, turn, pane, object, process, reported, errors, agentVars, bridgeVars,
                 secretVars, rehearsalVars>>

\* The file is there; the pane object that was answered is marked, on the stage or off it.
Answered(r) ==
  /\ request[r].at = "writing"
  /\ answered' = [answered EXCEPT ![request[r].pane] = r]
  /\ pane' = IF pane[request[r].pane] # "none" /\ object[request[r].pane] = request[r].object
               THEN [pane EXCEPT ![request[r].pane] = "done"] ELSE pane
  /\ Goes(r, "ok")
  /\ submissions' = submissions \ {request[r].pane}
  /\ UNCHANGED <<floorVars, turn, object, sessionVars, errors, agentVars, published, failed,
                 secretVars, rehearsalVars>>

AnswerLost(r) ==
  /\ request[r].at = "writing"
  /\ Refused(r)
  /\ accepted' = accepted \ {request[r].pane}
  /\ UNCHANGED <<floorVars, turn, pane, object, process, reported, errors, agentVars, bridgeVars,
                 secretVars, rehearsalVars>>

-------------------------------------------------------------------------------
(* rehearsal(): messages and panes in time, one input, one child process.  *)

\* POST /api/prompt: assertReady(), begin() and start().
BeginRehearsal ==
  /\ ~native /\ step = "none" /\ turn = 0 /\ jobs < MaxJobs
  /\ jobs' = jobs + 1 /\ turn' = jobs + 1
  /\ step' = "begun"
  /\ UNCHANGED <<native, stops, pane, object, sessionVars, submissions, request, errors,
                 agentVars, bridgeVars, secretVars, answer, aborted>>

Proceeds(from, to) == step = from /\ ~aborted /\ step' = to

RehearsalShows ==
  /\ Proceeds("begun", "context")
  /\ UNCHANGED <<floorVars, turn, pane, object, sessionVars, submissions, request, errors,
                 agentVars, bridgeVars, secretVars, answer, aborted>>

RehearsalAsks(p) ==
  /\ Proceeds("context", "asked")
  /\ object[p] < MaxPublished
  /\ pane' = [pane EXCEPT ![p] = "active"]
  /\ object' = [object EXCEPT ![p] = @ + 1]
  /\ answer' = TRUE
  /\ UNCHANGED <<floorVars, turn, sessionVars, submissions, request, errors, agentVars,
                 bridgeVars, secretVars, aborted>>

\* Its answer is taken in one go.
RehearsalAnswered(r, p) ==
  /\ ~native /\ request[r] = Unused /\ p \notin SecretPane
  /\ CanDeliver(p)
  /\ Proceeds("asked", "answered")
  /\ answer' = FALSE
  /\ pane' = [pane EXCEPT ![p] = "done"]
  /\ Asked(r, p, "ok")
  /\ UNCHANGED <<floorVars, turn, object, sessionVars, submissions, errors, agentVars, bridgeVars,
                 secretVars, aborted>>

RehearsalRuns ==
  /\ Proceeds("answered", "child")
  /\ pane' = [p \in Pane |-> "none"]
  /\ UNCHANGED <<floorVars, turn, object, sessionVars, submissions, request, errors, agentVars,
                 bridgeVars, secretVars, answer, aborted>>

\* The child has closed, and the job is finished.
RehearsalEnds ==
  /\ Proceeds("child", "none")
  /\ Finish(turn)
  /\ UNCHANGED <<floorVars, object, sessionVars, submissions, request, errors, agentVars,
                 bridgeVars, secretVars, answer, aborted>>

\* mutant: the stage is not told.
RehearsalFailsSilently ==
  /\ step # "none" /\ ~aborted
  /\ step' = "none" /\ answer' = FALSE
  /\ UNCHANGED <<floorVars, turn, pane, object, sessionVars, submissions, request, errors,
                 agentVars, bridgeVars, secretVars, aborted>>

\* 180 seconds without an answer, no place on the stage, or a child that fails.
RehearsalFails ==
  /\ step # "none" /\ ~aborted
  /\ step' = "none" /\ answer' = FALSE
  /\ Finish(turn)
  /\ UNCHANGED <<floorVars, object, sessionVars, submissions, request, errors, agentVars,
                 bridgeVars, secretVars, aborted>>

\* The signal of stop() reaches it: it tells the stage nothing.
RehearsalAborts ==
  /\ aborted
  /\ aborted' = FALSE
  /\ step' = "none" /\ answer' = FALSE
  /\ UNCHANGED <<floorVars, turn, pane, object, sessionVars, submissions, request, errors,
                 agentVars, bridgeVars, secretVars>>

-------------------------------------------------------------------------------
(* stop(), and a CLI that exits *)

Gone ==
  /\ process' = FALSE
  /\ agent' = "none" /\ asking' = None

BeginStop ==
  /\ turn \notin stops
  /\ stops' = stops \cup {turn}
  /\ answer' = FALSE
  /\ aborted' = (step # "none")
  /\ Gone
  /\ UNCHANGED <<native, jobs, turn, pane, object, accepted, reported, submissions, request,
                 errors, got, bridgeVars, secretVars, step>>

EndStop(t) ==
  /\ t \in stops
  /\ ~aborted
  /\ stops' = stops \ {t}
  /\ Finish(t)
  /\ UNCHANGED <<native, jobs, object, sessionVars, submissions, request, errors, agentVars,
                 bridgeVars, secretVars, rehearsalVars>>

ProcessExits ==
  /\ native /\ process
  /\ Gone
  /\ Finish(turn)
  /\ UNCHANGED <<floorVars, object, accepted, reported, submissions, request, errors, got,
                 bridgeVars, secretVars, rehearsalVars>>

\* A new CLI has a bridge of its own, where what is still being written may land.
Launch ==
  /\ native /\ ~process /\ turn = 0 /\ stops = {}
  /\ process' = TRUE
  /\ accepted' = {} /\ reported' = {}
  /\ published' = {} /\ failed' = {}
  /\ answered' = [p \in Pane |-> None]
  /\ UNCHANGED <<floorVars, turn, pane, object, submissions, request, errors, agentVars,
                 secretVars, rehearsalVars>>

AnswersNext ==
  \/ BeginNative \/ AgentReads \/ AgentGivesUp \/ EndNative
  \/ \E i \in DOMAIN sets : ReadSecrets(i) \/ Saved(i)
  \/ \E p \in Pane : Publish(p) \/ Present(p) \/ ClosePane(p) \/ InputError(p)
                       \/ ErrorWritten(p) \/ RehearsalAsks(p)
  \/ \E r \in Request :
       \/ Deliver(r) \/ Answered(r) \/ AnswerLost(r)
       \/ \E p \in Pane : Submit(r, p) \/ SubmitSecret(r, p) \/ RehearsalAnswered(r, p)
  \/ BeginRehearsal \/ RehearsalShows \/ RehearsalRuns \/ RehearsalEnds \/ RehearsalFails
  \/ RehearsalAborts
  \/ BeginStop \/ ProcessExits \/ Launch
  \/ \E t \in stops : EndStop(t)

AnswersSpec == AnswersInit /\ [][AnswersNext]_answerVars

-------------------------------------------------------------------------------

\* Of all who answer an input one is told that he has, his answer is in the bridge for as
\* long as the job lasts, and the agent reads no other.
AcknowledgedIsRead ==
  native => \A r \in Request : request[r].at = "ok" =>
    LET p == request[r].pane IN
    /\ \A q \in Request \ {r} : request[q].pane = p => request[q].at # "ok"
    /\ turn = request[r].turn => answered[p] = r
    /\ got[p] \in {None, r}

\* A secret whose request was acknowledged is stored, whatever was stored beside it.
NoSecretLost ==
  \A r \in Request : request[r].at = "ok" /\ request[r].pane \in SecretPane =>
    LET q == stored[request[r].pane] IN q # None /\ request[q].pane = request[r].pane

\* A job of a rehearsal is being worked on or being stopped: none is left waiting for
\* an answer that nobody takes.
JobHasWorker == ~native /\ turn # 0 => step # "none" \/ turn \in stops

===============================================================================
