------------------------------ MODULE AnswersProofs ------------------------------
(***************************************************************************)
(* Theorems about inputs, their answers and secrets, for any number of     *)
(* panes, of people who answer and of jobs.                                *)
(***************************************************************************)
EXTENDS Answers, SequenceTheorems, TLAPS

Used(r) == request[r].at # "unused"

\* A request names a pane that was put on the stage, in a job that had begun.
RequestsKnown ==
  /\ \A p \in Pane : pane[p] # "none" => object[p] # 0
  /\ \A r \in Request :
       IF Used(r)
         THEN /\ request[r].pane \in Pane /\ object[request[r].pane] # 0
              /\ request[r].turn \in 1..jobs
         ELSE request[r].pane = None

\* Nobody waits for an answer, and nothing is on the stage, without the CLI of a job.
AtWork ==
  /\ agent # "none" \/ published # {} => native
  /\ agent = "waiting" => asking # None
  /\ \A p \in published : object[p] < MaxPublished
  /\ native =>
       /\ asking # None => agent # "none"
       /\ agent # "none" => process /\ turn # 0
       /\ process => stops = {}
       /\ process /\ turn = 0 => published = {}
       /\ turn = 0 => \A p \in Pane : pane[p] = "none"
       /\ step = "none" /\ ~aborted

\* Only the rehearsal that is stopped is aborted.
AbortedIsStopped == aborted => step # "none" /\ turn \in stops

\* An input that can still be answered was answered in this job only.
AskedInThisJob ==
  native => \A p \in Pane : pane[p] # "none" \/ (process /\ p \in published) \/ asking = p =>
    \A r \in Request : request[r].pane = p => request[r].turn = turn

\* All who answer an input do so in one job.
OneJob ==
  native => \A r, q \in Request :
    Used(r) /\ request[q].pane = request[r].pane => request[q].turn = request[r].turn

UnderWay(r) == request[r].at \in {"saving", "saved", "writing"}

\* An input has one answer under way, and is locked while it has.
OneUnderWay ==
  \A r \in Request : UnderWay(r) =>
    /\ request[r].pane \in submissions
    /\ \A q \in Request \ {r} : request[q].pane = request[r].pane => ~UnderWay(q)

Claims(r) == request[r].at \in {"writing", "ok"}

\* Whoever claims an input does so alone, and the input stays accepted for the job.
OneClaims ==
  native => \A r \in Request : Claims(r) =>
    /\ \A q \in Request \ {r} : request[q].pane = request[r].pane => ~Claims(q)
    /\ request[r].turn = turn => request[r].pane \in accepted

\* What is in the bridge, and what the agent has read, was acknowledged.
ReadIsAcknowledged ==
  \A p \in Pane : \A r \in {answered[p], got[p]} \ {None} :
    request[r].pane = p /\ request[r].at = "ok"

\* Each queued set() has a request of its own; the first may have read, and what it read
\* is what is stored.
SavesQueued ==
  \A i \in DOMAIN sets :
    /\ request[sets[i].request].at = "saving"
    /\ request[sets[i].request].pane = sets[i].name
    /\ \A j \in DOMAIN sets : sets[j].request = sets[i].request => j = i
    /\ sets[i].read # None => i = 1 /\ sets[i].read = stored

\* A secret that was saved stays so, as a value for the variable it was given for.
SecretsKept ==
  /\ \A r \in Request :
       request[r].at \in {"saved", "writing", "ok"} /\ request[r].pane \in SecretPane =>
         stored[request[r].pane] # None
  /\ \A s \in SecretPane : stored[s] # None => request[stored[s]].pane = s

AnswersIInv ==
  /\ AnswersTypeOK
  /\ RequestsKnown
  /\ AtWork
  /\ AbortedIsStopped
  /\ JobHasWorker
  /\ AskedInThisJob
  /\ OneJob
  /\ OneUnderWay
  /\ OneClaims
  /\ ReadIsAcknowledged
  /\ AcknowledgedIsRead
  /\ SavesQueued
  /\ SecretsKept

\* Taking the first set() off the queue.
LEMMA QueueShrinks ==
  ASSUME NEW S, NEW q \in Seq(S), 1 \in DOMAIN q
  PROVE  /\ RemoveAt(q, 1) \in Seq(S)
         /\ DOMAIN RemoveAt(q, 1) = 1..(Len(q) - 1)
         /\ \A i \in 1..(Len(q) - 1) : RemoveAt(q, 1)[i] = q[i + 1]
<1>1. SubSeq(q, 1, 1 - 1) = <<>>
  BY SubSeqEmpty
<1>2. RemoveAt(q, 1) = <<>> \o SubSeq(q, 2, Len(q))
  BY <1>1 DEF RemoveAt
<1>3. Len(q) \in Nat /\ DOMAIN q = 1..Len(q) /\ Len(q) >= 1
  BY LenProperties
<1> DEFINE t == SubSeq(q, 2, Len(q))
<1>4. t \in Seq(S) /\ Len(t) = Len(q) - 1
  BY <1>3, SubSeqProperties
<1>5. \A i \in 1..(Len(q) - 1) : t[i] = q[i + 1]
  BY <1>3, SubSeqProperties
<1>6. RemoveAt(q, 1) = t
  BY <1>2, <1>4, ConcatEmptySeq
<1> HIDE DEF t
<1>7. QED
  BY <1>4, <1>5, <1>6, LenProperties

Set == [request : Request, name : SecretPane, read : Secrets \cup {None}]

\* The sets that wait.
LEMMA QueueTypes ==
  ASSUME AnswersTypeOK
  PROVE  /\ sets \in Seq(Set) /\ DOMAIN sets = 1..Len(sets) /\ Len(sets) \in Nat
         /\ \A i \in DOMAIN sets :
              sets[i] \in Set /\ sets[i].request \in Request /\ sets[i].name \in SecretPane
<1>1. sets \in Seq(Set)
  BY DEF AnswersTypeOK, Set
<1>2. /\ DOMAIN sets = 1..Len(sets) /\ Len(sets) \in Nat
      /\ \A i \in DOMAIN sets : sets[i] \in Set
  BY <1>1, LenProperties
<1>3. QED
  BY <1>1, <1>2 DEF Set

\* What names a request, or none.
LEMMA BridgeTypes ==
  ASSUME AnswersTypeOK
  PROVE  /\ answered \in [Pane -> Request \cup {None}] /\ got \in [Pane -> Request \cup {None}]
         /\ stored \in [SecretPane -> Request \cup {None}]
         /\ \A r \in Request : request[r].pane \in Pane \cup {None}
         /\ SecretPane \subseteq Pane /\ None \notin Pane /\ None \notin Request
<1>1. request \in [Request -> RequestState]
  BY DEF AnswersTypeOK
<1>2. QED
  BY <1>1, AnswerAssumption DEF AnswersTypeOK, Secrets, RequestState

\* The job and the panes.
LEMMA StageTypes ==
  ASSUME AnswersTypeOK
  PROVE  /\ turn \in Nat /\ jobs \in Nat /\ turn <= jobs
         /\ pane \in [Pane -> {"none", "active", "done"}]
         /\ object \in [Pane -> Nat] /\ None \notin Pane
         /\ MaxPublished \in Nat /\ MaxJobs \in Nat
         /\ \A r \in Request : request[r].turn \in Nat
<1>1. request \in [Request -> RequestState]
  BY DEF AnswersTypeOK
<1>2. QED
  BY <1>1, AnswerAssumption DEF AnswersTypeOK, RequestState

\* finish() leaves a job count and panes.
LEMMA FinishTypes ==
  ASSUME AnswersTypeOK, NEW t, Finish(t)
  PROVE  turn' \in 0..jobs /\ pane' \in [Pane -> {"none", "active", "done"}]
  BY DEF AnswersTypeOK, Finish

Places == {"unused", "saving", "saved", "writing", "ok", "refused"}

\* A request that goes on names what it named.
LEMMA RequestMoves ==
  ASSUME AnswersTypeOK, NEW r \in Request, NEW where \in Places, Goes(r, where)
  PROVE  /\ request' \in [Request -> RequestState]
         /\ request'[r].at = where
         /\ \A q \in Request :
              /\ request'[q].pane = request[q].pane /\ request'[q].turn = request[q].turn
              /\ request'[q].object = request[q].object
              /\ q # r => request'[q].at = request[q].at
<1>1. request \in [Request -> RequestState]
  BY DEF AnswersTypeOK
<1>2. request' = [request EXCEPT ![r] = [request[r] EXCEPT !.at = where]]
  BY <1>1 DEF Goes
<1>3. /\ [request[r] EXCEPT !.at = where] \in RequestState
      /\ [request[r] EXCEPT !.at = where].at = where
      /\ [request[r] EXCEPT !.at = where].pane = request[r].pane
      /\ [request[r] EXCEPT !.at = where].turn = request[r].turn
      /\ [request[r] EXCEPT !.at = where].object = request[r].object
  BY <1>1 DEF RequestState, Places
<1>4. QED
  BY <1>1, <1>2, <1>3

\* A request that is made names what is there.
LEMMA RequestAsks ==
  ASSUME AnswersTypeOK, NEW r \in Request, NEW p \in Pane, NEW where \in Places,
         Asked(r, p, where)
  PROVE  /\ request' \in [Request -> RequestState]
         /\ request'[r] = [pane |-> p, object |-> object[p], turn |-> turn, at |-> where]
         /\ \A q \in Request \ {r} : request'[q] = request[q]
<1>1. [pane |-> p, object |-> object[p], turn |-> turn, at |-> where] \in RequestState
  BY AnswerAssumption DEF AnswersTypeOK, RequestState, Places
<1>2. QED
  BY <1>1 DEF Asked, AnswersTypeOK

-------------------------------------------------------------------------------
(* Every action keeps the invariant.                                        *)

\* A native job begins.
LEMMA BeginNativeKeeps ==
  ASSUME AnswersIInv, BeginNative
  PROVE  AnswersIInv'
<1> USE DEF AnswersIInv
<1>1. AnswersTypeOK'
  BY AnswerAssumption DEF BeginNative, bridgeVars, rehearsalVars, secretVars, AnswersTypeOK
<1>2. RequestsKnown'
  BY StageTypes DEF BeginNative, RequestsKnown, Used
<1>3. AtWork'
  BY StageTypes DEF BeginNative, bridgeVars, rehearsalVars, AtWork
<1>4. AbortedIsStopped'
  BY DEF BeginNative, rehearsalVars, AbortedIsStopped
<1>5. JobHasWorker'
  BY DEF BeginNative, JobHasWorker
<1>6. AskedInThisJob'
  BY StageTypes DEF BeginNative, bridgeVars, AskedInThisJob, AtWork
<1>7. OneClaims'
  BY StageTypes DEF BeginNative, OneClaims, Claims, RequestsKnown, Used
<1>8. AcknowledgedIsRead'
  BY StageTypes DEF BeginNative, AcknowledgedIsRead, RequestsKnown, Used
<1>9. /\ OneJob' /\ OneUnderWay' /\ ReadIsAcknowledged'
      /\ SavesQueued' /\ SecretsKept'
  BY DEF BeginNative, bridgeVars, secretVars, OneJob, Used, OneUnderWay, UnderWay,
      ReadIsAcknowledged, SavesQueued, SecretsKept
<1>10. QED
  BY <1>1, <1>2, <1>3, <1>4, <1>5, <1>6, <1>7, <1>8, <1>9

\* The agent reads an answer.
LEMMA AgentReadsKeeps ==
  ASSUME AnswersIInv, AgentReads
  PROVE  AnswersIInv'
<1> USE DEF AnswersIInv
<1>1. AnswersTypeOK'
  BY DEF AgentReads, bridgeVars, floorVars, rehearsalVars, secretVars, sessionVars, AnswersTypeOK
<1>2. AtWork'
  BY DEF AgentReads, bridgeVars, floorVars, rehearsalVars, sessionVars, AtWork
<1>3. AskedInThisJob'
  BY StageTypes DEF AgentReads, bridgeVars, AskedInThisJob, AtWork
<1>4. ReadIsAcknowledged'
  BY BridgeTypes DEF AgentReads, bridgeVars, ReadIsAcknowledged
<1>5. AcknowledgedIsRead'
  BY BridgeTypes
     DEF AgentReads, bridgeVars, AcknowledgedIsRead, RequestsKnown, Used, AtWork,
         ReadIsAcknowledged
<1>6. /\ RequestsKnown' /\ AbortedIsStopped' /\ JobHasWorker'
      /\ OneJob' /\ OneUnderWay' /\ OneClaims'
      /\ SavesQueued' /\ SecretsKept'
  BY DEF AgentReads, floorVars, rehearsalVars, secretVars, sessionVars, RequestsKnown, Used,
      AbortedIsStopped, JobHasWorker, OneJob, OneUnderWay, UnderWay, OneClaims, Claims,
      SavesQueued, SecretsKept
<1>7. QED
  BY <1>1, <1>2, <1>3, <1>4, <1>5, <1>6

\* The agent stops waiting.
LEMMA AgentGivesUpKeeps ==
  ASSUME AnswersIInv, AgentGivesUp
  PROVE  AnswersIInv'
<1> USE DEF AnswersIInv
<1>1. AnswersTypeOK'
  BY DEF AgentGivesUp, bridgeVars, floorVars, rehearsalVars, secretVars, sessionVars,
      AnswersTypeOK
<1>2. AtWork'
  BY DEF AgentGivesUp, bridgeVars, floorVars, rehearsalVars, sessionVars, AtWork
<1>3. AskedInThisJob'
  BY StageTypes DEF AgentGivesUp, bridgeVars, AskedInThisJob, AtWork
<1>4. /\ RequestsKnown' /\ AbortedIsStopped' /\ JobHasWorker'
      /\ OneJob' /\ OneUnderWay' /\ OneClaims'
      /\ ReadIsAcknowledged' /\ AcknowledgedIsRead' /\ SavesQueued'
      /\ SecretsKept'
  BY DEF AgentGivesUp, bridgeVars, floorVars, rehearsalVars, secretVars, sessionVars,
      RequestsKnown, Used, AbortedIsStopped, JobHasWorker, OneJob, OneUnderWay, UnderWay,
      OneClaims, Claims, ReadIsAcknowledged, AcknowledgedIsRead, SavesQueued, SecretsKept
<1>5. QED
  BY <1>1, <1>2, <1>3, <1>4

\* A native job ends.
LEMMA EndNativeKeeps ==
  ASSUME AnswersIInv, EndNative
  PROVE  AnswersIInv'
<1> USE DEF AnswersIInv
<1>1. AnswersTypeOK'
  BY DEF EndNative, Finish, bridgeVars, floorVars, rehearsalVars, secretVars, sessionVars,
      AnswersTypeOK
<1>2. RequestsKnown'
  BY DEF EndNative, Finish, floorVars, RequestsKnown, Used
<1>3. AtWork'
  BY DEF EndNative, Finish, bridgeVars, floorVars, rehearsalVars, AtWork
<1>4. AbortedIsStopped'
  BY DEF EndNative, rehearsalVars, AbortedIsStopped, AtWork
<1>5. JobHasWorker'
  BY DEF EndNative, Finish, JobHasWorker
<1>6. AskedInThisJob'
  BY StageTypes DEF EndNative, Finish, bridgeVars, AskedInThisJob, AtWork
<1>7. OneClaims'
  BY DEF EndNative, Finish, floorVars, OneClaims, Claims, RequestsKnown, Used
<1>8. AcknowledgedIsRead'
  BY DEF EndNative, Finish, AcknowledgedIsRead, RequestsKnown, Used, AtWork
<1>9. /\ OneJob' /\ OneUnderWay' /\ ReadIsAcknowledged'
      /\ SavesQueued' /\ SecretsKept'
  BY DEF EndNative, bridgeVars, floorVars, secretVars, OneJob, Used, OneUnderWay, UnderWay,
      ReadIsAcknowledged, SavesQueued, SecretsKept
<1>10. QED
  BY <1>1, <1>2, <1>3, <1>4, <1>5, <1>6, <1>7, <1>8, <1>9

\* A set() reads the file.
LEMMA ReadSecretsKeeps ==
  ASSUME AnswersIInv, NEW i \in DOMAIN sets, ReadSecrets(i)
  PROVE  AnswersIInv'
<1> USE DEF AnswersIInv
<1>1. /\ UNCHANGED <<native, jobs, stops, turn, pane, object, process, accepted, reported,
                     submissions, request, errors, agent, asking, got, published, answered, failed,
                     stored, step, answer, aborted>>
      /\ i = 1 /\ sets' \in Seq(Set) /\ DOMAIN sets' = DOMAIN sets
      /\ \A j \in DOMAIN sets :
           /\ sets'[j].request = sets[j].request /\ sets'[j].name = sets[j].name
           /\ sets'[j].read = IF j = 1 THEN stored ELSE sets[j].read
  <2> DEFINE e == [sets[i] EXCEPT !.read = stored]
  <2>1. /\ e \in Set /\ e.request = sets[i].request /\ e.name = sets[i].name /\ e.read = stored
        /\ i = 1
    BY QueueTypes, BridgeTypes DEF ReadSecrets, CanRead, Set, Secrets
  <2>2. sets' = [sets EXCEPT ![i] = e]
    BY QueueTypes DEF ReadSecrets
  <2> HIDE DEF e
  <2>3. /\ sets' \in Seq(Set) /\ Len(sets') = Len(sets)
        /\ \A j \in DOMAIN sets : sets'[j] = IF j = i THEN e ELSE sets[j]
    BY <2>1, <2>2, QueueTypes, ExceptSeq
  <2>4. QED
    BY <2>1, <2>3, LenProperties DEF ReadSecrets, floorVars, sessionVars, agentVars, bridgeVars,
                          rehearsalVars
<1>2. AnswersTypeOK'
  BY <1>1 DEF AnswersTypeOK, Set
<1>3. SavesQueued'
  BY <1>1 DEF SavesQueued
<1>4. /\ RequestsKnown' /\ AtWork' /\ AbortedIsStopped'
      /\ JobHasWorker' /\ AskedInThisJob' /\ OneJob'
      /\ OneUnderWay' /\ OneClaims' /\ ReadIsAcknowledged'
      /\ AcknowledgedIsRead' /\ SecretsKept'
  BY <1>1
     DEF RequestsKnown, Used, AtWork, AbortedIsStopped, JobHasWorker, AskedInThisJob, OneJob,
         OneUnderWay, UnderWay, OneClaims, Claims, ReadIsAcknowledged, AcknowledgedIsRead,
         SecretsKept
<1>5. QED
  BY <1>1, <1>2, <1>3, <1>4

\* A set() writes it, or fails.
LEMMA SavedKeeps ==
  ASSUME AnswersIInv, NEW i \in DOMAIN sets, Saved(i)
  PROVE  AnswersIInv'
<1> USE DEF AnswersIInv
<1> DEFINE e == sets[i]
<1>1. /\ i = 1 /\ e.request \in Request /\ e.name \in SecretPane /\ e.read = stored
      /\ request[e.request].at = "saving" /\ request[e.request].pane = e.name
      /\ DOMAIN sets = 1..Len(sets) /\ Len(sets) \in Nat \ {0}
      /\ \A j \in DOMAIN sets : j # 1 => sets[j].request # e.request
  <2>1. i \in DOMAIN sets /\ e.read # None
    BY DEF Saved
  <2>2. i = 1 /\ e.read = stored
    BY <2>1 DEF SavesQueued
  <2>3. QED
    BY <2>1, <2>2, QueueTypes DEF SavesQueued
<1>2. /\ sets' \in Seq(Set)
      /\ DOMAIN sets' = 1..(Len(sets) - 1)
      /\ \A j \in 1..(Len(sets) - 1) : sets'[j] = sets[j + 1]
  BY <1>1, QueueTypes, QueueShrinks DEF Saved
<1>3. /\ \/ /\ stored' = [stored EXCEPT ![e.name] = e.request] /\ Goes(e.request, "saved")
            /\ UNCHANGED submissions
         \/ /\ UNCHANGED stored /\ Goes(e.request, "refused")
            /\ submissions' = submissions \ {e.name}
      /\ UNCHANGED <<native, jobs, stops, turn, pane, object, process, accepted, reported, errors,
                     agent, asking, got, published, answered, failed, step, answer, aborted>>
  BY <1>1 DEF Saved, Refused, floorVars, sessionVars, agentVars, bridgeVars, rehearsalVars
<1> HIDE DEF e
<1>4. /\ \/ /\ stored' = [stored EXCEPT ![e.name] = e.request] /\ UNCHANGED submissions
            /\ request'[e.request].at = "saved"
         \/ /\ UNCHANGED stored /\ submissions' = submissions \ {e.name}
            /\ request'[e.request].at = "refused"
      /\ request' \in [Request -> RequestState]
      /\ \A q \in Request :
           /\ request'[q].pane = request[q].pane /\ request'[q].turn = request[q].turn
           /\ q # e.request => request'[q].at = request[q].at
  BY <1>1, <1>3, RequestMoves DEF Places
<1>5. AnswersTypeOK'
  BY <1>1, <1>2, <1>3, <1>4, AnswerAssumption DEF AnswersTypeOK, Set, Secrets, RequestState
<1>6. RequestsKnown'
  BY <1>1, <1>3, <1>4 DEF RequestsKnown, Used
<1>7. AskedInThisJob'
  BY <1>3, <1>4 DEF AskedInThisJob
<1>8. OneJob'
  BY <1>1, <1>3, <1>4 DEF OneJob, Used
<1>9. OneUnderWay'
  BY <1>1, <1>4 DEF OneUnderWay, UnderWay
<1>10. OneClaims'
  BY <1>3, <1>4 DEF OneClaims, Claims
<1>11. ReadIsAcknowledged'
  BY <1>1, <1>3, <1>4, BridgeTypes DEF ReadIsAcknowledged
<1>12. AcknowledgedIsRead'
  BY <1>3, <1>4 DEF AcknowledgedIsRead
<1>13. SavesQueued'
  <2>1. \A j \in DOMAIN sets' :
          /\ j \in 1..(Len(sets) - 1) /\ j + 1 \in DOMAIN sets /\ j + 1 # 1
          /\ sets'[j] = sets[j + 1] /\ sets[j + 1].request \in Request
    BY <1>1, <1>2, QueueTypes
  <2>2. \A j \in DOMAIN sets' :
          request'[sets'[j].request].at = "saving" /\ request'[sets'[j].request].pane = sets'[j].name
    BY <1>1, <1>4, <2>1 DEF SavesQueued
  <2>3. \A j, k \in DOMAIN sets' : sets'[k].request = sets'[j].request => j = k
    BY <2>1 DEF SavesQueued
  <2>4. \A j \in DOMAIN sets' : sets'[j].read = None
    BY <2>1 DEF SavesQueued
  <2>5. QED
    BY <2>2, <2>3, <2>4 DEF SavesQueued
<1>14. SecretsKept'
  <2>1. CASE request'[e.request].at = "saved"
    <3>1. /\ stored' = [stored EXCEPT ![e.name] = e.request] /\ e.request # None
          /\ stored \in [SecretPane -> Request \cup {None}]
      BY <1>1, <1>4, <2>1, BridgeTypes
    <3>2. \A s \in SecretPane : stored'[s] = IF s = e.name THEN e.request ELSE stored[s]
      BY <3>1
    <3>3. QED
      BY <1>1, <1>4, <3>1, <3>2 DEF SecretsKept
  <2>2. CASE request'[e.request].at = "refused"
    BY <1>1, <1>4, <2>2, BridgeTypes DEF SecretsKept
  <2>3. QED
    BY <1>4, <2>1, <2>2
<1>15. AtWork' /\ AbortedIsStopped' /\ JobHasWorker'
  BY <1>3 DEF AtWork, AbortedIsStopped, JobHasWorker
<1>16. QED
  BY <1>1, <1>2, <1>3, <1>4, <1>5, <1>6, <1>7, <1>8, <1>9, <1>10, <1>11, <1>12, <1>13, <1>14,
      <1>15

\* The agent asks.
LEMMA PublishKeeps ==
  ASSUME AnswersIInv, NEW p \in Pane, Publish(p)
  PROVE  AnswersIInv'
<1> USE DEF AnswersIInv
<1>1. AnswersTypeOK'
  BY DEF Publish, floorVars, rehearsalVars, secretVars, sessionVars, AnswersTypeOK
<1>2. AtWork'
  BY StageTypes DEF Publish, floorVars, rehearsalVars, sessionVars, AtWork
<1>3. AskedInThisJob'
  BY DEF Publish, AskedInThisJob, RequestsKnown, AtWork
<1>4. /\ RequestsKnown' /\ AbortedIsStopped' /\ JobHasWorker'
      /\ OneJob' /\ OneUnderWay' /\ OneClaims'
      /\ ReadIsAcknowledged' /\ AcknowledgedIsRead' /\ SavesQueued'
      /\ SecretsKept'
  BY DEF Publish, floorVars, rehearsalVars, secretVars, sessionVars, RequestsKnown, Used,
      AbortedIsStopped, JobHasWorker, OneJob, OneUnderWay, UnderWay, OneClaims, Claims,
      ReadIsAcknowledged, AcknowledgedIsRead, SavesQueued, SecretsKept
<1>5. QED
  BY <1>1, <1>2, <1>3, <1>4

\* The poll shows an input.
LEMMA PresentKeeps ==
  ASSUME AnswersIInv, NEW p \in Pane, Present(p)
  PROVE  AnswersIInv'
<1> USE DEF AnswersIInv
<1>1. AnswersTypeOK'
  <2>1. object[p] < MaxPublished /\ MaxPublished \in Nat /\ object \in [Pane -> 0..MaxPublished]
    BY AnswerAssumption DEF Present, AtWork, AnswersTypeOK
  <2>2. object' \in [Pane -> 0..MaxPublished]
    BY <2>1 DEF Present
  <2>3. QED
    BY <2>2 DEF Present, floorVars, agentVars, secretVars, rehearsalVars, AnswersTypeOK
<1>2. RequestsKnown'
  BY StageTypes DEF Present, floorVars, RequestsKnown, Used
<1>3. AtWork'
  BY DEF Present, floorVars, agentVars, secretVars, rehearsalVars, AnswersTypeOK, AtWork
<1>4. AskedInThisJob'
  BY StageTypes DEF Present, agentVars, AskedInThisJob, AtWork
<1>5. /\ AbortedIsStopped' /\ JobHasWorker' /\ OneJob'
      /\ OneUnderWay' /\ OneClaims' /\ ReadIsAcknowledged'
      /\ AcknowledgedIsRead' /\ SavesQueued' /\ SecretsKept'
  BY DEF Present, agentVars, floorVars, rehearsalVars, secretVars, AbortedIsStopped, JobHasWorker,
      OneJob, Used, OneUnderWay, UnderWay, OneClaims, Claims, ReadIsAcknowledged,
      AcknowledgedIsRead, SavesQueued, SecretsKept
<1>6. QED
  BY <1>1, <1>2, <1>3, <1>4, <1>5

\* A pane is closed.
LEMMA ClosePaneKeeps ==
  ASSUME AnswersIInv, NEW p \in Pane, ClosePane(p)
  PROVE  AnswersIInv'
<1> USE DEF AnswersIInv
<1>1. AnswersTypeOK'
  BY DEF ClosePane, agentVars, bridgeVars, floorVars, rehearsalVars, secretVars, sessionVars,
      AnswersTypeOK
<1>2. RequestsKnown'
  BY DEF ClosePane, floorVars, RequestsKnown, Used
<1>3. AtWork'
  BY DEF ClosePane, agentVars, bridgeVars, floorVars, rehearsalVars, sessionVars, AtWork
<1>4. AskedInThisJob'
  BY DEF ClosePane, agentVars, bridgeVars, floorVars, sessionVars, AskedInThisJob
<1>5. /\ AbortedIsStopped' /\ JobHasWorker' /\ OneJob'
      /\ OneUnderWay' /\ OneClaims' /\ ReadIsAcknowledged'
      /\ AcknowledgedIsRead' /\ SavesQueued' /\ SecretsKept'
  BY DEF ClosePane, agentVars, bridgeVars, floorVars, rehearsalVars, secretVars, sessionVars,
      AbortedIsStopped, JobHasWorker, OneJob, Used, OneUnderWay, UnderWay, OneClaims, Claims,
      ReadIsAcknowledged, AcknowledgedIsRead, SavesQueued, SecretsKept
<1>6. QED
  BY <1>1, <1>2, <1>3, <1>4, <1>5

\* A page fails.
LEMMA InputErrorKeeps ==
  ASSUME AnswersIInv, NEW p \in Pane, InputError(p)
  PROVE  AnswersIInv'
<1> USE DEF AnswersIInv
<1>1. AnswersTypeOK'
  BY DEF InputError, agentVars, bridgeVars, floorVars, rehearsalVars, secretVars, AnswersTypeOK
<1>2. /\ RequestsKnown' /\ AtWork' /\ AbortedIsStopped'
      /\ JobHasWorker' /\ AskedInThisJob' /\ OneJob'
      /\ OneUnderWay' /\ OneClaims' /\ ReadIsAcknowledged'
      /\ AcknowledgedIsRead' /\ SavesQueued' /\ SecretsKept'
  BY DEF InputError, agentVars, bridgeVars, floorVars, rehearsalVars, secretVars, RequestsKnown,
      Used, AtWork, AbortedIsStopped, JobHasWorker, AskedInThisJob, OneJob, OneUnderWay, UnderWay,
      OneClaims, Claims, ReadIsAcknowledged, AcknowledgedIsRead, SavesQueued, SecretsKept
<1>3. QED
  BY <1>1, <1>2

\* Its report is written.
LEMMA ErrorWrittenKeeps ==
  ASSUME AnswersIInv, NEW p \in Pane, ErrorWritten(p)
  PROVE  AnswersIInv'
<1> USE DEF AnswersIInv
<1>1. AnswersTypeOK'
  BY DEF ErrorWritten, agentVars, floorVars, rehearsalVars, secretVars, sessionVars, AnswersTypeOK
<1>2. /\ RequestsKnown' /\ AtWork' /\ AbortedIsStopped'
      /\ JobHasWorker' /\ AskedInThisJob' /\ OneJob'
      /\ OneUnderWay' /\ OneClaims' /\ ReadIsAcknowledged'
      /\ AcknowledgedIsRead' /\ SavesQueued' /\ SecretsKept'
  BY DEF ErrorWritten, agentVars, floorVars, rehearsalVars, secretVars, sessionVars,
      RequestsKnown, Used, AtWork, AbortedIsStopped, JobHasWorker, AskedInThisJob, OneJob,
      OneUnderWay, UnderWay, OneClaims, Claims, ReadIsAcknowledged, AcknowledgedIsRead,
      SavesQueued, SecretsKept
<1>3. QED
  BY <1>1, <1>2

\* The rehearsal asks.
LEMMA RehearsalAsksKeeps ==
  ASSUME AnswersIInv, NEW p \in Pane, RehearsalAsks(p)
  PROVE  AnswersIInv'
<1> USE DEF AnswersIInv
<1>1. AnswersTypeOK'
  BY AnswerAssumption
     DEF RehearsalAsks, Proceeds, agentVars, bridgeVars, floorVars, secretVars, sessionVars,
         AnswersTypeOK
<1>2. RequestsKnown'
  BY StageTypes DEF RehearsalAsks, floorVars, RequestsKnown, Used
<1>3. AtWork'
  BY DEF RehearsalAsks, Proceeds, agentVars, bridgeVars, floorVars, AtWork
<1>4. AbortedIsStopped'
  BY DEF RehearsalAsks, Proceeds, AbortedIsStopped
<1>5. JobHasWorker'
  BY DEF RehearsalAsks, Proceeds, JobHasWorker
<1>6. AskedInThisJob'
  BY DEF RehearsalAsks, Proceeds, floorVars, AskedInThisJob, AtWork
<1>7. /\ OneJob' /\ OneUnderWay' /\ OneClaims'
      /\ ReadIsAcknowledged' /\ AcknowledgedIsRead' /\ SavesQueued'
      /\ SecretsKept'
  BY DEF RehearsalAsks, agentVars, bridgeVars, floorVars, secretVars, sessionVars, OneJob, Used,
      OneUnderWay, UnderWay, OneClaims, Claims, ReadIsAcknowledged, AcknowledgedIsRead,
      SavesQueued, SecretsKept
<1>8. QED
  BY <1>1, <1>2, <1>3, <1>4, <1>5, <1>6, <1>7

\* A saved secret is answered.
LEMMA DeliverKeeps ==
  ASSUME AnswersIInv, NEW r \in Request, Deliver(r)
  PROVE  AnswersIInv'
<1> USE DEF AnswersIInv
<1>1. /\ request[r].at = "saved" /\ request[r].pane \in Pane
      /\ UNCHANGED <<native, jobs, stops, turn, pane, object, process, reported, errors, agent,
                     asking, got, published, answered, failed, stored, sets, step, answer, aborted>>
      /\ \/ /\ request[r].turn = turn /\ request[r].pane \notin accepted
            /\ accepted' = accepted \cup {request[r].pane} /\ UNCHANGED submissions
            /\ request'[r].at = "writing"
         \/ /\ UNCHANGED accepted /\ submissions' = submissions \ {request[r].pane}
            /\ request'[r].at = "refused"
      /\ request' \in [Request -> RequestState]
      /\ \A q \in Request :
           /\ request'[q].pane = request[q].pane /\ request'[q].turn = request[q].turn
           /\ q # r => request'[q].at = request[q].at
  BY RequestMoves DEF Deliver, Refused, StillAsked, Places, RequestsKnown, Used, floorVars,
                      agentVars, bridgeVars, secretVars, rehearsalVars
<1>2. AnswersTypeOK'
  BY <1>1 DEF AnswersTypeOK
<1>3. RequestsKnown'
  BY <1>1 DEF RequestsKnown, Used
<1>4. AskedInThisJob'
  BY <1>1 DEF AskedInThisJob
<1>5. OneJob'
  BY <1>1 DEF OneJob, Used
<1>6. OneUnderWay'
  BY <1>1 DEF OneUnderWay, UnderWay
<1>7. OneClaims'
  BY <1>1 DEF OneClaims, Claims, OneJob, Used
<1>8. ReadIsAcknowledged'
  BY <1>1, BridgeTypes DEF ReadIsAcknowledged
<1>9. AcknowledgedIsRead'
  BY <1>1 DEF AcknowledgedIsRead
<1>10. SavesQueued'
  BY <1>1, QueueTypes DEF SavesQueued
<1>11. SecretsKept'
  BY <1>1, BridgeTypes DEF SecretsKept
<1>12. AtWork' /\ AbortedIsStopped' /\ JobHasWorker'
  BY <1>1 DEF AtWork, AbortedIsStopped, JobHasWorker
<1>13. QED
  BY <1>1, <1>2, <1>3, <1>4, <1>5, <1>6, <1>7, <1>8, <1>9, <1>10, <1>11, <1>12

\* An answer reaches the bridge.
LEMMA AnsweredKeeps ==
  ASSUME AnswersIInv, NEW r \in Request, Answered(r)
  PROVE  AnswersIInv'
<1> USE DEF AnswersIInv
<1>1. /\ request[r].at = "writing" /\ request'[r].at = "ok" /\ request[r].pane \in Pane
      /\ UNCHANGED <<native, jobs, stops, turn, object, process, accepted, reported, errors, agent,
                     asking, got, published, failed, stored, sets, step, answer, aborted>>
      /\ answered' = [answered EXCEPT ![request[r].pane] = r]
      /\ submissions' = submissions \ {request[r].pane}
      /\ pane' \in {pane, [pane EXCEPT ![request[r].pane] = "done"]}
      /\ pane' # pane => pane[request[r].pane] # "none"
      /\ request' \in [Request -> RequestState]
      /\ \A q \in Request :
           /\ request'[q].pane = request[q].pane /\ request'[q].turn = request[q].turn
           /\ q # r => request'[q].at = request[q].at
  BY RequestMoves DEF Answered, Places, RequestsKnown, Used, floorVars, sessionVars, agentVars,
                      secretVars, rehearsalVars
<1>2. AnswersTypeOK'
  BY <1>1, AnswerAssumption DEF AnswersTypeOK, Set, Secrets, RequestState
<1>3. RequestsKnown'
  BY <1>1, StageTypes DEF RequestsKnown, Used
<1>4. AtWork'
  BY <1>1 DEF AtWork
<1>5. AskedInThisJob'
  BY <1>1, StageTypes DEF AskedInThisJob
<1>6. OneJob'
  BY <1>1 DEF OneJob, Used
<1>7. OneUnderWay'
  BY <1>1 DEF OneUnderWay, UnderWay
<1>8. OneClaims'
  BY <1>1 DEF OneClaims, Claims
<1>9. ReadIsAcknowledged'
  BY <1>1, BridgeTypes DEF ReadIsAcknowledged
<1>10. AcknowledgedIsRead'
  BY <1>1, BridgeTypes DEF AcknowledgedIsRead, OneClaims, Claims, ReadIsAcknowledged
<1>11. SavesQueued'
  BY <1>1, QueueTypes DEF SavesQueued
<1>12. SecretsKept'
  BY <1>1, BridgeTypes DEF SecretsKept
<1>13. AbortedIsStopped' /\ JobHasWorker'
  BY <1>1 DEF AbortedIsStopped, JobHasWorker
<1>14. QED
  BY <1>1, <1>2, <1>3, <1>4, <1>5, <1>6, <1>7, <1>8, <1>9, <1>10, <1>11, <1>12, <1>13

\* An answer does not.
LEMMA AnswerLostKeeps ==
  ASSUME AnswersIInv, NEW r \in Request, AnswerLost(r)
  PROVE  AnswersIInv'
<1> USE DEF AnswersIInv
<1>1. /\ request[r].at = "writing" /\ request'[r].at = "refused" /\ request[r].pane \in Pane
      /\ UNCHANGED <<native, jobs, stops, turn, pane, object, process, reported, errors, agent,
                     asking, got, published, answered, failed, stored, sets, step, answer, aborted>>
      /\ accepted' = accepted \ {request[r].pane}
      /\ submissions' = submissions \ {request[r].pane}
      /\ request' \in [Request -> RequestState]
      /\ \A q \in Request :
           /\ request'[q].pane = request[q].pane /\ request'[q].turn = request[q].turn
           /\ q # r => request'[q].at = request[q].at
  BY RequestMoves DEF AnswerLost, Refused, Places, RequestsKnown, Used, floorVars, agentVars,
                      bridgeVars, secretVars, rehearsalVars
<1>2. AnswersTypeOK'
  BY <1>1 DEF AnswersTypeOK
<1>3. RequestsKnown'
  BY <1>1 DEF RequestsKnown, Used
<1>4. AskedInThisJob'
  BY <1>1 DEF AskedInThisJob
<1>5. OneJob'
  BY <1>1 DEF OneJob, Used
<1>6. OneUnderWay'
  BY <1>1 DEF OneUnderWay, UnderWay
<1>7. OneClaims'
  BY <1>1 DEF OneClaims, Claims
<1>8. ReadIsAcknowledged'
  BY <1>1, BridgeTypes DEF ReadIsAcknowledged
<1>9. AcknowledgedIsRead'
  BY <1>1 DEF AcknowledgedIsRead
<1>10. SavesQueued'
  BY <1>1, QueueTypes DEF SavesQueued
<1>11. SecretsKept'
  BY <1>1, BridgeTypes DEF SecretsKept
<1>12. AtWork' /\ AbortedIsStopped' /\ JobHasWorker'
  BY <1>1 DEF AtWork, AbortedIsStopped, JobHasWorker
<1>13. QED
  BY <1>1, <1>2, <1>3, <1>4, <1>5, <1>6, <1>7, <1>8, <1>9, <1>10, <1>11, <1>12

\* A participant answers.
LEMMA SubmitKeeps ==
  ASSUME AnswersIInv, NEW r \in Request, NEW p \in Pane, Submit(r, p)
  PROVE  AnswersIInv'
<1> USE DEF AnswersIInv
<1>1. /\ UNCHANGED <<native, jobs, stops, turn, pane, object, process, reported, errors, agent,
                     asking, got, published, answered, failed, stored, sets, step, answer, aborted>>
      /\ native /\ p \notin SecretPane
      /\ submissions' = submissions \cup {p} /\ accepted' = accepted \cup {p}
      /\ request' \in [Request -> RequestState] /\ request[r].at = "unused"
      /\ request'[r].pane = p /\ request'[r].turn = turn /\ request'[r].at = "writing"
      /\ \A q \in Request \ {r} : request'[q] = request[q]
      /\ turn # 0 /\ pane[p] = "active" /\ p \notin submissions /\ p \notin accepted
  <2>1. Asked(r, p, "writing") /\ request[r].at = "unused"
    BY DEF Submit, Unused
  <2>2. /\ request' \in [Request -> RequestState]
        /\ request'[r] = [pane |-> p, object |-> object[p], turn |-> turn, at |-> "writing"]
        /\ \A q \in Request \ {r} : request'[q] = request[q]
    BY <2>1, RequestAsks DEF Places
  <2>3. QED
    BY <2>1, <2>2
       DEF Submit, CanDeliver, floorVars, agentVars, bridgeVars, secretVars, rehearsalVars
<1>2. AnswersTypeOK'
  BY <1>1 DEF AnswersTypeOK
<1>3. RequestsKnown'
  BY <1>1, StageTypes DEF RequestsKnown, Used
<1>4. AskedInThisJob'
  BY <1>1 DEF AskedInThisJob
<1>5. OneJob'
  BY <1>1 DEF OneJob, Used, AskedInThisJob
<1>6. OneUnderWay'
  BY <1>1 DEF OneUnderWay, UnderWay
<1>7. OneClaims'
  BY <1>1 DEF OneClaims, Claims, AskedInThisJob
<1>8. ReadIsAcknowledged'
  BY <1>1, BridgeTypes DEF ReadIsAcknowledged
<1>9. AcknowledgedIsRead'
  BY <1>1 DEF AcknowledgedIsRead
<1>10. SavesQueued'
  BY <1>1, QueueTypes DEF SavesQueued
<1>11. SecretsKept'
  BY <1>1, BridgeTypes DEF SecretsKept, RequestsKnown, Used
<1>12. AtWork' /\ AbortedIsStopped' /\ JobHasWorker'
  BY <1>1 DEF AtWork, AbortedIsStopped, JobHasWorker
<1>13. QED
  BY <1>1, <1>2, <1>3, <1>4, <1>5, <1>6, <1>7, <1>8, <1>9, <1>10, <1>11, <1>12

\* A participant gives a secret.
LEMMA SubmitSecretKeeps ==
  ASSUME AnswersIInv, NEW r \in Request, NEW p \in Pane, SubmitSecret(r, p)
  PROVE  AnswersIInv'
<1> USE DEF AnswersIInv
<1>1. /\ UNCHANGED <<native, jobs, stops, turn, pane, object, process, accepted, reported, errors,
                     agent, asking, got, published, answered, failed, stored, step, answer, aborted>>
      /\ native /\ p \in SecretPane /\ submissions' = submissions \cup {p}
      /\ sets' = Append(sets, [request |-> r, name |-> p, read |-> None])
      /\ request' \in [Request -> RequestState] /\ request[r].at = "unused"
      /\ request'[r].pane = p /\ request'[r].turn = turn /\ request'[r].at = "saving"
      /\ \A q \in Request \ {r} : request'[q] = request[q]
      /\ turn # 0 /\ pane[p] = "active" /\ p \notin submissions
  <2>1. Asked(r, p, "saving") /\ request[r].at = "unused"
    BY DEF SubmitSecret, Unused
  <2>2. /\ request' \in [Request -> RequestState]
        /\ request'[r] = [pane |-> p, object |-> object[p], turn |-> turn, at |-> "saving"]
        /\ \A q \in Request \ {r} : request'[q] = request[q]
    BY <2>1, RequestAsks DEF Places
  <2>3. QED
    BY <2>1, <2>2
       DEF SubmitSecret, CanDeliver, floorVars, sessionVars, agentVars, bridgeVars, rehearsalVars
<1>2. /\ sets' \in Seq(Set) /\ DOMAIN sets' = 1..(Len(sets) + 1)
      /\ \A j \in DOMAIN sets : sets'[j] = sets[j]
      /\ sets'[Len(sets) + 1] = [request |-> r, name |-> p, read |-> None]
  BY <1>1, QueueTypes DEF Set
<1>3. AnswersTypeOK'
  BY <1>1, <1>2 DEF AnswersTypeOK
<1>4. RequestsKnown'
  BY <1>1, <1>2, StageTypes DEF RequestsKnown, Used
<1>5. AskedInThisJob'
  BY <1>1 DEF AskedInThisJob
<1>6. OneJob'
  BY <1>1 DEF OneJob, Used, AskedInThisJob
<1>7. OneUnderWay'
  BY <1>1 DEF OneUnderWay, UnderWay
<1>8. OneClaims'
  BY <1>1 DEF OneClaims, Claims
<1>9. ReadIsAcknowledged'
  BY <1>1, BridgeTypes DEF ReadIsAcknowledged
<1>10. AcknowledgedIsRead'
  BY <1>1 DEF AcknowledgedIsRead
<1>11. SavesQueued'
  BY <1>1, QueueTypes DEF SavesQueued
<1>12. SecretsKept'
  <2>1. \A q \in Request : request[q].pane # None => q # r
    BY <1>1 DEF RequestsKnown, Used
  <2>2. QED
    BY <1>1, <2>1, BridgeTypes DEF SecretsKept
<1>13. AtWork' /\ AbortedIsStopped' /\ JobHasWorker'
  BY <1>1 DEF AtWork, AbortedIsStopped, JobHasWorker
<1>14. QED
  BY <1>1, <1>2, <1>3, <1>4, <1>5, <1>6, <1>7, <1>8, <1>9, <1>10, <1>11, <1>12, <1>13

\* A participant answers the rehearsal.
LEMMA RehearsalAnsweredKeeps ==
  ASSUME AnswersIInv, NEW r \in Request, NEW p \in Pane, RehearsalAnswered(r, p)
  PROVE  AnswersIInv'
<1> USE DEF AnswersIInv
<1>1. /\ UNCHANGED <<native, jobs, stops, turn, object, process, accepted, reported, submissions,
                     errors, agent, asking, got, published, answered, failed, stored, sets, aborted>>
      /\ ~native /\ p \notin SecretPane /\ answer' = FALSE /\ ~aborted
      /\ step = "asked" /\ step' = "answered" /\ pane' = [pane EXCEPT ![p] = "done"]
      /\ request' \in [Request -> RequestState] /\ request[r].at = "unused"
      /\ request'[r].pane = p /\ request'[r].turn = turn /\ request'[r].at = "ok"
      /\ \A q \in Request \ {r} : request'[q] = request[q]
      /\ turn # 0 /\ pane[p] = "active"
  <2>1. Asked(r, p, "ok") /\ request[r].at = "unused"
    BY DEF RehearsalAnswered, Unused
  <2>2. /\ request' \in [Request -> RequestState]
        /\ request'[r] = [pane |-> p, object |-> object[p], turn |-> turn, at |-> "ok"]
        /\ \A q \in Request \ {r} : request'[q] = request[q]
    BY <2>1, RequestAsks DEF Places
  <2>3. QED
    BY <2>1, <2>2
       DEF RehearsalAnswered, Proceeds, CanDeliver, floorVars, sessionVars, agentVars,
           bridgeVars, secretVars
<1>2. AnswersTypeOK'
  BY <1>1 DEF AnswersTypeOK
<1>3. RequestsKnown'
  BY <1>1, StageTypes DEF RequestsKnown, Used
<1>4. AtWork'
  BY <1>1 DEF AtWork
<1>5. AbortedIsStopped'
  BY <1>1 DEF AbortedIsStopped
<1>6. JobHasWorker'
  BY <1>1 DEF JobHasWorker
<1>7. AskedInThisJob'
  BY <1>1 DEF AskedInThisJob
<1>8. OneJob'
  BY <1>1 DEF OneJob
<1>9. OneUnderWay'
  BY <1>1 DEF OneUnderWay, UnderWay
<1>10. OneClaims'
  BY <1>1 DEF OneClaims
<1>11. ReadIsAcknowledged'
  BY <1>1, BridgeTypes DEF ReadIsAcknowledged
<1>12. AcknowledgedIsRead'
  BY <1>1 DEF AcknowledgedIsRead
<1>13. SavesQueued'
  BY <1>1, QueueTypes DEF SavesQueued
<1>14. SecretsKept'
  BY <1>1, BridgeTypes DEF SecretsKept, RequestsKnown, Used
<1>15. QED
  BY <1>1, <1>2, <1>3, <1>4, <1>5, <1>6, <1>7, <1>8, <1>9, <1>10, <1>11, <1>12, <1>13, <1>14

\* A rehearsal begins.
LEMMA BeginRehearsalKeeps ==
  ASSUME AnswersIInv, BeginRehearsal
  PROVE  AnswersIInv'
<1> USE DEF AnswersIInv
<1>1. AnswersTypeOK'
  BY AnswerAssumption
     DEF BeginRehearsal, agentVars, bridgeVars, secretVars, sessionVars, AnswersTypeOK
<1>2. RequestsKnown'
  BY StageTypes DEF BeginRehearsal, RequestsKnown, Used
<1>3. AtWork'
  BY DEF BeginRehearsal, agentVars, bridgeVars, AtWork
<1>4. AbortedIsStopped'
  BY DEF BeginRehearsal, AbortedIsStopped
<1>5. JobHasWorker'
  BY DEF BeginRehearsal, JobHasWorker
<1>6. AskedInThisJob'
  BY DEF BeginRehearsal, AskedInThisJob
<1>7. OneClaims'
  BY DEF BeginRehearsal, OneClaims
<1>8. AcknowledgedIsRead'
  BY DEF BeginRehearsal, AcknowledgedIsRead
<1>9. /\ OneJob' /\ OneUnderWay' /\ ReadIsAcknowledged'
      /\ SavesQueued' /\ SecretsKept'
  BY DEF BeginRehearsal, agentVars, bridgeVars, secretVars, OneJob, OneUnderWay, UnderWay,
      ReadIsAcknowledged, SavesQueued, SecretsKept
<1>10. QED
  BY <1>1, <1>2, <1>3, <1>4, <1>5, <1>6, <1>7, <1>8, <1>9

\* It shows its page.
LEMMA RehearsalShowsKeeps ==
  ASSUME AnswersIInv, RehearsalShows
  PROVE  AnswersIInv'
<1> USE DEF AnswersIInv
<1>1. AnswersTypeOK'
  BY DEF RehearsalShows, Proceeds, agentVars, bridgeVars, floorVars, secretVars, sessionVars,
      AnswersTypeOK
<1>2. AtWork'
  BY DEF RehearsalShows, Proceeds, agentVars, bridgeVars, floorVars, AtWork
<1>3. AbortedIsStopped'
  BY DEF RehearsalShows, Proceeds, AbortedIsStopped
<1>4. JobHasWorker'
  BY DEF RehearsalShows, Proceeds, JobHasWorker
<1>5. /\ RequestsKnown' /\ AskedInThisJob' /\ OneJob'
      /\ OneUnderWay' /\ OneClaims' /\ ReadIsAcknowledged'
      /\ AcknowledgedIsRead' /\ SavesQueued' /\ SecretsKept'
  BY DEF RehearsalShows, agentVars, bridgeVars, floorVars, secretVars, sessionVars, RequestsKnown,
      Used, AskedInThisJob, OneJob, OneUnderWay, UnderWay, OneClaims, Claims, ReadIsAcknowledged,
      AcknowledgedIsRead, SavesQueued, SecretsKept
<1>6. QED
  BY <1>1, <1>2, <1>3, <1>4, <1>5

\* It goes on with its answer.
LEMMA RehearsalRunsKeeps ==
  ASSUME AnswersIInv, RehearsalRuns
  PROVE  AnswersIInv'
<1> USE DEF AnswersIInv
<1>1. AnswersTypeOK'
  BY DEF RehearsalRuns, Proceeds, agentVars, bridgeVars, floorVars, secretVars, sessionVars,
      AnswersTypeOK
<1>2. RequestsKnown'
  BY DEF RehearsalRuns, floorVars, RequestsKnown, Used
<1>3. AtWork'
  BY DEF RehearsalRuns, Proceeds, agentVars, bridgeVars, floorVars, AtWork
<1>4. AbortedIsStopped'
  BY DEF RehearsalRuns, Proceeds, AbortedIsStopped
<1>5. JobHasWorker'
  BY DEF RehearsalRuns, Proceeds, JobHasWorker
<1>6. AskedInThisJob'
  BY DEF RehearsalRuns, agentVars, bridgeVars, floorVars, sessionVars, AskedInThisJob
<1>7. /\ OneJob' /\ OneUnderWay' /\ OneClaims'
      /\ ReadIsAcknowledged' /\ AcknowledgedIsRead' /\ SavesQueued'
      /\ SecretsKept'
  BY DEF RehearsalRuns, agentVars, bridgeVars, floorVars, secretVars, sessionVars, OneJob, Used,
      OneUnderWay, UnderWay, OneClaims, Claims, ReadIsAcknowledged, AcknowledgedIsRead,
      SavesQueued, SecretsKept
<1>8. QED
  BY <1>1, <1>2, <1>3, <1>4, <1>5, <1>6, <1>7

\* It ends.
LEMMA RehearsalEndsKeeps ==
  ASSUME AnswersIInv, RehearsalEnds
  PROVE  AnswersIInv'
<1> USE DEF AnswersIInv
<1>1. AnswersTypeOK'
  BY DEF RehearsalEnds, Finish, Proceeds, agentVars, bridgeVars, floorVars, secretVars,
      sessionVars, AnswersTypeOK
<1>2. RequestsKnown'
  BY DEF RehearsalEnds, Finish, floorVars, RequestsKnown, Used
<1>3. AtWork'
  BY DEF RehearsalEnds, Proceeds, agentVars, bridgeVars, floorVars, AtWork
<1>4. AbortedIsStopped'
  BY DEF RehearsalEnds, Proceeds, AbortedIsStopped
<1>5. JobHasWorker'
  BY DEF RehearsalEnds, Finish, JobHasWorker
<1>6. AskedInThisJob'
  BY DEF RehearsalEnds, Proceeds, floorVars, AskedInThisJob, AtWork
<1>7. OneClaims'
  BY DEF RehearsalEnds, Finish, floorVars, OneClaims, Claims, RequestsKnown, Used
<1>8. AcknowledgedIsRead'
  BY DEF RehearsalEnds, Proceeds, floorVars, AcknowledgedIsRead, AtWork
<1>9. /\ OneJob' /\ OneUnderWay' /\ ReadIsAcknowledged'
      /\ SavesQueued' /\ SecretsKept'
  BY DEF RehearsalEnds, agentVars, bridgeVars, floorVars, secretVars, OneJob, Used, OneUnderWay,
      UnderWay, ReadIsAcknowledged, SavesQueued, SecretsKept
<1>10. QED
  BY <1>1, <1>2, <1>3, <1>4, <1>5, <1>6, <1>7, <1>8, <1>9

\* It fails.
LEMMA RehearsalFailsKeeps ==
  ASSUME AnswersIInv, RehearsalFails
  PROVE  AnswersIInv'
<1> USE DEF AnswersIInv
<1>1. AnswersTypeOK'
  <2>1. turn' \in 0..jobs' /\ pane' \in [Pane -> {"none", "active", "done"}]
    BY FinishTypes DEF RehearsalFails, floorVars
  <2>2. QED
    BY <2>1
       DEF RehearsalFails, floorVars, sessionVars, agentVars, bridgeVars, secretVars, AnswersTypeOK
<1>2. RequestsKnown'
  BY DEF RehearsalFails, Finish, floorVars, RequestsKnown, Used
<1>3. AtWork'
  BY DEF RehearsalFails, agentVars, bridgeVars, floorVars, AtWork
<1>4. AbortedIsStopped'
  BY DEF RehearsalFails, AbortedIsStopped
<1>5. JobHasWorker'
  BY DEF RehearsalFails, Finish, JobHasWorker
<1>6. AskedInThisJob'
  BY DEF RehearsalFails, floorVars, AskedInThisJob, AtWork
<1>7. OneClaims'
  BY DEF RehearsalFails, Finish, floorVars, OneClaims, Claims, RequestsKnown, Used
<1>8. AcknowledgedIsRead'
  BY DEF RehearsalFails, floorVars, AcknowledgedIsRead, AtWork
<1>9. /\ OneJob' /\ OneUnderWay' /\ ReadIsAcknowledged'
      /\ SavesQueued' /\ SecretsKept'
  BY DEF RehearsalFails, agentVars, bridgeVars, floorVars, secretVars, OneJob, Used, OneUnderWay,
      UnderWay, ReadIsAcknowledged, SavesQueued, SecretsKept
<1>10. QED
  BY <1>1, <1>2, <1>3, <1>4, <1>5, <1>6, <1>7, <1>8, <1>9

\* It is told to stop.
LEMMA RehearsalAbortsKeeps ==
  ASSUME AnswersIInv, RehearsalAborts
  PROVE  AnswersIInv'
<1> USE DEF AnswersIInv
<1>1. AnswersTypeOK'
  BY DEF RehearsalAborts, agentVars, bridgeVars, floorVars, secretVars, sessionVars, AnswersTypeOK
<1>2. AtWork'
  BY DEF RehearsalAborts, agentVars, bridgeVars, floorVars, AtWork
<1>3. AbortedIsStopped'
  BY DEF RehearsalAborts, AbortedIsStopped
<1>4. JobHasWorker'
  BY DEF RehearsalAborts, floorVars, JobHasWorker, AbortedIsStopped
<1>5. /\ RequestsKnown' /\ AskedInThisJob' /\ OneJob'
      /\ OneUnderWay' /\ OneClaims' /\ ReadIsAcknowledged'
      /\ AcknowledgedIsRead' /\ SavesQueued' /\ SecretsKept'
  BY DEF RehearsalAborts, agentVars, bridgeVars, floorVars, secretVars, sessionVars,
      RequestsKnown, Used, AskedInThisJob, OneJob, OneUnderWay, UnderWay, OneClaims, Claims,
      ReadIsAcknowledged, AcknowledgedIsRead, SavesQueued, SecretsKept
<1>6. QED
  BY <1>1, <1>2, <1>3, <1>4, <1>5

\* An administrator stops the job.
LEMMA BeginStopKeeps ==
  ASSUME AnswersIInv, BeginStop
  PROVE  AnswersIInv'
<1> USE DEF AnswersIInv
<1>1. AnswersTypeOK'
  <2>1. stops' \subseteq 0..MaxJobs /\ aborted' \in BOOLEAN
    BY AnswerAssumption DEF BeginStop, AnswersTypeOK
  <2>2. QED
    BY <2>1 DEF BeginStop, Gone, bridgeVars, secretVars, AnswersTypeOK
<1>2. AtWork'
  BY DEF BeginStop, Gone, bridgeVars, AtWork
<1>3. AbortedIsStopped'
  BY DEF BeginStop, AbortedIsStopped
<1>4. JobHasWorker'
  BY DEF BeginStop, JobHasWorker
<1>5. AskedInThisJob'
  BY StageTypes DEF BeginStop, Gone, AskedInThisJob
<1>6. /\ RequestsKnown' /\ OneJob' /\ OneUnderWay'
      /\ OneClaims' /\ ReadIsAcknowledged' /\ AcknowledgedIsRead'
      /\ SavesQueued' /\ SecretsKept'
  BY DEF BeginStop, bridgeVars, secretVars, RequestsKnown, Used, OneJob, OneUnderWay, UnderWay,
      OneClaims, Claims, ReadIsAcknowledged, AcknowledgedIsRead, SavesQueued, SecretsKept
<1>7. QED
  BY <1>1, <1>2, <1>3, <1>4, <1>5, <1>6

\* The CLI exits.
LEMMA ProcessExitsKeeps ==
  ASSUME AnswersIInv, ProcessExits
  PROVE  AnswersIInv'
<1> USE DEF AnswersIInv
<1>1. AnswersTypeOK'
  <2>1. turn' \in 0..jobs' /\ pane' \in [Pane -> {"none", "active", "done"}]
    BY FinishTypes DEF ProcessExits, floorVars
  <2>2. QED
    BY <2>1
       DEF ProcessExits, Gone, floorVars, bridgeVars, secretVars, rehearsalVars, AnswersTypeOK
<1>2. RequestsKnown'
  BY DEF ProcessExits, Finish, floorVars, RequestsKnown, Used
<1>3. AtWork'
  BY DEF ProcessExits, Finish, Gone, bridgeVars, floorVars, rehearsalVars, AtWork
<1>4. AbortedIsStopped'
  BY DEF ProcessExits, rehearsalVars, AbortedIsStopped, AtWork
<1>5. JobHasWorker'
  BY DEF ProcessExits, floorVars, JobHasWorker
<1>6. AskedInThisJob'
  BY StageTypes DEF ProcessExits, Finish, Gone, AskedInThisJob
<1>7. OneClaims'
  BY DEF ProcessExits, Finish, OneClaims, Claims, RequestsKnown, Used
<1>8. AcknowledgedIsRead'
  BY DEF ProcessExits, Finish, AcknowledgedIsRead, RequestsKnown, Used
<1>9. /\ OneJob' /\ OneUnderWay' /\ ReadIsAcknowledged'
      /\ SavesQueued' /\ SecretsKept'
  BY DEF ProcessExits, bridgeVars, secretVars, OneJob, Used, OneUnderWay, UnderWay,
      ReadIsAcknowledged, SavesQueued, SecretsKept
<1>10. QED
  BY <1>1, <1>2, <1>3, <1>4, <1>5, <1>6, <1>7, <1>8, <1>9

\* A new CLI has a new bridge.
LEMMA LaunchKeeps ==
  ASSUME AnswersIInv, Launch
  PROVE  AnswersIInv'
<1> USE DEF AnswersIInv
<1>1. AnswersTypeOK'
  BY DEF Launch, agentVars, floorVars, rehearsalVars, secretVars, AnswersTypeOK
<1>2. AtWork'
  BY DEF Launch, agentVars, floorVars, rehearsalVars, AtWork
<1>3. AskedInThisJob'
  BY DEF Launch, agentVars, AskedInThisJob
<1>4. OneClaims'
  BY DEF Launch, OneClaims, Claims, RequestsKnown, Used
<1>5. ReadIsAcknowledged'
  BY DEF Launch, agentVars, ReadIsAcknowledged
<1>6. AcknowledgedIsRead'
  BY DEF Launch, agentVars, AcknowledgedIsRead, RequestsKnown, Used
<1>7. /\ RequestsKnown' /\ AbortedIsStopped' /\ JobHasWorker'
      /\ OneJob' /\ OneUnderWay' /\ SavesQueued'
      /\ SecretsKept'
  BY DEF Launch, floorVars, rehearsalVars, secretVars, RequestsKnown, Used, AbortedIsStopped,
      JobHasWorker, OneJob, OneUnderWay, UnderWay, SavesQueued, SecretsKept
<1>8. QED
  BY <1>1, <1>2, <1>3, <1>4, <1>5, <1>6, <1>7

\* The stop finishes the job it captured.
LEMMA EndStopKeeps ==
  ASSUME AnswersIInv, NEW t \in stops, EndStop(t)
  PROVE  AnswersIInv'
<1> USE DEF AnswersIInv
<1>1. AnswersTypeOK'
  BY DEF EndStop, Finish, agentVars, bridgeVars, rehearsalVars, secretVars, sessionVars,
      AnswersTypeOK
<1>2. RequestsKnown'
  BY DEF EndStop, Finish, RequestsKnown, Used
<1>3. AtWork'
  BY DEF EndStop, Finish, agentVars, bridgeVars, rehearsalVars, sessionVars, AtWork
<1>4. AbortedIsStopped'
  BY DEF EndStop, rehearsalVars, AbortedIsStopped
<1>5. JobHasWorker'
  BY DEF EndStop, Finish, rehearsalVars, JobHasWorker
<1>6. AskedInThisJob'
  BY StageTypes DEF EndStop, Finish, agentVars, sessionVars, AskedInThisJob, AtWork
<1>7. OneClaims'
  BY DEF EndStop, Finish, sessionVars, OneClaims, Claims, RequestsKnown, Used
<1>8. AcknowledgedIsRead'
  BY DEF EndStop, Finish, agentVars, bridgeVars, AcknowledgedIsRead, RequestsKnown, Used
<1>9. /\ OneJob' /\ OneUnderWay' /\ ReadIsAcknowledged'
      /\ SavesQueued' /\ SecretsKept'
  BY DEF EndStop, agentVars, bridgeVars, secretVars, OneJob, Used, OneUnderWay, UnderWay,
      ReadIsAcknowledged, SavesQueued, SecretsKept
<1>10. QED
  BY <1>1, <1>2, <1>3, <1>4, <1>5, <1>6, <1>7, <1>8, <1>9

\* An empty stage satisfies the invariant.
LEMMA InitAnswers == AnswersInit => AnswersIInv
<1> SUFFICES ASSUME AnswersInit
             PROVE  AnswersIInv
  OBVIOUS
<1>1. Unused \in RequestState /\ Unused.at = "unused" /\ Unused.pane = None
  BY AnswerAssumption DEF RequestState, Unused
<1>2. /\ request = [r \in Request |-> Unused] /\ \A r \in Request : request[r] = Unused
      /\ sets = <<>> /\ DOMAIN sets = {}
  BY DEF AnswersInit
<1> DEFINE S == [request : Request, name : SecretPane, read : Secrets \cup {None}]
<1>3. sets \in Seq(S)
  BY <1>2
<1> HIDE DEF S
<1>4. AnswersTypeOK
  <2>1. request \in [Request -> RequestState]
    BY <1>1, <1>2
  <2>2. stored \in Secrets
    BY DEF AnswersInit, Secrets
  <2>3. sets \in Seq([request : Request, name : SecretPane, read : Secrets \cup {None}])
    BY <1>3 DEF S
  <2>4. /\ pane \in [Pane -> {"none", "active", "done"}] /\ object \in [Pane -> 0..MaxPublished]
        /\ answered \in [Pane -> Request \cup {None}] /\ got \in [Pane -> Request \cup {None}]
        /\ turn \in 0..jobs /\ jobs \in 0..MaxJobs
    BY AnswerAssumption DEF AnswersInit
  <2>5. QED
    BY <2>1, <2>2, <2>3, <2>4 DEF AnswersInit, AnswersTypeOK
<1>5. RequestsKnown /\ AtWork /\ AbortedIsStopped /\ JobHasWorker /\ AskedInThisJob
  <2>1. \A r \in Request : request[r].at = "unused" /\ request[r].pane = None
    BY <1>1, <1>2
  <2>2. RequestsKnown /\ AskedInThisJob
    BY <1>1, <1>2, <2>1, AnswerAssumption DEF AnswersInit, RequestsKnown, Used, AskedInThisJob
  <2>3. AtWork /\ AbortedIsStopped /\ JobHasWorker
    BY DEF AnswersInit, AtWork, AbortedIsStopped, JobHasWorker
  <2>4. QED
    BY <2>2, <2>3
<1>6. OneJob /\ OneUnderWay /\ OneClaims /\ AcknowledgedIsRead
  BY <1>1, <1>2 DEF OneJob, Used, OneUnderWay, UnderWay, OneClaims, Claims, AcknowledgedIsRead
<1>7. ReadIsAcknowledged /\ SavesQueued /\ SecretsKept
  BY <1>1, <1>2 DEF AnswersInit, ReadIsAcknowledged, SavesQueued, SecretsKept
<1>8. QED
  BY <1>4, <1>5, <1>6, <1>7 DEF AnswersIInv

\* So does every state in which nothing has happened.
LEMMA StutterAnswers == AnswersIInv /\ UNCHANGED answerVars => AnswersIInv'
<1> SUFFICES ASSUME AnswersIInv, UNCHANGED answerVars
             PROVE  AnswersIInv'
  OBVIOUS
<1> USE DEF AnswersIInv, answerVars
<1>1. AnswersTypeOK' /\ RequestsKnown' /\ AtWork' /\ AbortedIsStopped' /\ JobHasWorker'
  BY DEF AnswersTypeOK, RequestsKnown, Used, AtWork, AbortedIsStopped, JobHasWorker
<1>2. AskedInThisJob' /\ OneJob' /\ OneUnderWay' /\ OneClaims'
  BY DEF AskedInThisJob, OneJob, Used, OneUnderWay, UnderWay, OneClaims, Claims
<1>3. ReadIsAcknowledged' /\ AcknowledgedIsRead' /\ SavesQueued' /\ SecretsKept'
  BY DEF ReadIsAcknowledged, AcknowledgedIsRead, SavesQueued, SecretsKept
<1>4. QED
  BY <1>1, <1>2, <1>3

\* The invariant holds in every state that the answers reach.
THEOREM AnswersIInvHolds == AnswersSpec => []AnswersIInv
<1>1. AnswersIInv /\ [AnswersNext]_answerVars => AnswersIInv'
  <2> SUFFICES ASSUME AnswersIInv, [AnswersNext]_answerVars
               PROVE  AnswersIInv'
    OBVIOUS
  <2>1. CASE \E i \in DOMAIN sets : ReadSecrets(i) \/ Saved(i)
    BY <2>1, ReadSecretsKeeps, SavedKeeps
  <2>2. CASE \E p \in Pane : Publish(p) \/ Present(p) \/ ClosePane(p) \/ InputError(p)
                               \/ ErrorWritten(p) \/ RehearsalAsks(p)
    BY <2>2, PublishKeeps, PresentKeeps, ClosePaneKeeps, InputErrorKeeps, ErrorWrittenKeeps,
       RehearsalAsksKeeps
  <2>3. CASE \E r \in Request : Deliver(r) \/ Answered(r) \/ AnswerLost(r)
    BY <2>3, DeliverKeeps, AnsweredKeeps, AnswerLostKeeps
  <2>4. CASE \E r \in Request, p \in Pane :
               Submit(r, p) \/ SubmitSecret(r, p) \/ RehearsalAnswered(r, p)
    BY <2>4, SubmitKeeps, SubmitSecretKeeps, RehearsalAnsweredKeeps
  <2>5. CASE \E t \in stops : EndStop(t)
    BY <2>5, EndStopKeeps
  <2>6. CASE UNCHANGED answerVars
    BY <2>6, StutterAnswers
  <2>7. QED
    BY <2>1, <2>2, <2>3, <2>4, <2>5, <2>6, BeginNativeKeeps, AgentReadsKeeps, AgentGivesUpKeeps,
       EndNativeKeeps, BeginRehearsalKeeps, RehearsalShowsKeeps, RehearsalRunsKeeps,
       RehearsalEndsKeeps, RehearsalFailsKeeps, RehearsalAbortsKeeps, BeginStopKeeps,
       ProcessExitsKeeps, LaunchKeeps
       DEF AnswersNext
<1>2. QED
  BY <1>1, InitAnswers, PTL DEF AnswersSpec

\* Of all who answer an input one is told that he has, and he is the one who is read.
THEOREM AcknowledgedIsReadHolds == AnswersSpec => []AcknowledgedIsRead
<1>1. AnswersIInv => AcknowledgedIsRead
  BY DEF AnswersIInv
<1>2. QED
  BY <1>1, AnswersIInvHolds, PTL

\* A secret whose request was acknowledged is stored, as a value given for its variable.
THEOREM NoSecretLostHolds == AnswersSpec => []NoSecretLost
<1>1. AnswersIInv => NoSecretLost
  BY DEF AnswersIInv, SecretsKept, NoSecretLost
<1>2. QED
  BY <1>1, AnswersIInvHolds, PTL

\* No rehearsal is left without its worker.
THEOREM JobHasWorkerHolds == AnswersSpec => []JobHasWorker
<1>1. AnswersIInv => JobHasWorker
  BY DEF AnswersIInv
<1>2. QED
  BY <1>1, AnswersIInvHolds, PTL
===============================================================================
