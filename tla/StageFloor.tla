------------------------------ MODULE StageFloor ------------------------------
(***************************************************************************)
(* The floor of one project's stage (server/stage.ts, StageStore): who may *)
(* drive the agent now.  A session raises its hand and speaks under a      *)
(* lease; pressing Enter in the terminal holds the floor a little longer,  *)
(* until the agent's start hook turns the submission into a job; the job's *)
(* owner then drives until the job ends.                                   *)
(*                                                                         *)
(* Time.  The code stores absolute deadlines (speaker.expiresAt,           *)
(* tuiSubmissionUntil) and compares them with now().  The model keeps what *)
(* those comparisons see: the time that is left, counted down to 0 by      *)
(* Elapse.  A deadline "<= now" is a remainder of 0.                       *)
(***************************************************************************)
EXTENDS Naturals, FiniteSets

CONSTANTS
  Session,          \* the sessions that may ever join (index.ts sessions)
  NoOne,            \* no speaker, no owner
  TurnId,           \* the random ids jobs are given
  NoTurn,           \* no job is running
  Lease,            \* speakerLeaseMs, in steps of the clock
  Hold,             \* the 5 s grace of holdTuiSubmission, in the same unit
  MaxParticipants   \* the 200 places of a stage

ASSUME SessionAssumption == NoOne \notin Session
ASSUME TurnAssumption == NoTurn \notin TurnId
ASSUME TimeAssumption == Lease \in Nat \ {0} /\ Hold \in Nat \ {0}
ASSUME CapacityAssumption == MaxParticipants \in Nat \ {0}

VARIABLES
  runner,        \* state.runner, fixed when the server starts
  participants,  \* state.participants: the sessions on the stage
  admins,        \* the sessions whose admin flag is set
  speaker,       \* state.speaker?.participantId
  leaseLeft,     \* speaker.expiresAt - now
  holdLeft,      \* tuiSubmissionUntil - now; 0 when it is unset or past
  turn,          \* state.turn?.id
  owner,         \* state.turn?.participantId
  spent          \* the turn ids drawn so far: randomUUID never repeats one

floorVars ==
  <<runner, participants, admins, speaker, leaseLeft, holdLeft, turn, owner, spent>>

Native == runner = "antigravity"

FloorTypeOK ==
  /\ runner \in {"antigravity", "rehearsal"}
  /\ participants \subseteq Session
  /\ admins \subseteq Session
  /\ speaker \in Session \cup {NoOne}
  /\ leaseLeft \in 0..Lease
  /\ holdLeft \in 0..Hold
  /\ turn \in TurnId \cup {NoTurn}
  /\ owner \in Session \cup {NoOne}
  /\ spent \subseteq TurnId

FloorInit ==
  /\ runner \in {"antigravity", "rehearsal"}
  /\ participants = {}
  /\ admins = {}
  /\ speaker = NoOne
  /\ leaseLeft = 0
  /\ holdLeft = 0
  /\ turn = NoTurn
  /\ owner = NoOne
  /\ spent = {}

-------------------------------------------------------------------------------
(* Who drives.  Every operation that asks first runs tick(), which drops a  *)
(* speaker whose lease and hold are both over.                              *)

Lapsed == leaseLeft = 0 /\ holdLeft = 0

SpeakerNow == IF Lapsed THEN NoOne ELSE speaker

Driver == IF turn # NoTurn THEN owner ELSE SpeakerNow

Controls(s) == s \in admins \/ Driver = s

InteractionBusy == turn # NoTurn \/ speaker # NoOne \/ holdLeft > 0

-------------------------------------------------------------------------------
(* Sessions.                                                                *)

Join(s) ==
  /\ s \notin participants
  /\ Cardinality(participants) < MaxParticipants
  /\ participants' = participants \cup {s}
  /\ UNCHANGED <<runner, admins, speaker, leaseLeft, holdLeft, turn, owner, spent>>

\* The session expired: it loses the floor it was speaking on, but a job it
\* started keeps running in its name.
Leave(s) ==
  /\ s \in participants
  /\ participants' = participants \ {s}
  /\ admins' = admins \ {s}
  /\ IF speaker = s
       THEN speaker' = NoOne /\ leaseLeft' = 0
       ELSE UNCHANGED <<speaker, leaseLeft>>
  /\ UNCHANGED <<runner, holdLeft, turn, owner, spent>>

AdminLogin(s) ==
  /\ s \in participants \ admins
  /\ admins' = admins \cup {s}
  /\ UNCHANGED <<runner, participants, speaker, leaseLeft, holdLeft, turn, owner, spent>>

AdminLogout(s) ==
  /\ s \in participants \cap admins
  /\ admins' = admins \ {s}
  /\ UNCHANGED <<runner, participants, speaker, leaseLeft, holdLeft, turn, owner, spent>>

-------------------------------------------------------------------------------
(* The clock and the one-second timer.                                      *)

\* Mutant: the hold is never cleared.
ElapseHoldStays ==
  /\ leaseLeft > 0
  /\ leaseLeft' = leaseLeft - 1
  /\ UNCHANGED <<runner, participants, admins, speaker, holdLeft, turn, owner, spent>>

Elapse ==
  /\ leaseLeft > 0 \/ holdLeft > 0
  /\ leaseLeft' = IF leaseLeft > 0 THEN leaseLeft - 1 ELSE 0
  /\ holdLeft' = IF holdLeft > 0 THEN holdLeft - 1 ELSE 0
  /\ UNCHANGED <<runner, participants, admins, speaker, turn, owner, spent>>

\* Mutant: the timer ignores the grace of a submission.
TickIgnoresHold ==
  /\ speaker # NoOne
  /\ leaseLeft = 0
  /\ speaker' = NoOne
  /\ UNCHANGED <<runner, participants, admins, leaseLeft, holdLeft, turn, owner, spent>>

Tick ==
  /\ speaker # NoOne
  /\ Lapsed
  /\ speaker' = NoOne
  /\ UNCHANGED <<runner, participants, admins, leaseLeft, holdLeft, turn, owner, spent>>

-------------------------------------------------------------------------------
(* The floor.                                                               *)

\* Mutants: a raised hand overrides the speaker; it renews the speaker's own lease.
RaiseOver(s) ==
  /\ s \in participants
  /\ turn = NoTurn
  /\ speaker' = s
  /\ leaseLeft' = Lease
  /\ UNCHANGED <<runner, participants, admins, holdLeft, turn, owner, spent>>
RaiseRenews(s) == SpeakerNow \in {NoOne, s} /\ RaiseOver(s)

Raise(s) ==
  /\ s \in participants
  /\ SpeakerNow = NoOne
  /\ turn = NoTurn
  /\ speaker' = s
  /\ leaseLeft' = Lease
  /\ UNCHANGED <<runner, participants, admins, holdLeft, turn, owner, spent>>

\* release, and the administrators' revoke, which is the same call.
Release(s) ==
  /\ s \in participants
  /\ s \in admins \/ speaker = s
  /\ speaker' = NoOne
  /\ leaseLeft' = 0
  /\ holdLeft' = 0
  /\ UNCHANGED <<runner, participants, admins, turn, owner, spent>>

\* Enter in the terminal: the caller has just passed assertTuiControl, whose
\* tick() dropped a lapsed speaker.  A job's owner gets no hold.
HoldTuiSubmission(s) ==
  /\ Native
  /\ s \in participants
  /\ Controls(s)
  /\ s \in admins \/ SpeakerNow = s
  /\ speaker' = SpeakerNow
  /\ holdLeft' = Hold
  /\ UNCHANGED <<runner, participants, admins, leaseLeft, turn, owner, spent>>

\* Mutant: a job leaves the speaker in place.
StartTurnKeepsSpeaker(s, id) ==
  /\ turn = NoTurn
  /\ id \notin spent
  /\ turn' = id
  /\ owner' = s
  /\ spent' = spent \cup {id}
  /\ UNCHANGED <<runner, participants, admins, speaker, leaseLeft>>

StartTurn(s, id) ==
  /\ turn = NoTurn
  /\ id \notin spent
  /\ turn' = id
  /\ owner' = s
  /\ spent' = spent \cup {id}
  /\ speaker' = NoOne
  /\ leaseLeft' = 0
  /\ UNCHANGED <<runner, participants, admins>>

\* Mutant: anybody may begin.
BeginTuiAnybody(s, id) ==
  /\ Native
  /\ StartTurn(s, id)
  /\ holdLeft' = 0

\* The rehearsal runner's prompt: only the speaker, not even an administrator.
Begin(s, id) ==
  /\ ~Native
  /\ s \in participants
  /\ SpeakerNow = s
  /\ StartTurn(s, id)
  /\ UNCHANGED holdLeft

\* The agent's start hook claims the submission of s.
BeginTui(s, id) ==
  /\ Native
  /\ Controls(s)
  /\ StartTurn(s, id)
  /\ holdLeft' = 0

\* A completion for any other job than the running one is ignored.
Finish(id) ==
  /\ turn # NoTurn
  /\ turn = id
  /\ turn' = NoTurn
  /\ owner' = NoOne
  /\ UNCHANGED <<runner, participants, admins, speaker, leaseLeft, holdLeft, spent>>

Reset ==
  /\ InteractionBusy
  /\ speaker' = NoOne
  /\ leaseLeft' = 0
  /\ holdLeft' = 0
  /\ turn' = NoTurn
  /\ owner' = NoOne
  /\ UNCHANGED <<runner, participants, admins, spent>>

-------------------------------------------------------------------------------

FloorNext ==
  \/ \E s \in Session :
       \/ Join(s)
       \/ Leave(s)
       \/ AdminLogin(s)
       \/ AdminLogout(s)
       \/ Raise(s)
       \/ Release(s)
       \/ HoldTuiSubmission(s)
       \/ \E id \in TurnId : Begin(s, id) \/ BeginTui(s, id)
  \/ \E id \in TurnId : Finish(id)
  \/ Reset
  \/ Elapse
  \/ Tick

FloorSpec == FloorInit /\ [][FloorNext]_floorVars

\* Only time and the timer are sure to go on; sessions and the agent may stop.
FloorFairness == WF_floorVars(Elapse) /\ WF_floorVars(Tick)

FairFloorSpec == FloorSpec /\ FloorFairness

-------------------------------------------------------------------------------
(* Properties.                                                              *)

\* A running job leaves no speaker, no lease and no hold of an older speaker
\* behind, it always has an owner to answer for it, and ids of jobs are never
\* drawn twice (raise, begin, beginTui, finish and reset against each other).
FloorExclusive ==
  /\ turn = NoTurn <=> owner = NoOne
  /\ turn # NoTurn => speaker = NoOne /\ turn \in spent
  /\ speaker = NoOne => leaseLeft = 0

\* The inductive invariant of the floor: the types and the exclusion.
FloorInv == FloorTypeOK /\ FloorExclusive

\* A live lease is never taken from its speaker by somebody without the right
\* to: it ends by the speaker's or an administrator's release, by a job of the
\* speaker or of an administrator, by leaving, or by a reset.
LeaseKept ==
  [][\A s \in Session :
       speaker = s /\ ~Lapsed /\ speaker' # s =>
         \/ speaker' = NoOne /\ turn' # NoTurn /\ owner' \in admins \cup {s}
         \/ s \notin participants'
         \/ \E a \in (admins \cup {s}) \cap participants : Release(a)
         \/ Reset]_floorVars

\* The abstract promise, with the lazily dropped speaker seen as tick() sees it.
Control == INSTANCE FloorControl
  WITH holder <- Driver, working <- (turn # NoTurn), privileged <- admins

ImplementsFloorControl == Control!Spec

\* If Enter is not pressed for ever, nobody keeps the floor for ever: every
\* speaker's lease lapses, whatever else is requested (a speaker may raise its
\* hand again, but then against everybody else).
LeaseEndsOnceEnterStops ==
  <>[][~\E s \in Session : HoldTuiSubmission(s)]_floorVars
    => \A s \in Session : SpeakerNow = s ~> SpeakerNow # s

\* Without any request the timer alone makes an idle stage free again: project
\* handoff, which waits for interactionBusy to clear, is not blocked by a lease
\* or a hold somebody walked away from.
StageFreesItself ==
  <>[][Elapse \/ Tick]_floorVars => <>[](turn # NoTurn \/ ~InteractionBusy)
===============================================================================
