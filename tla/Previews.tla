-------------------------------- MODULE Previews --------------------------------
(***************************************************************************)
(* Who may reach the app of a project: one port of its gateway             *)
(* (server/preview-gateway.ts, server/preview-access.ts) in front of the   *)
(* app runtime, as server/index.ts wires them.  A visitor of a public      *)
(* stage draws a ticket, trades it for a grant, and connects; a sweep cuts *)
(* what is no longer permitted, after every change of the runtime or the   *)
(* stage, at the end of a project switch, and once a second.               *)
(***************************************************************************)
EXTENDS AppRuntime

CONSTANT Visitor  \* sessions of the stage; one that ends never comes back; bound

VARIABLES
  members,    \* the sessions that have not expired
  published,  \* store.publishesPreview(port)
  active,     \* this is the active project
  switching,  \* a project switch is under way
  tickets,    \* the epoch each visitor's unused ticket is for; bound: its latest only
  entering,   \* the epoch at which each visitor's exchange of it began, while it awaits
  grants,     \* the epoch of each visitor's cookie
  connections \* this.connections, and the app each was made to

accessVars == <<members, published, active, switching, tickets, entering, grants, connections>>
previewVars == <<runtimeVars, accessVars>>

PreviewsTypeOK ==
  /\ RuntimeTypeOK
  /\ members \subseteq Visitor
  /\ {published, active, switching} \subseteq BOOLEAN
  /\ {tickets, entering, grants} \subseteq [Visitor -> Run \cup {NoRun}]
  /\ connections \subseteq [visitor : Visitor, epoch : Run, app : Run, writes : BOOLEAN]

PreviewInit ==
  /\ RuntimeInit
  /\ members = Visitor
  /\ published = FALSE /\ active \in BOOLEAN /\ switching = FALSE
  /\ tickets = [v \in Visitor |-> NoRun]
  /\ entering = [v \in Visitor |-> NoRun]
  /\ grants = [v \in Visitor |-> NoRun]
  /\ connections = {}

ReadOnly == switching \/ ~active

\* session(): the cookie is for this epoch, and its session is alive.  (On a LAN the
\* session's own cookie is enough.)
Admitted(v) == v \in members /\ grants[v] = epoch

Reachable == published /\ Target # NoRun

\* What sweep() leaves alone.
Permitted(c) ==
  /\ Admitted(c.visitor)
  /\ c.writes => ~ReadOnly
  /\ Reachable
  /\ c.epoch = epoch

\* Tickets and grants of sessions that have ended go too; an outdated epoch stays.
SweepAccess ==
  /\ tickets' = [v \in Visitor |-> IF v \in members' THEN tickets[v] ELSE NoRun]
  /\ grants' = [v \in Visitor |-> IF v \in members' THEN grants[v] ELSE NoRun]

Sweep ==
  /\ SweepAccess
  /\ connections' = {c \in connections : Permitted(c)'}

-------------------------------------------------------------------------------

\* entry() and issue()
Issue(v) ==
  /\ v \in members /\ Reachable
  /\ tickets' = [tickets EXCEPT ![v] = epoch]
  /\ UNCHANGED <<runtimeVars, members, published, active, switching, entering, grants, connections>>

\* handle(), up to the await of the body
BeginEnter(v) ==
  /\ entering[v] = NoRun /\ epoch # NoRun
  /\ entering' = [entering EXCEPT ![v] = epoch]
  /\ UNCHANGED <<runtimeVars, members, published, active, switching, tickets, grants, connections>>

\* The ticket is compared with the epoch of its arrival, whatever the epoch is now.
Enter(v) ==
  /\ entering[v] # NoRun
  /\ entering' = [entering EXCEPT ![v] = NoRun]
  /\ IF v \in members /\ tickets[v] = entering[v]
       THEN /\ tickets' = [tickets EXCEPT ![v] = NoRun]
            /\ grants' = [grants EXCEPT ![v] = entering[v]]
       ELSE UNCHANGED <<tickets, grants>>
  /\ UNCHANGED <<runtimeVars, members, published, active, switching, connections>>

\* authorize(), which then opens a request or an upgrade
CanConnect(v, writes) == Admitted(v) /\ (writes => ~ReadOnly) /\ Reachable

Connect(v, writes) ==
  /\ CanConnect(v, writes)
  /\ connections' = connections \cup {[visitor |-> v, epoch |-> epoch, app |-> ports, writes |-> writes]}
  /\ UNCHANGED <<runtimeVars, members, published, active, switching, tickets, entering, grants>>

Disconnect(c) ==
  /\ connections' = connections \ {c}
  /\ UNCHANGED <<runtimeVars, members, published, active, switching, tickets, entering, grants>>

-------------------------------------------------------------------------------

\* A pane of the app is shown or leaves the stage, which store.publish() announces.
StageChanges ==
  /\ published' = ~published
  /\ UNCHANGED <<runtimeVars, members, active, switching, entering>>
  /\ Sweep

\* mutant: nothing is swept when the switch is over.
EndSwitchUnswept ==
  /\ switching
  /\ switching' = FALSE
  /\ active' \in BOOLEAN
  /\ UNCHANGED <<runtimeVars, members, published, tickets, entering, grants, connections>>

BeginSwitch ==
  /\ ~switching
  /\ switching' = TRUE
  /\ UNCHANGED <<runtimeVars, members, published, active, tickets, entering, grants, connections>>

EndSwitch ==
  /\ switching
  /\ switching' = FALSE
  /\ active' \in BOOLEAN
  /\ UNCHANGED <<runtimeVars, members, published, entering>>
  /\ Sweep

\* A session runs out; nothing tells the gateway.
Expire(v) ==
  /\ v \in members
  /\ members' = members \ {v}
  /\ UNCHANGED <<runtimeVars, published, active, switching, tickets, entering, grants, connections>>

\* The one-second timer.
TimerSweeps ==
  /\ UNCHANGED <<runtimeVars, members, published, active, switching, entering>>
  /\ Sweep

\* changed() follows every assignment to these.
Announced == state' # state \/ epoch' # epoch

RuntimeStep ==
  /\ RuntimeNext
  /\ UNCHANGED <<members, published, active, switching, entering>>
  /\ IF Announced THEN Sweep ELSE UNCHANGED <<tickets, grants, connections>>

PreviewNext ==
  \/ RuntimeStep
  \/ StageChanges \/ BeginSwitch \/ EndSwitch \/ TimerSweeps
  \/ \E v \in Visitor :
       \/ Issue(v) \/ BeginEnter(v) \/ Enter(v) \/ Expire(v)
       \/ \E writes \in BOOLEAN : Connect(v, writes)
  \/ \E c \in connections : Disconnect(c)

PreviewSpec == PreviewInit /\ [][PreviewNext]_previewVars

-------------------------------------------------------------------------------

\* Two apps never share the workspace, and no log of an app is left running for ever,
\* while the visitors' tickets and cookies are of runs that exist.
PreviewsInv == PreviewsTypeOK /\ OneApp /\ LogsEnd

\* docs/LIVE_APPS.md:30: no connection outlives the app it was made to, its pane on
\* the stage, or, if it writes, the turn of its project.
NoStaleConnection ==
  \A c \in connections : c.app = Target /\ published /\ (c.writes => active)

===============================================================================
