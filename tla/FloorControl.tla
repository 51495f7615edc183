----------------------------- MODULE FloorControl -----------------------------
(***************************************************************************)
(* What the stage promises about control, without clocks: at any moment at *)
(* most one session drives the agent.  It is either speaking (holding the  *)
(* hand it raised) or the owner of the running job, and control passes     *)
(* from one session to another only through a free floor, except that an   *)
(* administrator may start a job over somebody who is speaking.            *)
(***************************************************************************)
CONSTANTS Session, NoOne

VARIABLES
  holder,      \* the session that drives, or NoOne
  working,     \* TRUE iff the holder's job is running
  privileged   \* the administrators

vars == <<holder, working, privileged>>

TypeOK ==
  /\ holder \in Session \cup {NoOne}
  /\ working \in BOOLEAN
  /\ privileged \subseteq Session

Init ==
  /\ holder = NoOne
  /\ working = FALSE
  /\ privileged = {}

\* The first raised hand wins; there is no queue.
Grant(s) ==
  /\ holder = NoOne
  /\ holder' = s
  /\ UNCHANGED <<working, privileged>>

\* The speaker yields, is revoked, leaves, or its lease lapses.
Yield ==
  /\ ~working
  /\ holder' = NoOne
  /\ UNCHANGED <<working, privileged>>

StartWork(s) ==
  /\ ~working
  /\ holder = s \/ s \in privileged
  /\ holder' = s
  /\ working' = TRUE
  /\ UNCHANGED privileged

EndWork ==
  /\ working
  /\ holder' = NoOne
  /\ working' = FALSE
  /\ UNCHANGED privileged

\* Administrators log in, log out, and leave; a leaving speaker yields too.
ChangePrivilege ==
  /\ privileged' \in SUBSET Session
  /\ holder' = holder \/ (~working /\ holder' = NoOne)
  /\ UNCHANGED working

Next ==
  \/ \E s \in Session : Grant(s) \/ StartWork(s)
  \/ Yield
  \/ EndWork
  \/ ChangePrivilege

Spec == Init /\ [][Next]_vars
===============================================================================
