----------------------------- MODULE MCTuiSession -----------------------------
(***************************************************************************)
(* Instances of TuiSession: one or two participants and an administrator.  *)
(***************************************************************************)
EXTENDS TuiSession, TLC

\* Tokens and ids are random; nothing tells one from another.
RandomIds == Permutations(Token) \cup Permutations(TurnId)

\* Nor two participants, when both or none may leave.
Alike == RandomIds \cup Permutations(Session \ Admins)
\* Bound of MCTuiSession: what is typed without Enter draws no token.
EntersOnly == \A s \in Session : writes[s] = Idle \/ writes[s].enter
===============================================================================
