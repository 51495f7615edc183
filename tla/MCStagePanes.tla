----------------------------- MODULE MCStagePanes -----------------------------
(***************************************************************************)
(* Instances of StagePanes with one administrator.                         *)
(***************************************************************************)
EXTENDS StagePanes

\* Pane ids, run ids and job ids are only compared.
AnyIds == Permutations(PaneId) \cup Permutations(Run) \cup Permutations(TurnId)

\* Bound: what follows the end of the second job is what followed the end of the first.
SecondJobRuns == turn # NoTurn \/ spent # TurnId
===============================================================================
