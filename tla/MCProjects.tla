------------------------------- MODULE MCProjects -------------------------------
(***************************************************************************)
(* ProjectSwitch with two places for projects and two requests.            *)
(***************************************************************************)
EXTENDS ProjectSwitch, TLC

\* Requests, and the ids a created project may get, are only compared.
Names == Permutations(Request) \cup Permutations(Project \ {Default})

\* Bounds: two of a held floor, an administrator's submission and the writes that wait, and
\* no submission once a third project was opened, one of them being taken back.
Bounded ==
  /\ Cardinality(floor) + Cardinality(entered \cup job) + Len(writes) <= 2
  /\ Cardinality(opened \cup opening) > 2 => entered \cup job = {}
===============================================================================
