----------------------------- MODULE MCStageFloor -----------------------------
(* Small instances of the floor: three sessions, any of whom may become an  *)
(* administrator, two jobs, a lease of three clock steps and a hold of two, *)
(* so that a hold may end before, with and after the lease it extends.      *)
EXTENDS StageFloor

===============================================================================
