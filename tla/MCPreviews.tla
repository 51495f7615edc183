------------------------------ MODULE MCPreviews -------------------------------
(***************************************************************************)
(* Previews with two requests and one visitor.                             *)
(***************************************************************************)
EXTENDS Previews, TLC

\* Requests differ in nothing before they are made.
Requests == Permutations(Run)
===============================================================================
