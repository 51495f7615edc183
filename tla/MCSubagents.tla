------------------------------ MODULE MCSubagents ------------------------------
(***************************************************************************)
(* Subagents with one child, which inherits the hooks or is only observed.  *)
(***************************************************************************)
EXTENDS Subagents

CONSTANTS c1

===============================================================================
