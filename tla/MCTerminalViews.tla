---------------------------- MODULE MCTerminalViews ----------------------------
(***************************************************************************)
(* TerminalViews with one session that may open one shell at a time, and   *)
(* one viewer.                                                             *)
(***************************************************************************)
EXTENDS TerminalViews, TLC

\* Runs and panes are only compared.
Names == Permutations(Run) \cup Permutations(Pane)

\* Bound: once a stop is not confirmed no shell is opened any more, and what is promised of
\* containers is off; states beyond are not explored.
UntilUnsafe == ~unsafe

\* Bound: a resize is under way only while the viewer's stream is open.
ResizedWhileWatched == connected \/ resizing = {}
===============================================================================
