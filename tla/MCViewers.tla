------------------------------- MODULE MCViewers -------------------------------
(***************************************************************************)
(* Viewers with one tab, two projects and one event on its way at a time.  *)
(***************************************************************************)
EXTENDS Viewers
===============================================================================
