------------------------------- MODULE MCAnswers -------------------------------
(***************************************************************************)
(* Answers with interchangeable requests and secrets.                      *)
(***************************************************************************)
EXTENDS Answers, TLC

AnyIds == Permutations(Request) \cup Permutations(SecretPane)

===============================================================================
