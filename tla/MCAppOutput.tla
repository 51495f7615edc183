------------------------------ MODULE MCAppOutput ------------------------------
(***************************************************************************)
(* AppOutput with two secrets, one of which begins the other.              *)
(***************************************************************************)
EXTENDS AppOutput

CONSTANTS a, b

MCSecret == {<<a, b>>, <<a>>}

===============================================================================
