-------------------------- MODULE MCAdministration --------------------------
(***************************************************************************)
(* A small instance of Administration for TLC: two rules of one kind.      *)
(***************************************************************************)
EXTENDS Administration

CONSTANTS x, y  \* apps

OneKind == [r \in Rule |-> "error"]
=============================================================================
