----------------------------- MODULE MCProductTurns -----------------------------
(* Instance of ProductTurns for TLC: constants in the configurations.      *)
EXTENDS ProductTurns
===============================================================================
