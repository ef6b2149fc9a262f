------------------------------ MODULE MCCoreTurns ------------------------------
(* Instance of CoreTurns for TLC: constants in the configuration.          *)
EXTENDS CoreTurns
===============================================================================
