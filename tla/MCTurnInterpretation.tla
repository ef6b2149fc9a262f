------------------------- MODULE MCTurnInterpretation -------------------------
(* Instance of TurnInterpretation for TLC: symmetry.                       *)
EXTENDS TurnInterpretation, TLC

DataSymmetry == Permutations(UserTexts) \cup Permutations(Users)
===============================================================================
