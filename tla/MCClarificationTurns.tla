------------------------- MODULE MCClarificationTurns -------------------------
(* Instance of ClarificationTurns for TLC: what the fingerprints are about. *)
EXTENDS ClarificationTurns, TLC

CONSTANTS c1, fa, fb

ThreadSymmetry == Permutations(Threads)

\* Two answers to one clarification.
AllTheSame == [f \in Fingerprints |-> c1]
===============================================================================
