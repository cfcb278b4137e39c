-------------------------- MODULE MCConfirmations --------------------------
(* Confirmations with the sets whose elements play the same part.          *)
EXTENDS Confirmations, TLC

Symmetry == Permutations(Calls) \cup Permutations(Ops) \cup
            Permutations(Contents)
=============================================================================
