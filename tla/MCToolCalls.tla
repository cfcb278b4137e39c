------------------------------ MODULE MCToolCalls ------------------------------
(* ToolCalls with calls that differ in nothing. *)
EXTENDS ToolCalls, TLC

Symmetry == Permutations(Calls)

=============================================================================
