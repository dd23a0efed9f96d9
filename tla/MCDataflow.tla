------------------------------ MODULE MCDataflow ------------------------------
(* Dataflow over every graph of a few equations and variables.              *)
EXTENDS Dataflow, TLC

\* -70 * 70 wraps at 12 bits, and a negative product shows how division rounds.
SignedInputs == {-70, 3}

VarSymmetry == Permutations(WaitQueue)
=============================================================================
