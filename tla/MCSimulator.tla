----------------------------- MODULE MCSimulator -----------------------------
(* Model-checking instance of Simulator: the users are interchangeable. *)
EXTENDS Simulator, TLC

Symmetry == Permutations(Users)
=============================================================================
