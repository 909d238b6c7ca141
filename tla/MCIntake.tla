------------------------------ MODULE MCIntake ------------------------------
(* A small instance of adoption for TLC.                                     *)
EXTENDS Intake, TLC

CONSTANTS c1, c2, x, y

Symmetry == Permutations({c1, c2}) \cup Permutations({x, y})
=============================================================================
