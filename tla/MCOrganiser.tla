---------------------------- MODULE MCOrganiser -----------------------------
(* A folder of two videos and a person's third file, for TLC.                *)
EXTENDS Organiser, TLC

CONSTANTS a, b, c, f, g

Symmetry == Permutations({a, b, c}) \cup Permutations({f, g})
=============================================================================
