------------------------------ MODULE MCMover ------------------------------
(* Small instances of the transfer queue for TLC.                          *)
EXTENDS Mover, TLC

CONSTANTS j1, j2, fa, fb, t1, t2

MCFolders == {fa, fb}
MCFiles   == {t1, t2}
\* The same disc ripped twice: both jobs name one folder.
SameFolder == [j \in {j1, j2} |-> fa]
OwnFolder  == [j \in {j1, j2} |-> IF j = j1 THEN fa ELSE fb]

Symmetry == Permutations(MCFiles)
=============================================================================
