--------------------------- MODULE MCWaitForDisc ---------------------------
(* A small instance of Wait for Disc for TLC.                              *)
EXTENDS WaitForDisc

CONSTANTS r1, r2, loop, now
=============================================================================
