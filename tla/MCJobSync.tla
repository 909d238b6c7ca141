----------------------------- MODULE MCJobSync -----------------------------
(* Small instances of the poller and the job history for TLC.              *)
EXTENDS JobSync

CONSTANTS j1, j2, loop, now
=============================================================================
