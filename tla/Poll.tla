-------------------------------- MODULE Poll --------------------------------
(* The polls of one node, as the job history (JobSync) and Wait for Disc    *)
(* (WaitForDisc) have them: poll_loop makes one after the other, and every  *)
(* POST of /poll-now makes one more beside it.                              *)

CONSTANTS Polls,      \* polls of the node that may overlap
          Loop,       \* the one poll_loop makes
          MaxFaults   \* bound: lost answers, failed transactions and restarts of the Manager
=============================================================================
