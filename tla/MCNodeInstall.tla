--------------------------- MODULE MCNodeInstall ----------------------------
(* A node, two adoptions, one request and two versions, the second of which  *)
(* does not become healthy, for TLC.                                         *)
EXTENDS NodeInstall
=============================================================================
