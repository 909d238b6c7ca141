--------------------------- MODULE MCNodeSettings ---------------------------
(* Small instances of the node's settings for TLC.                           *)
EXTENDS NodeSettings

CONSTANTS s1, s2, d1, d2, r1, r2

\* The second route only queues maintenance.
OneOfAll == [r \in {r1, r2} |->
  IF r = r1 THEN {"enable", "disable", "queue", "storage", "map", "remove"} ELSE {"queue"}]

\* The second slot is free at first.
OneLink == [s \in {s1, s2} |-> IF s = s1 THEN d1 ELSE None]
=============================================================================
