----------------------------- MODULE MCRipNode -----------------------------
(* Small nodes for TLC: two rips that follow each other in one drive, and  *)
(* two drives ripping into one folder.                                     *)
EXTENDS RipNode

CONSTANTS j1, j2, d1, d2, fa, fb

OneDrive   == [j \in Jobs |-> d1]
TwoDrives  == [j \in Jobs |-> IF j = j1 THEN d1 ELSE d2]
OneFolder  == [j \in Jobs |-> fa]
TwoFolders == [j \in Jobs |-> IF j = j1 THEN fa ELSE fb]
=============================================================================
