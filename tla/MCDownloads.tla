---------------------------- MODULE MCDownloads -----------------------------
(* A small instance of the download queue for TLC.                           *)
EXTENDS Downloads
=============================================================================
