------------------------------ MODULE SafeMove ------------------------------
(***************************************************************************)
(* What app/mover.py promises of every rip folder, with no queue, worker,  *)
(* partial folder or crash in sight: the library receives a folder at once *)
(* and as a whole, exactly as the source was when it was last confirmed;   *)
(* a source file goes away only if the library holds the same version, or  *)
(* if it changed after that confirmation.                                  *)
(***************************************************************************)
EXTENDS Naturals

CONSTANTS Folders, Files

VARIABLES src, dst,    \* version of each file at the source and in the library
          confirmed,   \* a source content checked and not yet published
          late         \* files changed after their folder was confirmed

vars == <<src, dst, confirmed, late>>

Absent == 0
Empty  == [f \in Files |-> Absent]

Init ==
  /\ src \in [Folders -> [Files -> Nat]]
  /\ dst = [fo \in Folders |-> Empty]
  /\ confirmed = [fo \in Folders |-> Empty]
  /\ late = [fo \in Folders |-> {}]

\* Someone writes a new version of a source file.
Change(fo, f) ==
  /\ src'[fo][f] \in Nat \ {Absent}
  /\ src' = [src EXCEPT ![fo][f] = src'[fo][f]]
  /\ late' \in {late, [late EXCEPT ![fo] = @ \cup {f}]}
  /\ UNCHANGED <<dst, confirmed>>

\* The source is found to be as it was copied; an earlier doubt is settled.
Confirm(fo) ==
  /\ dst[fo] = Empty
  /\ src[fo] # Empty
  /\ confirmed' = [confirmed EXCEPT ![fo] = src[fo]]
  /\ late' = [late EXCEPT ![fo] = {}]
  /\ UNCHANGED <<src, dst>>

Publish(fo) ==
  /\ confirmed[fo] # Empty
  /\ dst[fo] = Empty
  /\ dst' = [dst EXCEPT ![fo] = confirmed[fo]]
  /\ confirmed' = [confirmed EXCEPT ![fo] = Empty]
  /\ UNCHANGED <<src, late>>

Abandon(fo) ==
  /\ confirmed' = [confirmed EXCEPT ![fo] = Empty]
  /\ UNCHANGED <<src, dst, late>>

\* The source is looked at again before anything of it went away.
Settle(fo) ==
  /\ dst[fo] # Empty
  /\ \A f \in late[fo] : src[fo][f] # Absent
  /\ late' = [late EXCEPT ![fo] = {}]
  /\ UNCHANGED <<src, dst, confirmed>>

Discard(fo, f) ==
  /\ dst[fo] # Empty
  /\ src[fo][f] = dst[fo][f] \/ f \in late[fo]
  /\ src' = [src EXCEPT ![fo][f] = Absent]
  /\ UNCHANGED <<dst, confirmed, late>>

Next ==
  \E fo \in Folders :
     \/ Confirm(fo) \/ Publish(fo) \/ Abandon(fo) \/ Settle(fo)
     \/ \E f \in Files : Change(fo, f) \/ Discard(fo, f)

Spec == Init /\ [][Next]_vars
=============================================================================
