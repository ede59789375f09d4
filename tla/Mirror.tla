------------------------------- MODULE Mirror -------------------------------
(***************************************************************************)
(* What a pull promises of the local files (src/README.md, the guarantees  *)
(* of the client; src/pull/src/fetch.rs, fetch_file): a file is left as it *)
(* is, removed, or becomes one whole version the remote has had since the  *)
(* pull began.  Torn files come of being killed, and where the directory   *)
(* lets nothing be removed from it.                                        *)
(***************************************************************************)
EXTENDS Naturals

CONSTANTS
  Files,    \* the files of the remote tree
  Versions, \* what a remote file can contain
  Empty,    \* of these, the versions of no bytes: a file torn at once looks like one
  Own       \* what the user's own files contain

VARIABLES
  offered,  \* the versions each remote file has had since the pull began
  copy,     \* each local file: "absent", a version, Own, or "torn"
  kills,    \* how often the client was killed
  stuck     \* the files that cannot be removed

Copies == Versions \cup {"absent", "torn", Own}

Init ==
  /\ offered \in [Files -> SUBSET Versions]
  /\ copy \in [Files -> {"absent", Own}]
  /\ kills = 0
  /\ stuck \in SUBSET Files

Install(f) ==
  /\ \E v \in offered[f] : copy' = [copy EXCEPT ![f] = v]
  /\ UNCHANGED <<kills, stuck, offered>>

Remove(f) ==
  /\ copy' = [copy EXCEPT ![f] = "absent"]
  /\ UNCHANGED <<kills, stuck, offered>>

Tear(f) ==
  /\ kills' = kills + 1 \/ (f \in stuck /\ kills' = kills)
  /\ \E c \in Empty \cup {"torn"} : copy' = [copy EXCEPT ![f] = c]
  /\ UNCHANGED <<stuck, offered>>

Killed ==
  /\ kills' = kills + 1
  /\ \/ copy' = copy
     \/ \E f \in Files, v \in Versions :
          v \in offered[f] /\ copy' = [copy EXCEPT ![f] = v]
  /\ UNCHANGED <<stuck, offered>>

\* The remote changes, or a pull begins.
Offer ==
  /\ offered' \in [Files -> SUBSET Versions]
  /\ UNCHANGED <<copy, kills, stuck>>

Next == Offer \/ Killed \/ \E f \in Files : Install(f) \/ Remove(f) \/ Tear(f)

vars == <<offered, copy, kills, stuck>>

Spec == Init /\ [][Next]_vars
=============================================================================
