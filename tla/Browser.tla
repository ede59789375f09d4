------------------------------ MODULE Browser ------------------------------
(***************************************************************************)
(* The page (src/assets/static/app.js): the hash that names the directory, *)
(* the requests for listings, and the table their answers fill.            *)
(*                                                                         *)
(* A request is never given up: what comes back is shown, whenever it      *)
(* comes.  All rows of one listing are one element of the table.           *)
(***************************************************************************)
EXTENDS Integers, Sequences

CONSTANTS
  Paths,    \* the directories, as the hash writes them
  Home,     \* the root
  MaxMoves  \* bound on the navigations

PathsAssumption == Home \in Paths /\ MaxMoves \in Nat

VARIABLES
  hash,     \* location.hash
  events,   \* the hashchange events that have not been handled
  loads,    \* the requests under way: their path, their number, whether the head has come
  rows,     \* the table: for each listing, the directory it is of and the one its links go to
  crumb,    \* the path shown above it
  loading, error,  \* whether the two notices are shown
  crossed,  \* history: the last load began before an earlier one had ended
  moves, started   \* counters

vars == <<hash, events, loads, rows, crumb, loading, error, crossed, moves, started>>

Load(path, number) == [path |-> path, number |-> number, headed |-> FALSE]

Init ==
  /\ hash \in Paths /\ events = 0 /\ moves = 0 /\ started = 1
  /\ loads = {Load(hash, 1)}
  /\ rows = <<>> /\ crumb = Home /\ loading = TRUE /\ error = FALSE /\ crossed = FALSE

\* navigate, the back button, or the address bar.
Navigate ==
  /\ moves < MaxMoves /\ moves' = moves + 1
  /\ \E p \in Paths \ {hash} : hash' = p
  /\ events' = events + 1
  /\ UNCHANGED <<loads, rows, crumb, loading, error, crossed, started>>

Cleared == <<>>

\* The handler of hashchange, loadListing: the hash is read when the event is handled.
LoadListing ==
  /\ events > 0 /\ events' = events - 1
  /\ loading' = TRUE /\ error' = FALSE /\ rows' = Cleared
  /\ loads' = loads \cup {Load(hash, started + 1)} /\ started' = started + 1
  /\ crossed' = (loads # {})
  /\ UNCHANGED <<hash, crumb, moves>>

HeadComes ==
  /\ \E l \in loads : ~l.headed /\ loads' = (loads \ {l}) \cup {[l EXCEPT !.headed = TRUE]}
  /\ UNCHANGED <<hash, events, rows, crumb, loading, error, crossed, moves, started>>

\* Mutant: links are made with the directory the hash names now.
PrefixNow(l) == hash

\* The directory the links of a listing are made with: encodedPath of the closure.
Prefix(l) == l.path

\* render: the rows are added to those that are there.
Render ==
  /\ \E l \in loads :
       /\ l.headed
       /\ loads' = loads \ {l}
       /\ rows' = Append(rows, [of |-> l.path, under |-> Prefix(l)])
       /\ crumb' = l.path
  /\ loading' = FALSE
  /\ UNCHANGED <<hash, events, error, crossed, moves, started>>

AfterFailure == FALSE

\* The request fails, is not answered with 200, or what comes is no JSON.
LoadFails ==
  /\ \E l \in loads : loads' = loads \ {l}
  /\ loading' = AfterFailure /\ error' = TRUE
  /\ UNCHANGED <<hash, events, rows, crumb, crossed, moves, started>>

Next == Navigate \/ LoadListing \/ HeadComes \/ Render \/ LoadFails
Spec == Init /\ [][Next]_vars

-----------------------------------------------------------------------------
(* Properties. *)

Quiet == events = 0 /\ loads = {}

\* However late a listing comes, and wherever the user has gone meanwhile, its links lead to the
\* entries it lists.
LinksLeadToTheirEntries == \A i \in DOMAIN rows : rows[i].under = rows[i].of

\* When nothing is under way the page shows the directory the hash names, alone, under its name,
\* or the error: unless the last load began while an earlier one was still under way.
ShowsWhereItIs ==
  Quiet /\ ~crossed =>
    IF error THEN rows = <<>>
    ELSE rows = <<[of |-> hash, under |-> hash]>> /\ crumb = hash

\* The notice of a load goes when nothing is under way, also when loads have crossed and failed.
NoticeGoes == Quiet => ~loading
=============================================================================
