------------------------------ MODULE Listing ------------------------------
(***************************************************************************)
(* The listing of a directory, while other programs change it:             *)
(* list_directory and sort_list_entries (src/list/src/lib.rs), in the      *)
(* Linux version and in the one for other systems.                         *)
(*                                                                         *)
(* The names are read first, with their types where the file system says   *)
(* them, and each is then looked at by its name: what a name stands for    *)
(* may differ between the two.                                             *)
(***************************************************************************)
EXTENDS Integers, Sequences, Functions

CONSTANTS
  Names,      \* names, as numbers in the order of sort_list_entries
  Objects,    \* what a name can stand for: [kind, size]
  WithTypes,  \* whether readdir says the types: TRUE, FALSE, or both may happen
  MaxChanges, \* bound on the changes of the directory
  None

ListingAssumption ==
  /\ Names \subseteq Nat /\ WithTypes \subseteq BOOLEAN /\ MaxChanges \in Nat
  /\ Objects \subseteq [kind : {"file", "dir", "link"}, size : Nat]

VARIABLES
  dir,     \* what each name stands for, or None
  was,     \* history: what each name has stood for since the listing began
  step,    \* "walk", "stat" or "done"
  unread,  \* names the enumeration has yet to give
  dirent,  \* the entry being looked at: its name and type, None when not said
  entries, \* list_entries
  changes

vars == <<dir, was, step, unread, dirent, entries, changes>>

Init ==
  /\ dir \in [Names -> Objects \cup {None}]
  /\ was = [n \in Names |-> {dir[n]}]
  /\ step = "walk" /\ unread = Names /\ dirent = None /\ entries = <<>> /\ changes = 0

Change ==
  /\ changes < MaxChanges /\ step # "done"
  /\ \E n \in Names, o \in Objects \cup {None} :
       /\ dir[n] # o
       /\ dir' = [dir EXCEPT ![n] = o]
       /\ was' = [was EXCEPT ![n] = @ \cup {o}]
  /\ changes' = changes + 1
  /\ UNCHANGED <<step, unread, dirent, entries>>

\* readdir reads names and types ahead of their use: a name that is there throughout is given
\* once, one that came or went or was replaced perhaps, with a type it has had since the start.
Dirent ==
  /\ step = "walk"
  /\ \E n \in unread :
       /\ unread' = unread \ {n}
       /\ \/ /\ \E o \in was[n] \ {None}, typed \in WithTypes :
                  dirent' = [name |-> n, type |-> IF typed THEN o.kind ELSE None]
             /\ step' = "stat"
          \/ /\ None \in was[n] \/ was[n] # {dir[n]}
             /\ UNCHANGED <<dirent, step>>
  /\ UNCHANGED <<dir, was, entries, changes>>

\* Mutant: the type is taken from the enumeration alone.
TypeOfDirent(d, o) == d.type

\* The type readdir said, or that of the stat.
TypeOf(d, o) == IF d.type = None THEN o.kind ELSE d.type

\* statat without following links: a name that is gone and a link are passed over.
Stat ==
  /\ step = "stat" /\ step' = "walk" /\ dirent' = None
  /\ LET o == dir[dirent.name] IN
       entries' =
         IF o = None THEN entries
         ELSE LET type == TypeOf(dirent, o) IN
           IF type = "link" THEN entries
           ELSE Append(entries, [name |-> dirent.name, type |-> IF type = "dir" THEN "dir" ELSE "file",
                                 size |-> IF type = "dir" THEN None ELSE o.size])
  /\ UNCHANGED <<dir, was, unread, changes>>

\* sort_list_entries
Before(e, f) ==
  \/ e.type = "dir" /\ f.type # "dir"
  \/ (e.type = "dir" <=> f.type = "dir") /\ e.name < f.name

Ordered(s) == \A i, j \in DOMAIN s : i < j => Before(s[i], s[j])

Finish ==
  /\ step = "walk" /\ unread = {}
  /\ \E sorted \in [DOMAIN entries -> Range(entries)] :
       /\ Range(sorted) = Range(entries) /\ Ordered(sorted)
       /\ entries' = sorted
  /\ step' = "done"
  /\ UNCHANGED <<dir, was, unread, dirent, changes>>

Next == Change \/ Dirent \/ Stat \/ Finish
Spec == Init /\ [][Next]_vars

-----------------------------------------------------------------------------
(* Properties. *)

Entry(n, o) == [name |-> n, type |-> o.kind, size |-> IF o.kind = "dir" THEN None ELSE o.size]

\* A name nobody touched while the listing was made is in it as what it is, unless it is a link
\* or nothing; whatever happens to the others meanwhile.
StableIsListed ==
  step = "done" =>
    \A n \in Names : was[n] = {dir[n]} =>
      LET o == dir[n] IN
        {e \in Range(entries) : e.name = n} =
          IF o = None \/ o.kind = "link" THEN {} ELSE {Entry(n, o)}

\* An entry tells of its name a type and a size it had while the listing was made, though perhaps
\* not at the same time; no link is shown as a file that has never been one.
EntryWasSo ==
  \A i \in DOMAIN entries :
    LET e == entries[i]  past == was[e.name] \ {None} IN
      /\ \E o \in past : o.kind = e.type
      /\ e.type = "file" => \E o \in past : o.size = e.size
=============================================================================
