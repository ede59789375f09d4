------------------------------ MODULE MCParts ------------------------------
(* Instances of Parts for TLC. *)
EXTENDS Parts, TLC

CONSTANTS t1, t2, b1, b2

SomeEscape ==
  [c \in {"%", "#", "?"} |->
     IF c = "%" THEN <<"2", "5">> ELSE IF c = "#" THEN <<"2", "3">> ELSE <<"3", "F">>]

\* Names of the routes, and names that need or look like an escape.
SomeNames ==
  {<<w>> : w \in {"files", "pull", "api", "zip", "list", "a", "-f", "dst"}}
    \cup {<<"%">>, <<"#">>, <<"?">>, <<"%", "2", "3">>, <<"%", "2">>, <<"%", "2", "5">>,
          <<"%", "%", "2", "3">>, <<"%", "2", "5", "2", "3">>, <<"a", "#", "?">>, <<"?", "#">>,
          <<"2", "3">>, <<"%", "2", "2">>}

SomeObjects ==
  {[kind |-> "file", size |-> 1], [kind |-> "file", size |-> 2],
   [kind |-> "dir", size |-> 4], [kind |-> "link", size |-> 3]}

SomeInterfaces ==
  {[class |-> "lan", addr |-> "A"], [class |-> "lan", addr |-> None],
   [class |-> "vpn", addr |-> "V"], [class |-> "other", addr |-> "O"]}

\* A stack buffer of 8 holds a path of 4 and not one of 5; a line of 9 is over Keep.
SomeRequests ==
  {[via |-> "fast", ip |-> "V4", path |-> n] : n \in {4, 5, 9}}
    \cup {[via |-> "salvo", ip |-> "V6", path |-> 1]}

\* Each body has a file description of its own; the second begins inside the file.
SomeDescription == b1 :> 1 @@ b2 :> 2
SomeStart == b1 :> 0 @@ b2 :> 1
SomeTotal == b1 :> 3 @@ b2 :> 2

\* The workers are interchangeable.
WorkerSymmetry == Permutations({t1, t2})
=============================================================================
