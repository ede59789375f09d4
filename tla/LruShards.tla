------------------------------ MODULE LruShards ------------------------------
(***************************************************************************)
(* What a sharded cache with least-recently-used eviction promises: each   *)
(* shard keeps the Capacity paths used last, and every answer to a client  *)
(* is a use: of a path the shard has, or of one that is inserted by it.    *)
(***************************************************************************)
EXTENDS Integers, FiniteSets

CONSTANTS Paths, Shards, ShardOf, Capacity, Clients, None

VARIABLES
  kept,    \* the paths of each shard
  after,   \* the pairs of them of which the first was used after the second
  answer   \* the path each client has been given, or None

vars == <<kept, after, answer>>

Others(p) == kept[ShardOf[p]] \ {p}

\* Of the others of its shard, the one used longest ago.
Last(p) == {q \in Others(p) : \A r \in Others(p) \ {q} : <<r, q>> \in after[ShardOf[p]]}

Init == /\ kept = [s \in Shards |-> {}] /\ after = [s \in Shards |-> {}]
        /\ answer = [c \in Clients |-> None]

Answer(c, p) == answer[c] = None /\ answer' = [answer EXCEPT ![c] = p]

\* The shard of p keeps the paths of rest as they are.
KeepOnly(p, rest) ==
  /\ kept' = [kept EXCEPT ![ShardOf[p]] = rest]
  /\ after' = [after EXCEPT ![ShardOf[p]] = @ \cap (rest \X rest)]

\* It does so, and p is now the path used last.
ToFront(p, rest) ==
  /\ kept' = [kept EXCEPT ![ShardOf[p]] = rest \cup {p}]
  /\ after' = [after EXCEPT ![ShardOf[p]] = (@ \cap (rest \X rest)) \cup ({p} \X rest)]

Use(c, p) == Answer(c, p) /\ p \in kept[ShardOf[p]] /\ ToFront(p, Others(p))

Insert(c, p) ==
  /\ Answer(c, p)
  /\ ToFront(p, IF Cardinality(Others(p)) < Capacity THEN Others(p) ELSE Others(p) \ Last(p))

Drop(p) == KeepOnly(p, Others(p)) /\ UNCHANGED answer
Done(c) == answer' = [answer EXCEPT ![c] = None] /\ UNCHANGED <<kept, after>>

Next == \/ \E p \in Paths : Drop(p) \/ \E c \in Clients : Use(c, p) \/ Insert(c, p)
        \/ \E c \in Clients : Done(c)

Spec == Init /\ [][Next]_vars
=============================================================================
