---------------------------- MODULE FileCacheLru ----------------------------
(* FileCache evicts the least recently used entry of a full shard: it      *)
(* implements LruShards, its per-shard counters being the order of use.    *)
EXTENDS FileCache

Answered(w) == req[w].pc = "done" /\ req[w].fd # None

UsedAfter(s) == {pair \in InShard(s) \X InShard(s) : cache[pair[1]].used > cache[pair[2]].used}

Lru == INSTANCE LruShards WITH
  Clients <- Workers,
  kept    <- [s \in Shards |-> InShard(s)],
  after   <- [s \in Shards |-> UsedAfter(s)],
  answer  <- [w \in Workers |-> IF Answered(w) THEN req[w].path ELSE None]

\* Whatever requests do at the same time, the entries of a shard are the
\* Capacity paths used last of those not removed since: a burst of downloads
\* never throws out a file that was used more recently than one that stays.
ImplementsLru == Lru!Spec
=============================================================================
