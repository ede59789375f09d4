---------------------------- MODULE MCFileCache ----------------------------
(* Instances of FileCache for TLC. *)
EXTENDS FileCacheLru, TLC

CONSTANTS a, b, c

WorkerSymmetry == Permutations(Workers)

\* Every path in the same shard, and a regular file of its own to begin with.
OneShard == [p \in Paths |-> 1]
EachItsFile == [p \in Paths |-> IF p = a THEN 1 ELSE IF p = b THEN 2 ELSE 3]
=============================================================================
