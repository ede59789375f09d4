------------------------------ MODULE FileCache ------------------------------
(***************************************************************************)
(* The cache of opened files (src/assets/src/file_cache.rs) and the        *)
(* requests that use it: ServeFiles::open and ServeFiles::serve of         *)
(* src/assets/src/lib.rs.                                                  *)
(*                                                                         *)
(* A request is a sequence of steps between which other requests, other    *)
(* programs that write, replace or delete files, and time pass: the        *)
(* lookups and updates each hold one shard's lock, the system calls hold   *)
(* none.  Contents are not modelled: a file is a generation (what a file   *)
(* descriptor refers to), with an inode number that may be given again     *)
(* once nothing refers to it, and an attribute that stands for its size    *)
(* and modification time.                                                  *)
(***************************************************************************)
EXTENDS Integers, FiniteSets

CONSTANTS
  Paths,      \* request paths (the keys of the cache)
  Born,       \* the generation each path names to begin with, or None
  Shards,     \* SHARDS
  ShardOf,    \* path_hash and shard_index: the shard a path always falls in
  Capacity,   \* CAPACITY_PER_SHARD
  Ttl,        \* REVALIDATE_MILLIS, in ticks
  Workers,    \* requests in progress at a time
  MaxInode,   \* the inode numbers of the file system are 1..MaxInode
  Stall,      \* how long a request may take between a stat and what it does with it
  MaxTime,    \* bound on time, in ticks
  MaxChanges, \* bound on the changes other programs make
  MaxLookups, \* bound on the lookups of a shard
  None        \* Option::None, and a path that names nothing

Inodes == 1..MaxInode

\* What stat reports; a cached file: its descriptor and metadata, when it was used and checked.
Metas   == [ino : Nat, attr : Nat]
Entries == [fd : Nat, meta : Metas, used : Nat, validatedAt : Nat]

ASSUME ShardsAssumption == ShardOf \in [Paths -> Shards]
ASSUME SizesAssumption ==
  /\ Capacity \in Nat \ {0} /\ Ttl \in Nat \ {0}
  /\ Stall \in Nat /\ MaxInode \in Nat /\ MaxTime \in Nat /\ MaxChanges \in Nat /\ MaxLookups \in Nat
ASSUME NoneAssumption == None \notin Nat /\ None \notin Paths /\ None \notin Entries
ASSUME BornAssumption ==
  /\ Born \in [Paths -> Inodes \cup {None}]
  /\ \A p, q \in Paths : Born[p] = Born[q] => p = q \/ Born[p] = None

VARIABLES
  now,      \* the monotonic clock
  changes,  \* changes made so far; also the last attribute given
  file,     \* the files there have been, by generation
  at,       \* the generation each path names, or None
  history,  \* when a path stopped naming a version: <<path, version, time>>
  cache,    \* the entry of each path, or None
  clock,    \* the LRU clock of each shard
  req       \* the request of each worker: its step (pc), path, what lstat reported
            \* (seen) of which generation (saw), its descriptor and metadata, when it
            \* read them or was answered (since), and how it was answered

fsVars == <<changes, file, at, history>>
vars == <<now, fsVars, cache, clock, req>>

-----------------------------------------------------------------------------
\* What stat and fstat report of a generation, and which version that is.
Meta(g)    == [ino |-> file[g].ino, attr |-> file[g].attr]
Version(g) == <<g, file[g].attr>>

InShard(s) == {p \in Paths : ShardOf[p] = s /\ cache[p] # None}

Idle == [pc |-> "idle", path |-> None, seen |-> None, saw |-> None, fd |-> None,
         meta |-> None, since |-> 0, how |-> "none"]

\* A hit hands out the entry's descriptor and metadata.
Hit(w, p, how) == [req[w] EXCEPT !.pc = "done", !.path = p, !.fd = cache[p].fd,
                                 !.meta = cache[p].meta, !.since = now, !.how = how]
NotFound(w)    == [Idle EXCEPT !.pc = "done", !.path = req[w].path, !.since = now, !.how = "not found"]

\* Generations a path, a cached entry or a request refers to: their inode
\* numbers cannot be given to another file.
Held == {at[p] : p \in Paths} \cup {cache[p].fd : p \in {q \in Paths : cache[q] # None}}
        \cup {req[w].fd : w \in Workers}
TakenInodes == {file[g].ino : g \in Held \ {None}}

-----------------------------------------------------------------------------
(* Other programs, and time (external).                                    *)

Gone(p) == IF at[p] = None THEN {} ELSE {<<p, Version(at[p]), now>>}

\* The file is rewritten in place: its size or modification time changes.
WriteInPlace(p) ==
  /\ changes < MaxChanges /\ at[p] # None
  /\ changes' = changes + 1
  /\ file' = [file EXCEPT ![at[p]].attr = changes']
  /\ history' = history \cup Gone(p)
  /\ UNCHANGED <<now, at, cache, clock, req>>

\* A new file takes the path's place (created, or renamed over it).  It may
\* have the size and time of an earlier one, and any free inode number.
Replace(p, ino, attr, regular) ==
  /\ changes < MaxChanges
  /\ ino \notin TakenInodes
  /\ changes' = changes + 1
  /\ file' = [g \in DOMAIN file \cup {MaxInode + changes'} |->
                IF g = MaxInode + changes' THEN [ino |-> ino, attr |-> attr, regular |-> regular]
                ELSE file[g]]
  /\ at' = [at EXCEPT ![p] = MaxInode + changes']
  /\ history' = history \cup Gone(p)
  /\ UNCHANGED <<now, cache, clock, req>>

Delete(p) ==
  /\ changes < MaxChanges /\ at[p] # None
  /\ changes' = changes + 1
  /\ at' = [at EXCEPT ![p] = None]
  /\ history' = history \cup Gone(p)
  /\ UNCHANGED <<now, file, cache, clock, req>>

\* No request lets more than Stall ticks pass between a stat and its use.
Tick == /\ now < MaxTime
        /\ \A w \in Workers : req[w].pc \in {"get", "fstat", "insert"} => now - req[w].since < Stall
        /\ now' = now + 1
        /\ UNCHANGED <<fsVars, cache, clock, req>>

-----------------------------------------------------------------------------
(* The cache: every operation holds its shard's lock throughout.           *)

\* The entry used longest ago.
Oldest(s) == CHOOSE p \in InShard(s) : \A q \in InShard(s) : cache[p].used <= cache[q].used

\* Mutant: a shard is full only when it already holds too much.
FullLate(p) == cache[p] = None /\ Cardinality(InShard(ShardOf[p])) > Capacity

\* insert has to evict: the path is new and its shard has no room.
Full(p) == cache[p] = None /\ Cardinality(InShard(ShardOf[p])) >= Capacity

\* get_fresh's check.
Fresh(p) == cache[p] # None /\ now - cache[p].validatedAt < Ttl

\* Mutant: the inode number is not compared.
MatchesAnyInode(p, meta) == cache[p] # None /\ cache[p].meta.attr = meta.attr

\* get's check.
Matches(p, meta) == cache[p] # None /\ cache[p].meta = meta

\* Mutant: a hit leaves the entry's age as it is.
UsedNotMarked(p, validatedAt) == [cache EXCEPT ![p].validatedAt = validatedAt]

\* take, after the check of a lookup: the entry is the last one used.
Used(p, validatedAt) == [cache EXCEPT ![p].used = clock'[ShardOf[p]], ![p].validatedAt = validatedAt]

\* lookup counts the shard's clock, whether it hits or not.
Lookup(p) == /\ clock[ShardOf[p]] < MaxLookups
             /\ clock' = [clock EXCEPT ![ShardOf[p]] = @ + 1]

-----------------------------------------------------------------------------
(* A request.                                                              *)

\* Mutant: a fresh hit renews the entry, so that a busy file is never checked.
GetFreshRenews(w, p) ==
  /\ req[w].pc = "idle"
  /\ Lookup(p)
  /\ \/ /\ Fresh(p)
        /\ cache' = Used(p, now)
        /\ req' = [req EXCEPT ![w] = Hit(w, p, "fresh")]
     \/ /\ ~Fresh(p)
        /\ req' = [req EXCEPT ![w].pc = "lstat", ![w].path = p]
        /\ UNCHANGED cache
  /\ UNCHANGED <<now, fsVars>>

\* open begins with get_fresh, which leaves validated_at as it is.
GetFresh(w, p) ==
  /\ req[w].pc = "idle"
  /\ Lookup(p)
  /\ \/ /\ Fresh(p)
        /\ cache' = Used(p, cache[p].validatedAt)
        /\ req' = [req EXCEPT ![w] = Hit(w, p, "fresh")]
     \/ /\ ~Fresh(p)
        /\ req' = [req EXCEPT ![w].pc = "lstat", ![w].path = p]
        /\ UNCHANGED cache
  /\ UNCHANGED <<now, fsVars>>

\* symlink_metadata: nothing there, not a regular file, or what get will check.
Lstat(w) ==
  /\ req[w].pc = "lstat"
  /\ LET g == at[req[w].path]
     IN  req' = [req EXCEPT ![w] =
                   IF g = None THEN [@ EXCEPT !.pc = "remove"]
                   ELSE IF ~file[g].regular THEN NotFound(w)
                   ELSE [@ EXCEPT !.pc = "get", !.seen = Meta(g), !.saw = g, !.since = now]]
  /\ UNCHANGED <<now, fsVars, cache, clock>>

Remove(w) ==
  /\ req[w].pc = "remove"
  /\ cache' = [cache EXCEPT ![req[w].path] = None]
  /\ req' = [req EXCEPT ![w] = NotFound(w)]
  /\ UNCHANGED <<now, fsVars, clock>>

\* get: a match is stamped with the present time.
Get(w) ==
  /\ req[w].pc = "get"
  /\ Lookup(req[w].path)
  /\ LET p == req[w].path
     IN  \/ /\ Matches(p, req[w].seen)
            /\ cache' = Used(p, now)
            /\ req' = [req EXCEPT ![w] = Hit(w, p, "validated")]
         \/ /\ ~Matches(p, req[w].seen)
            /\ req' = [req EXCEPT ![w].pc = "open"]
            /\ UNCHANGED cache
  /\ UNCHANGED <<now, fsVars>>

\* open_uncached opens what the path names by now, a directory too.  It may fail whatever that is
\* (a symbolic link, no permission, no descriptor left), and so may fd_meta.
Open(w) ==
  /\ req[w].pc = "open"
  /\ LET g == at[req[w].path]
     IN  \/ /\ g # None
            /\ req' = [req EXCEPT ![w].pc = "fstat", ![w].fd = g, ![w].since = now]
         \/ req' = [req EXCEPT ![w] = NotFound(w)]
  /\ UNCHANGED <<now, fsVars, cache, clock>>

\* Mutant: the metadata is taken from the lstat of the path.
FstatFromPath(w) ==
  /\ req[w].pc = "fstat"
  /\ req' = [req EXCEPT ![w].pc = "insert", ![w].meta = req[w].seen]
  /\ UNCHANGED <<now, fsVars, cache, clock>>

\* fd_meta: the metadata of the opened file itself.
Fstat(w) ==
  /\ req[w].pc = "fstat"
  /\ req' = [req EXCEPT ![w].pc = "insert", ![w].meta = Meta(req[w].fd)]
  /\ UNCHANGED <<now, fsVars, cache, clock>>

\* build_from_file_with_metadata reads the beginning of a file whose name does not say what it
\* is, and fails when the file has become shorter than fstat said, or is a directory: the answer
\* is an error, and nothing is kept.
BuildFails(w) ==
  /\ req[w].pc = "insert"
  /\ file[req[w].fd].attr # req[w].meta.attr \/ ~file[req[w].fd].regular
  /\ req' = [req EXCEPT ![w] = [NotFound(w) EXCEPT !.how = "error"]]
  /\ UNCHANGED <<now, fsVars, cache, clock>>

\* serve has written the response head; it keeps the file for the next request.
Insert(w) ==
  /\ req[w].pc = "insert"
  /\ LET p == req[w].path
         entry == [fd |-> req[w].fd, meta |-> req[w].meta,
                   used |-> clock[ShardOf[p]] + 1, validatedAt |-> now]
     IN  /\ Lookup(p)
         /\ cache' = [q \in Paths |-> IF q = p THEN entry
                                     ELSE IF Full(p) /\ q = Oldest(ShardOf[p]) THEN None
                                     ELSE cache[q]]
  /\ req' = [req EXCEPT ![w].pc = "done", ![w].since = now, ![w].how = "opened"]
  /\ UNCHANGED <<now, fsVars>>

\* The response is sent and its reference to the file dropped.
Finish(w) == /\ req[w].pc = "done"
             /\ req' = [req EXCEPT ![w] = Idle]
             /\ UNCHANGED <<now, fsVars, cache, clock>>

-----------------------------------------------------------------------------
Init ==
  /\ now = 0 /\ changes = 0
  /\ file = [g \in {Born[p] : p \in Paths} \ {None} |-> [ino |-> g, attr |-> 0, regular |-> TRUE]]
  /\ at = Born
  /\ history = {}
  /\ cache = [p \in Paths |-> None]
  /\ clock = [s \in Shards |-> 0]
  /\ req = [w \in Workers |-> Idle]

FileSystem == \E p \in Paths :
                \/ WriteInPlace(p) \/ Delete(p)
                \/ \E ino \in Inodes, attr \in 0..changes, regular \in BOOLEAN :
                     Replace(p, ino, attr, regular)

Request(w) == \/ \E p \in Paths : GetFresh(w, p)
              \/ Lstat(w) \/ Remove(w) \/ Get(w) \/ Open(w) \/ Fstat(w) \/ BuildFails(w) \/ Insert(w)
              \/ Finish(w)

Next == FileSystem \/ Tick \/ \E w \in Workers : Request(w)

Spec == Init /\ [][Next]_vars

-----------------------------------------------------------------------------
(* Properties.                                                             *)

\* The number of descriptors the cache keeps open has a hard limit, whatever
\* requests insert at the same time (CAPACITY_PER_SHARD).
FdBound == \A s \in Shards : Cardinality(InShard(s)) <= Capacity

\* A hit that get has validated is never older than what lstat saw: the
\* entry's descriptor pins its inode, so that no file that replaced it can have
\* the same inode number, size and time.  (It may be newer: between the lstat
\* and the lookup a third file may take all three over, and be cached.)
ValidatedIsNotOlder == \A w \in Workers : req[w].how = "validated" => req[w].fd >= req[w].saw

\* The version v is, or has been, what the path p names.
Named(p, v) ==
  \/ at[p] # None /\ v = Version(at[p])
  \/ \E h \in history : h[1] = p /\ h[2] = v

\* The file that a response sends and the metadata it is built from (its inode number, and the
\* size and time that make its length, ETag and Last-Modified) belong together: they are a
\* version that the path has named, never the file of one moment with the size or time that
\* lstat or fstat found of another.
MetaIsOfFile == \A w \in Workers : req[w].pc = "done" /\ req[w].fd # None =>
                  /\ req[w].meta.ino = file[req[w].fd].ino
                  /\ Named(req[w].path, <<req[w].fd, req[w].meta.attr>>)

\* How long ago the version of the answer of w was replaced, at most.
StaleFor(w, bound) ==
  \A h \in history : h[1] = req[w].path /\ h[2] = <<req[w].fd, req[w].meta.attr>>
                    => req[w].since - h[3] <= bound

\* A version of a file that was replaced, rewritten or deleted is served no
\* longer than the validity of a check and the duration of the request that
\* made it: hits do not prolong it.
BoundedStaleness == \A w \in Workers : req[w].pc = "done" /\ req[w].fd # None =>
                      StaleFor(w, Ttl - 1 + Stall)

\* What the documentation of FileCache and ServeFiles::open says: after a file
\* was rewritten, replaced or deleted, the old one is answered for at most
\* REVALIDATE_MILLIS.
DocumentedStaleness == \A w \in Workers : req[w].pc = "done" /\ req[w].fd # None =>
                         StaleFor(w, Ttl)
=============================================================================
