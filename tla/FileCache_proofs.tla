-------------------------- MODULE FileCache_proofs --------------------------
(***************************************************************************)
(* FdBound, ValidatedIsNotOlder, MetaIsOfFile and BoundedStaleness of      *)
(* FileCache, and that it implements LruShards, for any paths, workers,    *)
(* shards, capacity and times, and any number of changes other programs    *)
(* make.                                                                   *)
(***************************************************************************)
EXTENDS FileCacheLru, FiniteSetTheorems, WellFoundedInduction, TLAPS

Generations == 1..(MaxInode + changes)
Files == [ino : Inodes, attr : 0..changes, regular : BOOLEAN]
Requests ==
  [pc : {"idle", "lstat", "remove", "get", "open", "fstat", "insert", "done"},
   path : Paths \cup {None}, seen : Metas \cup {None}, saw : Nat \cup {None},
   fd : Nat \cup {None}, meta : Metas \cup {None}, since : Nat,
   how : {"none", "fresh", "validated", "opened", "not found", "error"}]

FsTypes ==
  /\ now \in Nat /\ changes \in Nat
  /\ DOMAIN file \subseteq Generations /\ file \in [DOMAIN file -> Files]
  /\ at \in [Paths -> DOMAIN file \cup {None}]
  /\ \A h \in history :
       h[1] \in Paths /\ h[2][1] \in DOMAIN file /\ h[2][2] \in Nat /\ h[3] \in Nat

\* What a path named before is over, older than what it names now, or another version of it.
Past ==
  \A h \in history :
    /\ h[3] <= now
    /\ at[h[1]] # None =>
         /\ h[2][1] <= at[h[1]]
         /\ h[2][1] = at[h[1]] => h[2][2] < file[at[h[1]]].attr

\* What is referred to keeps its inode number: no later file has it.
Pinned ==
  \A g \in Held \ {None} : \A later \in DOMAIN file : later > g => file[later].ino # file[g].ino

\* The stat of a request, or its opened file, is at most Stall old.
InTime(r) == r.since <= now /\ now - r.since <= Stall

\* After lstat: versions the path named before it are older than what lstat saw.
Seen(r) ==
  /\ r.saw \in DOMAIN file /\ r.seen \in Metas /\ r.seen.ino = file[r.saw].ino
  /\ InTime(r)
  /\ \A h \in history : h[1] = r.path /\ h[3] < r.since =>
       h[2][1] <= r.saw /\ (h[2][1] = r.saw => h[2][2] < r.seen.attr)

\* After open: versions of the file that the path named before it are not its present one.
Opened(r) ==
  /\ r.fd \in DOMAIN file
  /\ InTime(r)
  /\ \A h \in history : h[1] = r.path /\ h[2][1] = r.fd /\ h[3] < r.since =>
       h[2][2] < file[r.fd].attr

\* The version of a descriptor and its metadata was replaced no earlier than `ago` before `time`.
Recent(path, fd, meta, time, ago) ==
  \A h \in history : h[1] = path /\ h[2] = <<fd, meta.attr>> => time - h[3] <= ago

Described(r) == r.fd \in DOMAIN file /\ r.meta \in Metas /\ r.meta.ino = file[r.fd].ino

GoodRequest(r) ==
  /\ r \in Requests
  /\ r.fd # None => r.fd \in DOMAIN file
  /\ r.pc # "idle" => r.path \in Paths
  /\ r.pc # "done" => r.how = "none"
  /\ r.pc = "get" => Seen(r)
  /\ r.pc = "fstat" => Opened(r)
  /\ r.pc = "insert" => Described(r) /\ InTime(r) /\ Recent(r.path, r.fd, r.meta, r.since, 0)
  /\ r.pc = "done" /\ r.fd # None =>
       Described(r) /\ r.since <= now /\ Recent(r.path, r.fd, r.meta, r.since, Ttl - 1 + Stall)
  /\ r.how = "validated" => r.saw \in Nat /\ r.fd \in Nat /\ r.fd >= r.saw

GoodEntry(p, e) ==
  /\ e \in Entries
  /\ e.fd \in DOMAIN file /\ e.meta.ino = file[e.fd].ino
  /\ e.validatedAt <= now
  /\ Recent(p, e.fd, e.meta, e.validatedAt, Stall)

CacheTypes == cache \in [Paths -> Entries \cup {None}] /\ clock \in [Shards -> Nat]
GoodCache  == \A p \in Paths : cache[p] # None => GoodEntry(p, cache[p])

RequestTypes == req \in [Workers -> Requests]
GoodRequests == \A w \in Workers : GoodRequest(req[w])

Bounded == \A s \in Shards : IsFiniteSet(InShard(s)) /\ Cardinality(InShard(s)) <= Capacity

Inv == /\ FsTypes /\ Past /\ Pinned
       /\ CacheTypes /\ GoodCache
       /\ RequestTypes /\ GoodRequests
       /\ Bounded

-----------------------------------------------------------------------------
(* Other programs. *)

\* What any change to the files leaves as it was: files stay what they are, their attribute
\* grows, and what is added to the history happened now.
Grown ==
  /\ UNCHANGED <<now, cache, clock, req>>
  /\ DOMAIN file \subseteq DOMAIN file'
  /\ \A g \in DOMAIN file : file'[g].ino = file[g].ino /\ file'[g].attr >= file[g].attr
  /\ \A h \in history' : h \in history \/ h[3] = now

LEMMA VersionTypes ==
  ASSUME FsTypes, NEW p \in Paths, at[p] # None
  PROVE  /\ at[p] \in DOMAIN file /\ at[p] \in Nat /\ file[at[p]] \in Files
         /\ file[at[p]].attr \in 0..changes /\ file[at[p]].ino \in Inodes
         /\ file[at[p]].attr \in Nat
<1>1. at[p] \in DOMAIN file /\ at[p] \in Nat
  BY SizesAssumption DEF FsTypes, Generations
<1>2. file[at[p]] \in Files
  BY <1>1 DEF FsTypes
<1>3. file[at[p]].attr \in 0..changes /\ file[at[p]].ino \in Inodes /\ file[at[p]].attr \in Nat
  BY <1>2 DEF Files, FsTypes
<1> QED
  BY <1>1, <1>2, <1>3

LEMMA HeldExist ==
  ASSUME Inv
  PROVE  Held \ {None} \subseteq DOMAIN file
<1>1. \A p \in Paths : at[p] \in DOMAIN file \cup {None}
  BY DEF Inv, FsTypes
<1>2. \A p \in Paths : cache[p] # None => cache[p].fd \in DOMAIN file
  BY DEF Inv, GoodCache, GoodEntry
<1>3. \A w \in Workers : req[w].fd # None => req[w].fd \in DOMAIN file
  BY DEF Inv, GoodRequests, GoodRequest
<1> QED
  BY <1>1, <1>2, <1>3 DEF Held

LEMMA WriteInPlaceStep ==
  ASSUME Inv, NEW p \in Paths, WriteInPlace(p)
  PROVE  Grown /\ FsTypes' /\ Past' /\ Pinned'
<1> USE DEF Inv
<1> DEFINE g == at[p]
           gone == <<p, <<g, file[g].attr>>, now>>
<1>1. /\ changes' = changes + 1 /\ g # None
      /\ file' = [file EXCEPT ![g].attr = changes + 1]
      /\ history' = history \cup {gone}
      /\ UNCHANGED <<now, at, cache, clock, req>>
  BY DEF WriteInPlace, Gone, Version
<1>2. /\ g \in DOMAIN file /\ g \in Nat /\ file[g] \in Files /\ file[g].attr \in 0..changes
      /\ changes \in Nat /\ now \in Nat
  BY <1>1, VersionTypes DEF FsTypes
<1>3. /\ DOMAIN file' = DOMAIN file
      /\ \A k \in DOMAIN file : k # g => file'[k] = file[k]
      /\ file'[g] = [file[g] EXCEPT !.attr = changes + 1]
  BY <1>1, <1>2
<1>4. /\ file'[g].ino = file[g].ino /\ file'[g].attr = changes + 1
      /\ file'[g].regular = file[g].regular
      /\ file'[g] \in [ino : Inodes, attr : 0..(changes + 1), regular : BOOLEAN]
  BY <1>2, <1>3 DEF Files
<1>5. \A k \in DOMAIN file : file[k] \in Files /\ file[k].attr \in 0..changes
  BY DEF FsTypes, Files
<1>6. gone[1] = p /\ gone[2][1] = g /\ gone[2][2] = file[g].attr /\ gone[3] = now
  OBVIOUS
<1> HIDE DEF g, gone
<1>7. Grown
  <2>1. \A k \in DOMAIN file : file'[k].ino = file[k].ino /\ file'[k].attr >= file[k].attr
    <3> SUFFICES ASSUME NEW k \in DOMAIN file
                 PROVE  file'[k].ino = file[k].ino /\ file'[k].attr >= file[k].attr
      OBVIOUS
    <3>1. CASE k = g
      BY <3>1, <1>2, <1>4
    <3>2. CASE k # g
      BY <3>2, <1>3, <1>5
    <3> QED
      BY <3>1, <3>2
  <2> QED
    BY <2>1, <1>1, <1>3, <1>6 DEF Grown
<1>8. FsTypes'
  <2>1. file' \in [DOMAIN file' -> Files']
    <3>1. Files' = [ino : Inodes, attr : 0..(changes + 1), regular : BOOLEAN]
      BY <1>1 DEF Files
    <3>2. ASSUME NEW k \in DOMAIN file PROVE file'[k] \in Files'
      <4>1. CASE k = g
        BY <4>1, <3>1, <1>4
      <4>2. CASE k # g
        <5>1. file'[k] = file[k]
          BY <4>2, <1>3
        <5>2. file[k] \in [ino : Inodes, attr : 0..changes, regular : BOOLEAN]
          BY <1>5 DEF Files
        <5>3. 0..changes \subseteq 0..(changes + 1)
          BY <1>2
        <5> QED
          BY <5>1, <5>2, <5>3, <3>1
      <4> QED
        BY <4>1, <4>2
    <3>3. file' = [k \in DOMAIN file' |-> file'[k]]
      BY <1>1 DEF FsTypes
    <3> QED
      BY <3>2, <3>3, <1>3
  <2>2. DOMAIN file' \subseteq Generations' /\ changes' \in Nat
    BY <1>1, <1>2, <1>3, SizesAssumption DEF FsTypes, Generations
  <2>3. \A h \in history' :
          h[1] \in Paths /\ h[2][1] \in DOMAIN file /\ h[2][2] \in Nat /\ h[3] \in Nat
    BY <1>1, <1>2, <1>6 DEF FsTypes
  <2>4. now' \in Nat /\ at' \in [Paths -> DOMAIN file' \cup {None}]
    BY <1>1, <1>3 DEF FsTypes
  <2> QED
    BY <2>1, <2>2, <2>3, <2>4, <1>3 DEF FsTypes
<1>9. Past'
  <2> SUFFICES ASSUME NEW h \in history'
               PROVE  /\ h[3] <= now
                      /\ at[h[1]] # None =>
                           /\ h[2][1] <= at[h[1]]
                           /\ h[2][1] = at[h[1]] => h[2][2] < file'[at[h[1]]].attr
    BY <1>1 DEF Past
  <2>1. CASE h = gone
    BY <2>1, <1>2, <1>4, <1>6 DEF g
  <2>2. CASE h \in history
    <3>1. h[1] \in Paths /\ h[2][1] \in Nat /\ h[2][2] \in Nat /\ h[3] \in Nat
      BY <2>2, SizesAssumption DEF FsTypes, Generations
    <3>2. ASSUME at[h[1]] # None
          PROVE  /\ at[h[1]] \in DOMAIN file /\ file[at[h[1]]].attr \in 0..changes
                 /\ file'[at[h[1]]].attr \in Int
                 /\ file'[at[h[1]]].attr >= file[at[h[1]]].attr
      <4>1. at[h[1]] \in DOMAIN file /\ file[at[h[1]]].attr \in 0..changes
        BY <3>1, <3>2, VersionTypes
      <4>2. CASE at[h[1]] = g
        BY <4>1, <4>2, <1>2, <1>4
      <4>3. CASE at[h[1]] # g
        BY <4>1, <4>3, <1>2, <1>3
      <4> QED
        BY <4>1, <4>2, <4>3
    <3>3. /\ h[3] <= now
          /\ at[h[1]] # None =>
               /\ h[2][1] <= at[h[1]]
               /\ h[2][1] = at[h[1]] => h[2][2] < file[at[h[1]]].attr
      BY <2>2 DEF Past
    <3> QED
      BY <3>1, <3>2, <3>3, <1>2
  <2> QED
    BY <2>1, <2>2, <1>1
<1>10. Pinned'
  <2>1. Held' = Held
    BY <1>1 DEF Held
  <2>2. \A k \in DOMAIN file : file'[k].ino = file[k].ino
    BY <1>7 DEF Grown
  <2>3. Held \ {None} \subseteq DOMAIN file
    BY HeldExist
  <2> QED
    BY <2>1, <2>2, <2>3, <1>3 DEF Pinned
<1> QED
  BY <1>7, <1>8, <1>9, <1>10

\* What a path named until now, added to the history.
LEMMA GoneFacts ==
  ASSUME Inv, NEW p \in Paths, NEW h \in Gone(p)
  PROVE  /\ at[p] # None
         /\ h[1] = p /\ h[2][1] = at[p] /\ h[2][2] = file[at[p]].attr /\ h[3] = now
<1>1. at[p] # None /\ h = <<p, <<at[p], file[at[p]].attr>>, now>>
  BY DEF Gone, Version
<1> QED
  BY <1>1

LEMMA ReplaceStep ==
  ASSUME Inv, NEW p \in Paths, NEW ino \in Inodes, NEW attr \in 0..changes, NEW regular \in BOOLEAN,
         Replace(p, ino, attr, regular)
  PROVE  Grown /\ FsTypes' /\ Past' /\ Pinned'
<1> USE DEF Inv
<1> DEFINE new == MaxInode + changes + 1
           born == [ino |-> ino, attr |-> attr, regular |-> regular]
<1>1. /\ changes' = changes + 1 /\ ino \notin TakenInodes
      /\ file' = [g \in DOMAIN file \cup {new} |-> IF g = new THEN born ELSE file[g]]
      /\ at' = [at EXCEPT ![p] = new]
      /\ history' = history \cup Gone(p)
      /\ UNCHANGED <<now, cache, clock, req>>
  <2>1. changes \in Nat /\ MaxInode \in Nat /\ changes' = changes + 1
    BY SizesAssumption DEF FsTypes, Replace
  <2>2. MaxInode + changes' = new
    BY <2>1
  <2> QED
    BY <2>1, <2>2 DEF Replace
<1>2. /\ changes \in Nat /\ now \in Nat /\ MaxInode \in Nat /\ new \in Nat
      /\ \A g \in DOMAIN file : g \in Nat /\ g < new /\ file[g] \in Files
  BY SizesAssumption DEF FsTypes, Generations
<1>3. /\ new \notin DOMAIN file /\ DOMAIN file' = DOMAIN file \cup {new}
      /\ \A g \in DOMAIN file : file'[g] = file[g]
      /\ file'[new] = born /\ born.ino = ino /\ born.attr = attr
  BY <1>1, <1>2
<1>4. /\ at'[p] = new /\ \A q \in Paths : q # p => at'[q] = at[q]
      /\ at' \in [Paths -> DOMAIN file' \cup {None}]
  BY <1>1, <1>3 DEF FsTypes
<1>5. \A g \in DOMAIN file : file[g].attr \in 0..changes /\ file[g].attr \in Nat
  BY <1>2 DEF Files
<1>6. ASSUME NEW h \in history'
      PROVE  /\ h[1] \in Paths /\ h[2][1] \in DOMAIN file /\ h[2][2] \in Nat /\ h[3] \in Nat
             /\ h[3] <= now /\ (h \in history \/ h[3] = now)
  <2>1. CASE h \in history
    BY <2>1 DEF FsTypes, Past
  <2>2. CASE h \in Gone(p)
    BY <2>2, <1>2, <1>5, GoneFacts, VersionTypes
  <2> QED
    BY <2>1, <2>2, <1>1
<1> HIDE DEF new, born
<1>7. Grown
  BY <1>1, <1>3, <1>5, <1>6 DEF Grown
<1>8. FsTypes'
  <2>1. file' \in [DOMAIN file' -> Files']
    <3>1. Files' = [ino : Inodes, attr : 0..(changes + 1), regular : BOOLEAN]
      BY <1>1 DEF Files
    <3>2. 0..changes \subseteq 0..(changes + 1)
      BY <1>2
    <3>3. ASSUME NEW g \in DOMAIN file PROVE file'[g] \in Files'
      BY <3>1, <3>2, <1>2, <1>3 DEF Files
    <3>4. file'[new] \in Files'
      BY <3>1, <3>2, <1>3 DEF born
    <3>5. file' = [g \in DOMAIN file' |-> file'[g]]
      BY <1>1
    <3> QED
      BY <3>3, <3>4, <3>5, <1>3
  <2>2. DOMAIN file' \subseteq Generations' /\ changes' \in Nat /\ now' \in Nat
    BY <1>1, <1>2, <1>3 DEF FsTypes, Generations, new
  <2> QED
    BY <2>1, <2>2, <1>3, <1>4, <1>6 DEF FsTypes
<1>9. Past'
  <2> SUFFICES ASSUME NEW h \in history'
               PROVE  /\ h[3] <= now
                      /\ at'[h[1]] # None =>
                           /\ h[2][1] <= at'[h[1]]
                           /\ h[2][1] = at'[h[1]] => h[2][2] < file'[at'[h[1]]].attr
    BY <1>1 DEF Past
  <2>1. CASE h[1] = p
    BY <2>1, <1>2, <1>4, <1>6
  <2>2. CASE h[1] # p
    <3>1. h \in history
      BY <2>2, <1>1, GoneFacts
    <3>2. at'[h[1]] = at[h[1]]
      BY <2>2, <1>4, <1>6
    <3>3. at[h[1]] # None => file'[at[h[1]]] = file[at[h[1]]]
      BY <1>3, <1>6, VersionTypes
    <3> QED
      BY <3>1, <3>2, <3>3, <1>6 DEF Past
  <2> QED
    BY <2>1, <2>2
<1>10. Pinned'
  <2>1. Held' \subseteq Held \cup {new}
    BY <1>1, <1>4 DEF Held
  <2>2. Held \ {None} \subseteq DOMAIN file
    BY HeldExist
  <2>3. ASSUME NEW g \in Held \ {None} PROVE file[g].ino # ino
    BY <2>3, <1>1 DEF TakenInodes
  <2> SUFFICES ASSUME NEW g \in Held' \ {None}, NEW later \in DOMAIN file', later > g
               PROVE  file'[later].ino # file'[g].ino
    BY DEF Pinned
  <2>4. CASE g = new
    BY <2>4, <1>2, <1>3
  <2>5. CASE g \in Held
    <3>1. g \in DOMAIN file /\ file'[g] = file[g]
      BY <2>2, <2>5, <1>3
    <3>2. CASE later = new
      BY <3>1, <3>2, <2>3, <2>5, <1>3
    <3>3. CASE later \in DOMAIN file
      BY <3>1, <3>3, <2>5, <1>3 DEF Pinned
    <3> QED
      BY <3>2, <3>3, <1>3
  <2> QED
    BY <2>1, <2>4, <2>5
<1> QED
  BY <1>7, <1>8, <1>9, <1>10

LEMMA DeleteStep ==
  ASSUME Inv, NEW p \in Paths, Delete(p)
  PROVE  Grown /\ FsTypes' /\ Past' /\ Pinned'
<1> USE DEF Inv
<1>1. /\ changes' = changes + 1
      /\ at' = [at EXCEPT ![p] = None]
      /\ history' = history \cup Gone(p)
      /\ UNCHANGED <<now, file, cache, clock, req>>
  BY DEF Delete
<1>2. /\ changes \in Nat /\ now \in Nat /\ MaxInode \in Nat
      /\ \A g \in DOMAIN file : file[g].attr \in Nat /\ file[g] \in Files
  BY SizesAssumption DEF FsTypes, Files
<1>3. /\ at'[p] = None /\ \A q \in Paths : q # p => at'[q] = at[q]
      /\ at' \in [Paths -> DOMAIN file \cup {None}]
  BY <1>1 DEF FsTypes
<1>4. ASSUME NEW h \in history'
      PROVE  /\ h[1] \in Paths /\ h[2][1] \in DOMAIN file /\ h[2][2] \in Nat /\ h[3] \in Nat
             /\ h[3] <= now /\ (h \in history \/ h[3] = now)
  <2>1. CASE h \in history
    BY <2>1 DEF FsTypes, Past
  <2>2. CASE h \in Gone(p)
    BY <2>2, <1>2, GoneFacts, VersionTypes
  <2> QED
    BY <2>1, <2>2, <1>1
<1>5. Grown
  BY <1>1, <1>2, <1>4 DEF Grown
<1>6. FsTypes'
  <2>1. 0..changes \subseteq 0..(changes + 1) /\ changes' \in Nat
    BY <1>1, <1>2
  <2>2. file' \in [DOMAIN file' -> Files'] /\ DOMAIN file' \subseteq Generations'
    <3>1. Files \subseteq Files'
      BY <2>1, <1>1 DEF Files
    <3>2. Generations \subseteq Generations'
      BY <1>1, <1>2 DEF Generations
    <3> QED
      BY <3>1, <3>2, <1>1, <1>2 DEF FsTypes
  <2> QED
    BY <2>1, <2>2, <1>1, <1>3, <1>4 DEF FsTypes
<1>7. Past'
  <2> SUFFICES ASSUME NEW h \in history'
               PROVE  /\ h[3] <= now
                      /\ at'[h[1]] # None =>
                           /\ h[2][1] <= at'[h[1]]
                           /\ h[2][1] = at'[h[1]] => h[2][2] < file[at'[h[1]]].attr
    BY <1>1 DEF Past
  <2>1. CASE h[1] = p
    BY <2>1, <1>3, <1>4
  <2>2. CASE h[1] # p
    <3>1. h \in history /\ at'[h[1]] = at[h[1]]
      BY <2>2, <1>1, <1>3, <1>4, GoneFacts
    <3> QED
      BY <3>1, <1>4 DEF Past
  <2> QED
    BY <2>1, <2>2
<1>8. Pinned'
  <2>1. Held' \subseteq Held \cup {None}
    BY <1>1, <1>3 DEF Held
  <2> QED
    BY <2>1, <1>1 DEF Pinned
<1> QED
  BY <1>5, <1>6, <1>7, <1>8

\* What holds of a request or of an entry holds on while the files change ...
LEMMA RecentGrown ==
  ASSUME Inv, Grown, NEW path, NEW fd, NEW meta, NEW time \in Nat, NEW ago \in Nat, time <= now,
         Recent(path, fd, meta, time, ago)
  PROVE  Recent(path, fd, meta, time, ago)'
<1>1. now \in Nat
  BY DEF Inv, FsTypes
<1> QED
  BY <1>1 DEF Grown, Recent

LEMMA RequestGrown ==
  ASSUME Inv, Grown, FsTypes', NEW r, GoodRequest(r)
  PROVE  GoodRequest(r)'
<1>1. now \in Nat /\ now' = now /\ Stall \in Nat /\ Ttl - 1 + Stall \in Nat
  <2>1. now \in Nat /\ now' = now
    BY DEF Inv, FsTypes, Grown
  <2>2. Stall \in Nat /\ Ttl \in Nat \ {0}
    BY SizesAssumption
  <2> QED
    BY <2>1, <2>2
<1>2. r \in Requests /\ r.since \in Nat
  BY DEF GoodRequest, Requests
<1>3. /\ DOMAIN file \subseteq DOMAIN file'
      /\ \A g \in DOMAIN file : file'[g].ino = file[g].ino /\ file'[g].attr >= file[g].attr
      /\ \A h \in history' : h \in history \/ h[3] = now
  BY DEF Grown
<1>4. \A g \in DOMAIN file : file[g].attr \in Nat /\ file'[g].attr \in Nat
  <2>1. \A g \in DOMAIN file : file[g] \in Files /\ file'[g] \in Files'
    BY <1>3 DEF Inv, FsTypes
  <2>2. Files \subseteq [ino : Inodes, attr : Nat, regular : BOOLEAN]
    BY DEF Files, Inv, FsTypes
  <2>3. Files' \subseteq [ino : Inodes, attr : Nat, regular : BOOLEAN]
    BY DEF Files, FsTypes
  <2> QED
    BY <2>1, <2>2, <2>3
<1>5. ASSUME Seen(r) PROVE Seen(r)'
  BY <1>1, <1>2, <1>3, <1>5 DEF Seen, InTime
<1>6. ASSUME Opened(r) PROVE Opened(r)'
  <2>1. r.fd \in DOMAIN file' /\ InTime(r)'
    BY <1>1, <1>3, <1>6 DEF Opened, InTime
  <2>2. ASSUME NEW h \in history', h[1] = r.path, h[2][1] = r.fd, h[3] < r.since
        PROVE  h[2][2] < file'[r.fd].attr
    <3>1. h \in history
      BY <2>2, <1>1, <1>2, <1>3, <1>6 DEF Opened, InTime
    <3>2. h[2][2] \in Nat /\ h[2][2] < file[r.fd].attr /\ r.fd \in DOMAIN file
      BY <2>2, <3>1, <1>6 DEF Opened, Inv, FsTypes
    <3> QED
      BY <3>2, <1>3, <1>4
  <2> QED
    BY <2>1, <2>2 DEF Opened
<1>7. ASSUME Described(r) PROVE Described(r)'
  BY <1>3, <1>7 DEF Described
<1>8. ASSUME NEW ago \in Nat, r.since <= now, Recent(r.path, r.fd, r.meta, r.since, ago)
      PROVE  Recent(r.path, r.fd, r.meta, r.since, ago)'
  BY <1>2, <1>8, RecentGrown
<1>9. InTime(r) => r.since <= now /\ InTime(r)'
  BY <1>1 DEF InTime
<1>10. r.fd # None => r.fd \in DOMAIN file'
  BY <1>3 DEF GoodRequest
<1>11. r.pc = "insert" => Described(r)' /\ InTime(r)' /\ Recent(r.path, r.fd, r.meta, r.since, 0)'
  BY <1>7, <1>8, <1>9 DEF GoodRequest
<1>12. r.pc = "done" /\ r.fd # None =>
         Described(r)' /\ r.since <= now' /\ Recent(r.path, r.fd, r.meta, r.since, Ttl - 1 + Stall)'
  BY <1>1, <1>7, <1>8 DEF GoodRequest
<1> QED
  BY <1>5, <1>6, <1>10, <1>11, <1>12 DEF GoodRequest

LEMMA EntryGrown ==
  ASSUME Inv, Grown, NEW p, NEW e, GoodEntry(p, e)
  PROVE  GoodEntry(p, e)'
<1>1. Stall \in Nat /\ e.validatedAt \in Nat /\ e.validatedAt <= now
  BY SizesAssumption DEF GoodEntry, Entries
<1>2. Recent(p, e.fd, e.meta, e.validatedAt, Stall)'
  BY <1>1, RecentGrown DEF GoodEntry
<1> QED
  BY <1>1, <1>2 DEF GoodEntry, Grown

\* The invariant on the requests' and the cache's side, when neither changes.
LEMMA SameRequests ==
  ASSUME Inv, UNCHANGED req, \A r : GoodRequest(r) => GoodRequest(r)'
  PROVE  RequestTypes' /\ GoodRequests'
<1>1. RequestTypes'
  BY DEF Inv, RequestTypes
<1>2. ASSUME NEW w \in Workers PROVE GoodRequest(req[w])'
  <2>1. PICK r : r = req[w]
    OBVIOUS
  <2>2. req'[w] = r /\ GoodRequest(r)'
    BY <2>1 DEF Inv, GoodRequests
  <2> QED
    BY <2>2
<1> QED
  BY <1>1, <1>2 DEF GoodRequests

LEMMA SameCache ==
  ASSUME Inv, UNCHANGED <<cache, clock>>, \A p, e : GoodEntry(p, e) => GoodEntry(p, e)'
  PROVE  CacheTypes' /\ GoodCache' /\ Bounded'
<1>1. CacheTypes' /\ Bounded'
  BY DEF Inv, CacheTypes, Bounded, InShard
<1>2. ASSUME NEW p \in Paths, cache'[p] # None PROVE GoodEntry(p, cache[p])'
  <2>1. PICK e : e = cache[p]
    OBVIOUS
  <2>2. cache'[p] = e /\ GoodEntry(p, e)'
    BY <2>1, <1>2 DEF Inv, GoodCache
  <2> QED
    BY <2>2
<1> QED
  BY <1>1, <1>2 DEF GoodCache

LEMMA FileSystemStep == ASSUME Inv, FileSystem PROVE Inv'
<1>1. Grown /\ FsTypes' /\ Past' /\ Pinned'
  BY WriteInPlaceStep, ReplaceStep, DeleteStep DEF FileSystem
<1>2. RequestTypes' /\ GoodRequests'
  BY <1>1, RequestGrown, SameRequests DEF Grown
<1>3. CacheTypes' /\ GoodCache' /\ Bounded'
  BY <1>1, EntryGrown, SameCache DEF Grown
<1> QED
  BY <1>1, <1>2, <1>3 DEF Inv

\* ... and while time passes, which waits for no request longer than Stall.
LEMMA TickStep == ASSUME Inv, Tick PROVE Inv'
<1>1. /\ now \in Nat /\ now' = now + 1 /\ Stall \in Nat
      /\ UNCHANGED <<fsVars, cache, clock, req>>
      /\ UNCHANGED <<changes, file, at, history>>
  BY SizesAssumption DEF Inv, FsTypes, Tick, fsVars
<1>2. FsTypes' /\ Past' /\ Pinned'
  <2>1. FsTypes'
    BY <1>1 DEF Inv, FsTypes, Generations, Files
  <2>2. Past'
    BY <1>1 DEF Inv, Past, FsTypes
  <2>3. Pinned'
    BY <1>1 DEF Inv, Pinned, Held
  <2> QED
    BY <2>1, <2>2, <2>3
<1>3. CacheTypes' /\ GoodCache' /\ Bounded'
  <2>1. ASSUME NEW p, NEW e, GoodEntry(p, e) PROVE GoodEntry(p, e)'
    <3>1. e.validatedAt \in Nat
      BY <2>1 DEF GoodEntry, Entries
    <3> QED
      BY <1>1, <2>1, <3>1 DEF GoodEntry, Recent
  <2> QED
    BY <2>1, <1>1, SameCache
<1>4. RequestTypes' /\ GoodRequests'
  <2>1. ASSUME NEW w \in Workers PROVE GoodRequest(req[w])'
    <3>1. PICK r : r = req[w]
      OBVIOUS
    <3>2. GoodRequest(r) /\ r.since \in Nat /\ req'[w] = r
      BY <3>1, <1>1 DEF Inv, GoodRequests, GoodRequest, Requests
    <3>3. r.pc \in {"get", "fstat", "insert"} => now - r.since < Stall
      BY <3>1 DEF Tick
    <3>4. InTime(r) /\ r.pc \in {"get", "fstat", "insert"} => InTime(r)'
      BY <3>2, <3>3, <1>1 DEF InTime
    <3>5. r.pc = "get" => Seen(r)'
      BY <3>2, <3>4, <1>1 DEF GoodRequest, Seen
    <3>6. r.pc = "fstat" => Opened(r)'
      BY <3>2, <3>4, <1>1 DEF GoodRequest, Opened
    <3>7. r.pc = "insert" => Described(r)' /\ InTime(r)' /\ Recent(r.path, r.fd, r.meta, r.since, 0)'
      BY <3>2, <3>4, <1>1 DEF GoodRequest, Described, Recent
    <3>8. r.pc = "done" /\ r.fd # None =>
            Described(r)' /\ r.since <= now' /\ Recent(r.path, r.fd, r.meta, r.since, Ttl - 1 + Stall)'
      BY <3>2, <1>1 DEF GoodRequest, Described, Recent
    <3>9. GoodRequest(r)'
      BY <3>2, <3>5, <3>6, <3>7, <3>8, <1>1 DEF GoodRequest
    <3> QED
      BY <3>2, <3>9
  <2> QED
    BY <2>1, <1>1 DEF Inv, RequestTypes, GoodRequests
<1> QED
  BY <1>2, <1>3, <1>4 DEF Inv

-----------------------------------------------------------------------------
(* Requests: each changes its own record, and the cache.                   *)

\* The smallest of a set of numbers.
LEMMA Minimum ==
  ASSUME NEW V, V \subseteq Nat, V # {}
  PROVE  \E m \in V : \A n \in V : m <= n
<1> DEFINE T == {0..k : k \in V}
<1>1. \A k \in V : IsFiniteSet(0..k) /\ 0..k \subseteq Nat
  BY 0 \in Int, FS_Interval
<1>2. \A k \in V : 0..k \in FiniteSubsetsOf(Nat)
  BY <1>1 DEF FiniteSubsetsOf
<1>3. T \subseteq FiniteSubsetsOf(Nat) /\ T # {}
  BY <1>2
<1> HIDE DEF T
<1>4. PICK x \in T : \A y \in T : <<y, x>> \notin StrictSubsetOrdering(Nat)
  BY <1>3, FS_StrictSubsetOrderingWellFounded, WFMin
<1>5. PICK m \in V : x = 0..m
  BY <1>4 DEF T
<1>6. ASSUME NEW n \in V, n < m PROVE FALSE
  <2>1. 0..n \in T /\ 0..n \subseteq 0..m /\ m \in 0..m /\ m \notin 0..n
    BY <1>6 DEF T
  <2>2. <<0..n, 0..m>> \in StrictSubsetOrdering(Nat)
    BY <2>1 DEF StrictSubsetOrdering
  <2> QED
    BY <2>1, <2>2, <1>4, <1>5
<1> QED
  BY <1>6

\* A shard that is not empty has an oldest entry.
LEMMA OldestIsInShard ==
  ASSUME Inv, NEW s \in Shards, InShard(s) # {}
  PROVE  Oldest(s) \in InShard(s)
<1> DEFINE V == {cache[p].used : p \in InShard(s)}
<1>1. \A p \in InShard(s) : cache[p].used \in Nat
  BY DEF Inv, GoodCache, GoodEntry, Entries, InShard
<1>2. V \subseteq Nat /\ V # {}
  BY <1>1
<1> HIDE DEF V
<1>3. PICK m \in V : \A n \in V : m <= n
  BY <1>2, Minimum
<1>4. \E p \in InShard(s) : \A q \in InShard(s) : cache[p].used <= cache[q].used
  BY <1>3 DEF V
<1> QED
  BY <1>4 DEF Oldest

\* The parts of the invariant that say what an entry is, and the bound.
CacheInv == CacheTypes /\ GoodCache /\ Bounded

\* A step of a request that leaves the files and time alone: its new record, the new cache.
LEMMA RequestStep ==
  ASSUME Inv, NEW w \in Workers, NEW r, GoodRequest(r), r.fd \in Held \cup {None},
         req' = [req EXCEPT ![w] = r], UNCHANGED <<now, fsVars>>,
         CacheInv', \A p \in Paths : cache'[p] # None => cache'[p].fd \in Held
  PROVE  Inv'
<1>1. UNCHANGED <<now, changes, file, at, history>>
  BY DEF fsVars
<1>2. FsTypes' /\ Past'
  BY <1>1 DEF Inv, FsTypes, Past, Generations, Files
<1>3. /\ req'[w] = r /\ \A v \in Workers : v # w => req'[v] = req[v]
      /\ req' \in [Workers -> Requests]
  BY DEF Inv, RequestTypes, GoodRequest
<1>4. Pinned'
  <2>1. \A v \in Workers : req'[v].fd \in Held \cup {None}
    BY <1>3 DEF Held
  <2>2. Held' \subseteq Held \cup {None}
    BY <2>1, <1>1 DEF Held
  <2> QED
    BY <2>2, <1>1 DEF Inv, Pinned
<1>5. ASSUME NEW x, GoodRequest(x) PROVE GoodRequest(x)'
  BY <1>1, <1>5 DEF GoodRequest, Seen, Opened, Described, Recent, InTime
<1>6. GoodRequests'
  <2>1. ASSUME NEW v \in Workers PROVE GoodRequest(req[v])'
    <3>1. PICK x : x = req'[v]
      OBVIOUS
    <3>2. GoodRequest(x)
      BY <3>1, <1>3 DEF Inv, GoodRequests
    <3>3. GoodRequest(x)'
      BY <3>2, <1>5
    <3> QED
      BY <3>1, <3>3
  <2> QED
    BY <2>1 DEF GoodRequests
<1> QED
  BY <1>2, <1>3, <1>4, <1>6 DEF Inv, RequestTypes, CacheInv

\* A cache whose entries are good now, and whose shards hold no more paths than they did.
LEMMA CacheStep ==
  ASSUME Inv, UNCHANGED <<now, fsVars>>, cache' \in [Paths -> Entries \cup {None}],
         clock' \in [Shards -> Nat],
         \A p \in Paths : cache'[p] # None => GoodEntry(p, cache'[p]) /\ cache[p] # None
  PROVE  CacheInv'
<1>1. UNCHANGED <<now, changes, file, at, history>>
  BY DEF fsVars
<1>2. ASSUME NEW p \in Paths, cache'[p] # None PROVE GoodEntry(p, cache[p])'
  <2>1. PICK e : e = cache'[p]
    OBVIOUS
  <2>2. GoodEntry(p, e)
    BY <1>2, <2>1
  <2>3. GoodEntry(p, e)'
    BY <2>2, <1>1 DEF GoodEntry, Recent
  <2> QED
    BY <2>1, <2>3
<1>3. ASSUME NEW s \in Shards
      PROVE  IsFiniteSet(InShard(s))' /\ (Cardinality(InShard(s)) <= Capacity)'
  <2>1. InShard(s)' \subseteq InShard(s)
    BY DEF InShard
  <2>2. IsFiniteSet(InShard(s)) /\ Cardinality(InShard(s)) <= Capacity
    BY DEF Inv, Bounded
  <2>3. /\ IsFiniteSet(InShard(s)') /\ Cardinality(InShard(s)') <= Cardinality(InShard(s))
        /\ Cardinality(InShard(s)) \in Nat /\ Cardinality(InShard(s)') \in Nat
    BY <2>1, <2>2, FS_Subset, FS_CardinalityType
  <2> QED
    BY <2>2, <2>3, SizesAssumption
<1> QED
  BY <1>2, <1>3 DEF CacheInv, CacheTypes, GoodCache, Bounded

LEMMA SameCacheStep ==
  ASSUME Inv, UNCHANGED <<now, fsVars, cache>>, clock' \in [Shards -> Nat]
  PROVE  CacheInv' /\ \A p \in Paths : cache'[p] # None => cache'[p].fd \in Held
<1>1. CacheInv'
  BY CacheStep DEF Inv, CacheTypes, GoodCache
<1> QED
  BY <1>1 DEF Held

\* A lookup that hits.
LEMMA UsedStep ==
  ASSUME Inv, UNCHANGED <<now, fsVars>>, NEW p \in Paths, cache[p] # None, Lookup(p),
         NEW v \in Nat, v <= now, Recent(p, cache[p].fd, cache[p].meta, v, Stall),
         cache' = Used(p, v)
  PROVE  CacheInv' /\ \A q \in Paths : cache'[q] # None => cache'[q].fd \in Held
<1>1. clock' \in [Shards -> Nat] /\ clock'[ShardOf[p]] \in Nat
  BY ShardsAssumption DEF Lookup, Inv, CacheTypes
<1>2. PICK old \in Entries : old = cache[p] /\ GoodEntry(p, old)
  BY DEF Inv, GoodCache, GoodEntry
<1> DEFINE entry == [old EXCEPT !.used = clock'[ShardOf[p]], !.validatedAt = v]
<1>3. /\ entry \in Entries /\ entry.fd = old.fd /\ entry.meta = old.meta /\ entry.validatedAt = v
  BY <1>1 DEF Entries
<1>4. cache' = [cache EXCEPT ![p] = entry]
  BY <1>2 DEF Used, Inv, CacheTypes
<1> HIDE DEF entry
<1>5. GoodEntry(p, entry)
  BY <1>2, <1>3 DEF GoodEntry
<1>6. /\ cache'[p] = entry /\ \A q \in Paths : q # p => cache'[q] = cache[q]
      /\ cache' \in [Paths -> Entries \cup {None}]
  BY <1>3, <1>4 DEF Inv, CacheTypes
<1>7. CacheInv'
  BY <1>1, <1>5, <1>6, CacheStep DEF Inv, GoodCache
<1>8. ASSUME NEW q \in Paths, cache'[q] # None PROVE cache'[q].fd \in Held
  BY <1>2, <1>3, <1>6, <1>8 DEF Held
<1> QED
  BY <1>7, <1>8

\* A hit answers from an entry: what its descriptor and metadata are, the answer's are.
LEMMA HitIsGood ==
  ASSUME Inv, NEW w \in Workers, NEW p \in Paths, cache[p] # None, NEW how \in {"fresh", "validated"},
         Recent(p, cache[p].fd, cache[p].meta, now, Ttl - 1 + Stall),
         how = "validated" => req[w].saw \in Nat /\ cache[p].fd >= req[w].saw
  PROVE  GoodRequest(Hit(w, p, how)) /\ Hit(w, p, how).fd \in Held
<1>1. PICK old \in Requests : old = req[w]
  BY DEF Inv, RequestTypes
<1>2. PICK e \in Entries : e = cache[p] /\ GoodEntry(p, e)
  BY DEF Inv, GoodCache, GoodEntry
<1>5. e.fd \in Nat /\ e.fd \in DOMAIN file /\ e.meta \in Metas /\ now \in Nat
  BY <1>2 DEF GoodEntry, Entries, Inv, FsTypes
<1> DEFINE r == [old EXCEPT !.pc = "done", !.path = p, !.fd = e.fd, !.meta = e.meta,
                            !.since = now, !.how = how]
<1>3. Hit(w, p, how) = r
  BY <1>1, <1>2 DEF Hit
<1>4. /\ r \in Requests /\ r.pc = "done" /\ r.path = p /\ r.fd = e.fd /\ r.meta = e.meta
      /\ r.since = now /\ r.how = how /\ r.saw = old.saw
  BY <1>5 DEF Requests
<1> HIDE DEF r
<1>6. GoodRequest(r)
  BY <1>1, <1>2, <1>4, <1>5 DEF GoodRequest, GoodEntry, Described
<1>7. r.fd \in Held
  BY <1>2, <1>4 DEF Held
<1> QED
  BY <1>3, <1>6, <1>7

\* A request that goes on without a descriptor.
LEMMA PlainIsGood ==
  ASSUME NEW r \in Requests, r.pc \in {"lstat", "remove", "open", "done"},
         r.fd = None, r.path \in Paths, r.pc # "done" => r.how = "none", r.how # "validated"
  PROVE  GoodRequest(r)
BY DEF GoodRequest

LEMMA IdleIsGood == GoodRequest(Idle) /\ Idle.fd = None
<1>1. /\ Idle \in Requests /\ Idle.pc = "idle" /\ Idle.how = "none" /\ Idle.fd = None
  BY DEF Idle, Requests
<1> QED
  BY <1>1 DEF GoodRequest

LEMMA NotFoundIsGood ==
  ASSUME Inv, NEW w \in Workers, req[w].path \in Paths, NEW how \in {"not found", "error"}
  PROVE  /\ GoodRequest([NotFound(w) EXCEPT !.how = how])
         /\ [NotFound(w) EXCEPT !.how = how].fd = None
<1>0. Idle \in Requests /\ Idle.fd = None
  BY DEF Idle, Requests
<1>1. PICK i \in Requests : i = Idle /\ i.fd = None
  BY <1>0
<1>2. PICK p \in Paths : p = req[w].path
  OBVIOUS
<1> DEFINE n == [i EXCEPT !.pc = "done", !.path = p, !.since = now, !.how = "not found"]
           r == [n EXCEPT !.how = how]
<1>3. NotFound(w) = n
  BY <1>1, <1>2 DEF NotFound
<1>4. /\ n \in Requests /\ n.pc = "done" /\ n.path = p /\ n.fd = None
  <2>1. now \in Nat
    BY DEF Inv, FsTypes
  <2>2. n \in Requests
    <3>1. i \in Requests /\ p \in Paths
      BY <1>1, <1>2
    <3> QED
      BY <3>1, <2>1 DEF Requests
  <2>3. n.pc = "done" /\ n.path = p
    BY <1>1 DEF Requests
  <2>4. n.fd = None
    BY <1>1 DEF Requests
  <2> QED
    BY <2>2, <2>3, <2>4
<1> HIDE DEF n
<1>5. r \in Requests /\ r.pc = "done" /\ r.path = p /\ r.fd = None /\ r.how = how
  BY <1>4 DEF Requests
<1> HIDE DEF r
<1>6. GoodRequest(r)
  BY <1>2, <1>5, PlainIsGood
<1> QED
  BY <1>3, <1>5, <1>6 DEF r

LEMMA GetFreshStep == ASSUME Inv, NEW w \in Workers, NEW p \in Paths, GetFresh(w, p) PROVE Inv'
<1>1. /\ req[w].pc = "idle" /\ Lookup(p) /\ UNCHANGED <<now, fsVars>>
      /\ GoodRequest(req[w]) /\ req[w] \in Requests
  BY DEF GetFresh, Inv, GoodRequests, RequestTypes
<1>2. clock' \in [Shards -> Nat]
  BY <1>1, ShardsAssumption DEF Lookup, Inv, CacheTypes
<1>3. CASE Fresh(p) /\ cache' = Used(p, cache[p].validatedAt) /\ req' = [req EXCEPT ![w] = Hit(w, p, "fresh")]
  <2>1. PICK e \in Entries : e = cache[p] /\ GoodEntry(p, e) /\ cache[p] # None /\ now - e.validatedAt < Ttl
    BY <1>3 DEF Inv, GoodCache, GoodEntry, Fresh
  <2>2. e.validatedAt \in Nat /\ e.validatedAt <= now /\ now \in Nat /\ Ttl \in Nat /\ Stall \in Nat
    BY <2>1, SizesAssumption DEF GoodEntry, Entries, Inv, FsTypes
  <2>3. Recent(p, e.fd, e.meta, e.validatedAt, Stall)
    BY <2>1 DEF GoodEntry
  <2>4. Recent(p, e.fd, e.meta, now, Ttl - 1 + Stall)
    <3> SUFFICES ASSUME NEW h \in history, h[1] = p, h[2] = <<e.fd, e.meta.attr>>
                 PROVE  now - h[3] <= Ttl - 1 + Stall
      BY DEF Recent
    <3>1. h[3] \in Nat /\ e.validatedAt - h[3] <= Stall
      BY <2>3 DEF Recent, Inv, FsTypes
    <3> QED
      BY <3>1, <2>1, <2>2
  <2>5. CacheInv' /\ \A q \in Paths : cache'[q] # None => cache'[q].fd \in Held
    BY <1>1, <1>3, <2>1, <2>2, <2>3, UsedStep
  <2>6. GoodRequest(Hit(w, p, "fresh")) /\ Hit(w, p, "fresh").fd \in Held
    BY <2>1, <2>4, HitIsGood
  <2> QED
    BY <1>1, <1>3, <2>5, <2>6, RequestStep
<1>4. CASE /\ req' = [req EXCEPT ![w].pc = "lstat", ![w].path = p]
           /\ UNCHANGED cache
  <2> DEFINE r == [req[w] EXCEPT !.pc = "lstat", !.path = p]
  <2>1. req' = [req EXCEPT ![w] = r]
    BY <1>4 DEF Inv, RequestTypes
  <2>2. /\ r \in Requests /\ r.pc = "lstat" /\ r.path = p /\ r.fd = req[w].fd /\ r.how = req[w].how
    BY <1>1 DEF Requests
  <2> HIDE DEF r
  <2>3. GoodRequest(r) /\ r.fd \in Held \cup {None}
    BY <1>1, <2>2 DEF GoodRequest, Held
  <2>4. CacheInv' /\ \A q \in Paths : cache'[q] # None => cache'[q].fd \in Held
    BY <1>1, <1>2, <1>4, SameCacheStep
  <2> QED
    BY <1>1, <2>1, <2>3, <2>4, RequestStep
<1> QED
  BY <1>3, <1>4 DEF GetFresh

LEMMA LstatStep == ASSUME Inv, NEW w \in Workers, Lstat(w) PROVE Inv'
<1> DEFINE p == req[w].path
           g == at[p]
<1>1. /\ req[w].pc = "lstat" /\ UNCHANGED <<now, fsVars, cache, clock>> /\ p \in Paths
      /\ GoodRequest(req[w]) /\ req[w] \in Requests
  BY DEF Lstat, Inv, GoodRequests, RequestTypes, GoodRequest
<1>2. CacheInv' /\ \A q \in Paths : cache'[q] # None => cache'[q].fd \in Held
  BY <1>1, SameCacheStep DEF Inv, CacheTypes
<1>3. CASE g = None
  <2> DEFINE r == [req[w] EXCEPT !.pc = "remove"]
  <2>1. req' = [req EXCEPT ![w] = r]
    BY <1>3 DEF Lstat
  <2>2. r \in Requests /\ r.pc = "remove" /\ r.path = p /\ r.fd = req[w].fd /\ r.how = req[w].how
    BY <1>1 DEF Requests
  <2> HIDE DEF r
  <2>3. GoodRequest(r) /\ r.fd \in Held \cup {None}
    BY <1>1, <2>2 DEF GoodRequest, Held
  <2> QED
    BY <1>1, <1>2, <2>1, <2>3, RequestStep
<1>4. CASE g # None /\ ~file[g].regular
  <2>1. req' = [req EXCEPT ![w] = NotFound(w)]
    BY <1>4 DEF Lstat
  <2>2. NotFound(w) = [NotFound(w) EXCEPT !.how = "not found"]
    BY DEF NotFound, Idle
  <2>3. GoodRequest(NotFound(w)) /\ NotFound(w).fd = None
    BY <1>1, <2>2, NotFoundIsGood
  <2> QED
    BY <1>1, <1>2, <2>1, <2>3, RequestStep
<1>5. CASE g # None /\ file[g].regular
  <2> DEFINE r == [req[w] EXCEPT !.pc = "get", !.seen = Meta(g), !.saw = g, !.since = now]
  <2>1. req' = [req EXCEPT ![w] = r]
    BY <1>5 DEF Lstat
  <2>2. g \in DOMAIN file /\ g \in Nat /\ file[g].attr \in Nat /\ file[g].ino \in Nat /\ now \in Nat
    BY <1>1, <1>5, VersionTypes DEF Inv, FsTypes, Inodes
  <2>3. Meta(g) \in Metas /\ Meta(g).ino = file[g].ino /\ Meta(g).attr = file[g].attr
    BY <2>2 DEF Meta, Metas
  <2>4. /\ r \in Requests /\ r.pc = "get" /\ r.path = p /\ r.fd = req[w].fd /\ r.how = req[w].how
        /\ r.seen = Meta(g) /\ r.saw = g /\ r.since = now
    BY <1>1, <2>2, <2>3 DEF Requests
  <2> HIDE DEF r
  <2>5. Seen(r)
    <3>1. ASSUME NEW h \in history, h[1] = p
          PROVE  h[2][1] <= g /\ (h[2][1] = g => h[2][2] < file[g].attr)
      BY <3>1, <1>5 DEF Inv, Past
    <3>2. InTime(r)
      BY <2>2, <2>4, SizesAssumption DEF InTime
    <3> QED
      BY <3>1, <3>2, <2>2, <2>3, <2>4 DEF Seen
  <2>6. GoodRequest(r) /\ r.fd \in Held \cup {None}
    BY <1>1, <2>4, <2>5 DEF GoodRequest, Held
  <2> QED
    BY <1>1, <1>2, <2>1, <2>6, RequestStep
<1> QED
  BY <1>3, <1>4, <1>5

LEMMA RemoveStep == ASSUME Inv, NEW w \in Workers, Remove(w) PROVE Inv'
<1> DEFINE p == req[w].path
<1>1. /\ req[w].pc = "remove" /\ UNCHANGED <<now, fsVars, clock>> /\ p \in Paths
      /\ cache' = [cache EXCEPT ![p] = None] /\ req' = [req EXCEPT ![w] = NotFound(w)]
  BY DEF Remove, Inv, GoodRequests, GoodRequest
<1>2. \A q \in Paths : cache'[q] # None => cache'[q] = cache[q]
  BY <1>1 DEF Inv, CacheTypes
<1>3. CacheInv'
  BY <1>1, <1>2, CacheStep DEF Inv, CacheTypes, GoodCache
<1>4. \A q \in Paths : cache'[q] # None => cache'[q].fd \in Held
  BY <1>2 DEF Held
<1>5. NotFound(w) = [NotFound(w) EXCEPT !.how = "not found"]
  BY DEF NotFound, Idle
<1>6. GoodRequest(NotFound(w)) /\ NotFound(w).fd = None
  BY <1>1, <1>5, NotFoundIsGood
<1> QED
  BY <1>1, <1>3, <1>4, <1>6, RequestStep

LEMMA GetStep == ASSUME Inv, NEW w \in Workers, Get(w) PROVE Inv'
<1> DEFINE p == req[w].path
<1>1. /\ req[w].pc = "get" /\ Lookup(p) /\ UNCHANGED <<now, fsVars>> /\ p \in Paths
      /\ GoodRequest(req[w]) /\ req[w] \in Requests /\ Seen(req[w]) /\ req[w].how = "none"
  BY DEF Get, Inv, GoodRequests, RequestTypes, GoodRequest
<1>2. clock' \in [Shards -> Nat]
  BY <1>1, ShardsAssumption DEF Lookup, Inv, CacheTypes
<1>3. CASE Matches(p, req[w].seen) /\ cache' = Used(p, now) /\ req' = [req EXCEPT ![w] = Hit(w, p, "validated")]
  <2>1. PICK r : r = req[w]
    OBVIOUS
  <2>0. cache[p] # None /\ cache[p].meta = req[w].seen
    BY <1>3 DEF Matches
  <2>2. PICK e \in Entries : e = cache[p] /\ GoodEntry(p, e) /\ cache[p] # None /\ e.meta = r.seen
    BY <1>1, <2>0, <2>1 DEF Inv, GoodCache, GoodEntry
  <2>3. /\ r.saw \in DOMAIN file /\ r.seen.ino = file[r.saw].ino /\ r.since \in Nat
        /\ r.since <= now /\ now - r.since <= Stall
        /\ e.fd \in DOMAIN file /\ e.meta.ino = file[e.fd].ino
    BY <1>1, <2>1, <2>2 DEF Seen, InTime, GoodEntry, Requests
  <2>4. r.saw \in Nat /\ e.fd \in Nat /\ now \in Nat /\ Stall \in Nat
    BY <2>3, SizesAssumption DEF Inv, FsTypes, Generations
  \* The entry pins its inode number, which is that of what lstat saw.
  <2>5. e.fd >= r.saw
    <3>1. e.fd \in Held \ {None}
      BY <2>2, <2>4, <1>1, NoneAssumption DEF Held
    <3> SUFFICES ASSUME e.fd < r.saw PROVE FALSE
      BY <2>4
    <3>2. file[r.saw].ino # file[e.fd].ino
      BY <3>1, <2>3 DEF Inv, Pinned
    <3> QED
      BY <3>2, <2>2, <2>3
  <2>6. Recent(p, e.fd, e.meta, now, Stall)
    <3> SUFFICES ASSUME NEW h \in history, h[1] = p, h[2] = <<e.fd, e.meta.attr>>
                 PROVE  now - h[3] <= Stall
      BY DEF Recent
    <3>1. h[2][1] = e.fd /\ h[2][2] = r.seen.attr /\ h[3] \in Nat /\ h[2][2] \in Nat
      BY <2>2 DEF Inv, FsTypes
    <3>2. ASSUME h[3] < r.since PROVE FALSE
      <4>1. h[2][1] <= r.saw /\ (h[2][1] = r.saw => h[2][2] < r.seen.attr)
        BY <3>2, <1>1, <2>1 DEF Seen
      <4> QED
        BY <4>1, <3>1, <2>4, <2>5
    <3> QED
      BY <3>1, <3>2, <2>3, <2>4
  <2>7. Recent(p, e.fd, e.meta, now, Ttl - 1 + Stall)
    <3> SUFFICES ASSUME NEW h \in history, h[1] = p, h[2] = <<e.fd, e.meta.attr>>
                 PROVE  now - h[3] <= Ttl - 1 + Stall
      BY DEF Recent
    <3>1. h[3] \in Nat /\ now - h[3] <= Stall
      BY <2>6 DEF Recent, Inv, FsTypes
    <3>2. Ttl \in Nat /\ Ttl > 0
      BY SizesAssumption
    <3> QED
      BY <3>1, <3>2, <2>4
  <2>8. CacheInv' /\ \A q \in Paths : cache'[q] # None => cache'[q].fd \in Held
    BY <1>1, <1>3, <2>2, <2>4, <2>6, UsedStep
  <2>9. GoodRequest(Hit(w, p, "validated")) /\ Hit(w, p, "validated").fd \in Held
    BY <1>1, <2>1, <2>2, <2>4, <2>5, <2>7, HitIsGood
  <2> QED
    BY <1>1, <1>3, <2>8, <2>9, RequestStep
<1>4. CASE req' = [req EXCEPT ![w].pc = "open"] /\ UNCHANGED cache
  <2> DEFINE r == [req[w] EXCEPT !.pc = "open"]
  <2>1. req' = [req EXCEPT ![w] = r]
    BY <1>4 DEF Inv, RequestTypes
  <2>2. r \in Requests /\ r.pc = "open" /\ r.path = p /\ r.fd = req[w].fd /\ r.how = req[w].how
    BY <1>1 DEF Requests
  <2> HIDE DEF r
  <2>3. GoodRequest(r) /\ r.fd \in Held \cup {None}
    BY <1>1, <2>2 DEF GoodRequest, Held
  <2>4. CacheInv' /\ \A q \in Paths : cache'[q] # None => cache'[q].fd \in Held
    BY <1>1, <1>2, <1>4, SameCacheStep
  <2> QED
    BY <1>1, <2>1, <2>3, <2>4, RequestStep
<1> QED
  BY <1>3, <1>4 DEF Get

LEMMA OpenStep == ASSUME Inv, NEW w \in Workers, Open(w) PROVE Inv'
<1> DEFINE p == req[w].path
           g == at[p]
<1>1. /\ req[w].pc = "open" /\ UNCHANGED <<now, fsVars, cache, clock>> /\ p \in Paths
      /\ GoodRequest(req[w]) /\ req[w] \in Requests
  BY DEF Open, Inv, GoodRequests, RequestTypes, GoodRequest
<1>2. CacheInv' /\ \A q \in Paths : cache'[q] # None => cache'[q].fd \in Held
  BY <1>1, SameCacheStep DEF Inv, CacheTypes
<1>3. CASE g # None /\ req' = [req EXCEPT ![w].pc = "fstat", ![w].fd = g, ![w].since = now]
  <2> DEFINE r == [req[w] EXCEPT !.pc = "fstat", !.fd = g, !.since = now]
  <2>1. req' = [req EXCEPT ![w] = r]
    BY <1>3 DEF Inv, RequestTypes
  <2>2. g \in DOMAIN file /\ g \in Nat /\ now \in Nat
    BY <1>1, <1>3, VersionTypes DEF Inv, FsTypes
  <2>3. /\ r \in Requests /\ r.pc = "fstat" /\ r.path = p /\ r.fd = g /\ r.how = req[w].how
        /\ r.since = now
    BY <1>1, <2>2 DEF Requests
  <2> HIDE DEF r
  <2>4. Opened(r)
    <3>1. ASSUME NEW h \in history, h[1] = p, h[2][1] = g
          PROVE  h[2][2] < file[g].attr
      BY <3>1, <1>3 DEF Inv, Past
    <3>2. InTime(r)
      BY <2>2, <2>3, SizesAssumption DEF InTime
    <3> QED
      BY <3>1, <3>2, <2>2, <2>3 DEF Opened
  <2>5. GoodRequest(r) /\ r.fd \in Held
    BY <1>1, <2>2, <2>3, <2>4 DEF GoodRequest, Held
  <2> QED
    BY <1>1, <1>2, <2>1, <2>5, RequestStep
<1>4. CASE req' = [req EXCEPT ![w] = NotFound(w)]
  <2>1. NotFound(w) = [NotFound(w) EXCEPT !.how = "not found"]
    BY DEF NotFound, Idle
  <2>2. GoodRequest(NotFound(w)) /\ NotFound(w).fd = None
    BY <1>1, <2>1, NotFoundIsGood
  <2> QED
    BY <1>1, <1>2, <1>4, <2>2, RequestStep
<1> QED
  BY <1>3, <1>4 DEF Open

LEMMA FstatStep == ASSUME Inv, NEW w \in Workers, Fstat(w) PROVE Inv'
<1>1. PICK q : q = req[w]
  OBVIOUS
<1>2. /\ q.pc = "fstat" /\ UNCHANGED <<now, fsVars, cache, clock>> /\ q.path \in Paths
      /\ GoodRequest(q) /\ q \in Requests /\ Opened(q) /\ q.how = "none"
      /\ req' = [req EXCEPT ![w].pc = "insert", ![w].meta = Meta(q.fd)]
  BY <1>1 DEF Fstat, Inv, GoodRequests, RequestTypes, GoodRequest
<1>3. CacheInv' /\ \A p \in Paths : cache'[p] # None => cache'[p].fd \in Held
  BY <1>2, SameCacheStep DEF Inv, CacheTypes
<1> DEFINE r == [q EXCEPT !.pc = "insert", !.meta = Meta(q.fd)]
<1>4. req' = [req EXCEPT ![w] = r]
  BY <1>1, <1>2 DEF Inv, RequestTypes
<1>5. /\ q.fd \in DOMAIN file /\ file[q.fd] \in Files /\ file[q.fd].attr \in Nat
      /\ file[q.fd].ino \in Nat /\ q.since \in Nat
  <2>1. q.fd \in DOMAIN file /\ q.since \in Nat
    BY <1>2 DEF Opened, Requests
  <2>2. file[q.fd] \in Files
    BY <2>1 DEF Inv, FsTypes
  <2>3. changes \in Nat /\ MaxInode \in Nat
    BY SizesAssumption DEF Inv, FsTypes
  <2> QED
    BY <2>1, <2>2, <2>3 DEF Files, Inodes
<1>6. Meta(q.fd) \in Metas /\ Meta(q.fd).ino = file[q.fd].ino /\ Meta(q.fd).attr = file[q.fd].attr
  BY <1>5 DEF Meta, Metas
<1>7. /\ r \in Requests /\ r.pc = "insert" /\ r.path = q.path /\ r.fd = q.fd /\ r.how = q.how
      /\ r.meta = Meta(q.fd) /\ r.since = q.since
  BY <1>2, <1>6 DEF Requests
<1> HIDE DEF r
<1>8. Described(r) /\ InTime(r)
  BY <1>2, <1>5, <1>6, <1>7 DEF Described, Opened, InTime
<1>9. Recent(r.path, r.fd, r.meta, r.since, 0)
  <2> SUFFICES ASSUME NEW h \in history, h[1] = q.path, h[2] = <<q.fd, file[q.fd].attr>>
               PROVE  q.since - h[3] <= 0
    BY <1>6, <1>7 DEF Recent
  <2>1. h[2][1] = q.fd /\ h[2][2] = file[q.fd].attr /\ h[3] \in Nat
    BY DEF Inv, FsTypes
  <2>2. ~(h[3] < q.since)
    BY <2>1, <1>2, <1>5 DEF Opened
  <2> QED
    BY <2>1, <2>2, <1>5
<1>10. GoodRequest(r) /\ r.fd \in Held
  BY <1>1, <1>2, <1>5, <1>7, <1>8, <1>9 DEF GoodRequest, Held
<1> QED
  BY <1>2, <1>3, <1>4, <1>10, RequestStep

LEMMA BuildFailsStep == ASSUME Inv, NEW w \in Workers, BuildFails(w) PROVE Inv'
<1>1. /\ req[w].path \in Paths /\ UNCHANGED <<now, fsVars, cache, clock>>
      /\ req' = [req EXCEPT ![w] = [NotFound(w) EXCEPT !.how = "error"]]
  BY DEF BuildFails, Inv, GoodRequests, GoodRequest
<1>2. CacheInv' /\ \A q \in Paths : cache'[q] # None => cache'[q].fd \in Held
  BY <1>1, SameCacheStep DEF Inv, CacheTypes
<1>3. /\ GoodRequest([NotFound(w) EXCEPT !.how = "error"])
      /\ [NotFound(w) EXCEPT !.how = "error"].fd = None
  BY <1>1, NotFoundIsGood
<1> QED
  BY <1>1, <1>2, <1>3, RequestStep

LEMMA FinishStep == ASSUME Inv, NEW w \in Workers, Finish(w) PROVE Inv'
<1>1. UNCHANGED <<now, fsVars, cache, clock>> /\ req' = [req EXCEPT ![w] = Idle]
  BY DEF Finish
<1>2. CacheInv' /\ \A q \in Paths : cache'[q] # None => cache'[q].fd \in Held
  BY <1>1, SameCacheStep DEF Inv, CacheTypes
<1>3. GoodRequest(Idle) /\ Idle.fd = None
  BY IdleIsGood
<1> QED
  BY <1>1, <1>2, <1>3, RequestStep

-----------------------------------------------------------------------------
(* Insertion: a new entry, and room for it. *)

LEMMA InsertStep == ASSUME Inv, NEW w \in Workers, Insert(w) PROVE Inv'
<1>1. PICK q : q = req[w]
  OBVIOUS
<1> DEFINE p == q.path
           s == ShardOf[p]
           entry == [fd |-> q.fd, meta |-> q.meta, used |-> clock[s] + 1, validatedAt |-> now]
<1>2. /\ q.pc = "insert" /\ UNCHANGED <<now, fsVars>> /\ p \in Paths /\ Lookup(p)
      /\ GoodRequest(q) /\ q \in Requests /\ Described(q) /\ InTime(q) /\ Recent(p, q.fd, q.meta, q.since, 0)
      /\ req' = [req EXCEPT ![w].pc = "done", ![w].since = now, ![w].how = "opened"]
  BY <1>1 DEF Insert, Inv, GoodRequests, RequestTypes, GoodRequest
<1>3. cache' = [x \in Paths |-> IF x = p THEN entry
                                ELSE IF Full(p) /\ x = Oldest(s) THEN None
                                ELSE cache[x]]
  BY <1>1 DEF Insert
<1>4. /\ s \in Shards /\ clock[s] \in Nat /\ clock' \in [Shards -> Nat]
      /\ now \in Nat /\ q.fd \in Nat /\ q.fd \in DOMAIN file /\ q.meta \in Metas /\ q.since \in Nat
      /\ Stall \in Nat /\ Capacity \in Nat /\ Capacity > 0
  <2>1. s \in Shards /\ clock[s] \in Nat /\ clock' \in [Shards -> Nat]
    BY <1>2, ShardsAssumption DEF Lookup, Inv, CacheTypes
  <2>2. q.fd \in DOMAIN file /\ q.meta \in Metas /\ q.since \in Nat
    BY <1>2 DEF Described, Requests
  <2>3. now \in Nat /\ q.fd \in Nat
    BY <2>2, SizesAssumption DEF Inv, FsTypes, Generations
  <2> QED
    BY <2>1, <2>2, <2>3, SizesAssumption
<1>5. /\ entry \in Entries /\ entry.fd = q.fd /\ entry.meta = q.meta /\ entry.validatedAt = now
  BY <1>4 DEF Entries
\* Versions replaced before the request's open are not this one: what is kept is that recent.
<1>6. ASSUME NEW h \in history, h[1] = p, h[2] = <<q.fd, q.meta.attr>>
      PROVE  now - h[3] <= Stall
  <2>1. h[3] \in Nat /\ q.since - h[3] <= 0
    BY <1>2, <1>6 DEF Recent, Inv, FsTypes
  <2>2. q.since <= now /\ now - q.since <= Stall
    BY <1>2 DEF InTime
  <2> QED
    BY <2>1, <2>2, <1>4
<1> HIDE DEF entry
<1>7. GoodEntry(p, entry)
  BY <1>2, <1>4, <1>5, <1>6 DEF GoodEntry, Recent, Described
<1>8. /\ cache'[p] = entry
      /\ \A x \in Paths : x # p /\ cache'[x] # None => cache'[x] = cache[x]
      /\ cache' \in [Paths -> Entries \cup {None}]
  BY <1>2, <1>3, <1>5 DEF Inv, CacheTypes
<1>9. \A x \in Paths : cache'[x] # None => GoodEntry(x, cache'[x])
  BY <1>7, <1>8 DEF Inv, GoodCache
<1>10. \A x \in Paths : cache'[x] # None => cache'[x].fd \in Held
  BY <1>1, <1>5, <1>8 DEF Held
<1>11. GoodCache'
  <2> SUFFICES ASSUME NEW x \in Paths, cache'[x] # None PROVE GoodEntry(x, cache[x])'
    BY DEF GoodCache
  <2>1. PICK e : e = cache'[x]
    OBVIOUS
  <2>2. GoodEntry(x, e)
    BY <2>1, <1>9
  <2>3. GoodEntry(x, e)'
    BY <2>2, <1>2 DEF GoodEntry, Recent, fsVars
  <2> QED
    BY <2>1, <2>3
<1>12. ASSUME NEW t \in Shards
       PROVE  IsFiniteSet(InShard(t)') /\ Cardinality(InShard(t)') <= Capacity
  <2>1. /\ IsFiniteSet(InShard(t)) /\ Cardinality(InShard(t)) <= Capacity
        /\ Cardinality(InShard(t)) \in Nat
    BY FS_CardinalityType DEF Inv, Bounded
  <2>2. CASE t # s \/ cache[p] # None
    <3>1. InShard(t)' \subseteq InShard(t)
      BY <2>2, <1>2, <1>8 DEF InShard
    <3> QED
      BY <3>1, <2>1, <1>4, FS_Subset, FS_CardinalityType
  <2>3. CASE t = s /\ cache[p] = None /\ ~Full(p)
    <3>1. InShard(t)' \subseteq InShard(t) \cup {p} /\ p \notin InShard(t)
      BY <2>3, <1>8 DEF InShard
    <3>2. Cardinality(InShard(t)) < Capacity
      BY <2>1, <2>3, <1>4 DEF Full
    <3>3. /\ IsFiniteSet(InShard(t) \cup {p})
          /\ Cardinality(InShard(t) \cup {p}) = Cardinality(InShard(t)) + 1
      BY <3>1, <2>1, FS_AddElement
    <3>4. /\ IsFiniteSet(InShard(t)') /\ Cardinality(InShard(t)') \in Nat
          /\ Cardinality(InShard(t)') <= Cardinality(InShard(t) \cup {p})
      BY <3>1, <3>3, FS_Subset, FS_CardinalityType
    <3> QED
      BY <3>2, <3>3, <3>4, <2>1, <1>4
  <2>4. CASE t = s /\ cache[p] = None /\ Full(p)
    <3> DEFINE o == Oldest(t)
               rest == InShard(t) \ {o}
    <3>1. InShard(t) # {}
      <4>1. Cardinality(InShard(t)) > 0
        BY <2>1, <2>4, <1>4 DEF Full
      <4> QED
        BY <4>1, FS_EmptySet
    <3>2. o \in InShard(t) /\ p \notin InShard(t)
      BY <3>1, <2>4, OldestIsInShard DEF InShard
    <3> HIDE DEF o
    <3>3. InShard(t)' \subseteq rest \cup {p} /\ p \notin rest
      BY <2>4, <1>3, <1>8, <3>2 DEF InShard, o
    <3>4. /\ IsFiniteSet(rest) /\ Cardinality(rest) = Cardinality(InShard(t)) - 1
      BY <2>1, <3>2, FS_RemoveElement
    <3> HIDE DEF rest
    <3>5. /\ IsFiniteSet(rest \cup {p}) /\ Cardinality(rest \cup {p}) = Cardinality(rest) + 1
      BY <3>3, <3>4, FS_AddElement
    <3>6. /\ IsFiniteSet(InShard(t)') /\ Cardinality(InShard(t)') \in Nat
          /\ Cardinality(InShard(t)') <= Cardinality(rest \cup {p})
      BY <3>3, <3>5, FS_Subset, FS_CardinalityType
    <3> QED
      BY <3>4, <3>5, <3>6, <2>1, <1>4
  <2> QED
    BY <2>2, <2>3, <2>4
<1>13. CacheInv'
  BY <1>4, <1>8, <1>11, <1>12 DEF CacheInv, CacheTypes, Bounded
<1> DEFINE r == [q EXCEPT !.pc = "done", !.since = now, !.how = "opened"]
<1>14. req' = [req EXCEPT ![w] = r]
  BY <1>1, <1>2 DEF Inv, RequestTypes
<1>15. /\ r \in Requests /\ r.pc = "done" /\ r.path = p /\ r.fd = q.fd /\ r.meta = q.meta
       /\ r.since = now /\ r.how = "opened"
  BY <1>2, <1>4 DEF Requests
<1> HIDE DEF r
<1>16. Recent(p, q.fd, q.meta, now, Ttl - 1 + Stall)
  <2> SUFFICES ASSUME NEW h \in history, h[1] = p, h[2] = <<q.fd, q.meta.attr>>
               PROVE  now - h[3] <= Ttl - 1 + Stall
    BY DEF Recent
  <2>1. now - h[3] <= Stall /\ h[3] \in Nat
    BY <1>6 DEF Inv, FsTypes
  <2>2. Ttl \in Nat /\ Ttl > 0
    BY SizesAssumption
  <2> QED
    BY <2>1, <2>2, <1>4
<1>17. GoodRequest(r) /\ r.fd \in Held
  BY <1>1, <1>2, <1>4, <1>15, <1>16, NoneAssumption DEF GoodRequest, Described, Held
<1> QED
  BY <1>2, <1>10, <1>13, <1>14, <1>17, RequestStep

-----------------------------------------------------------------------------
(* The invariant, and what follows from it. *)

LEMMA InitInv == Init => Inv
<1> SUFFICES ASSUME Init PROVE Inv
  OBVIOUS
<1> DEFINE D == {Born[p] : p \in Paths} \ {None}
<1>1. /\ now = 0 /\ changes = 0 /\ at = Born /\ history = {} /\ req = [w \in Workers |-> Idle]
      /\ file = [g \in D |-> [ino |-> g, attr |-> 0, regular |-> TRUE]]
      /\ cache = [p \in Paths |-> None] /\ clock = [s \in Shards |-> 0]
  BY DEF Init
<1>2. D \subseteq Inodes /\ DOMAIN file = D /\ \A p \in Paths : Born[p] \in D \cup {None}
  BY <1>1, BornAssumption
<1> HIDE DEF D
<1>3. FsTypes
  <2>1. \A g \in D : [ino |-> g, attr |-> 0, regular |-> TRUE] \in Files
    BY <1>1, <1>2 DEF Files
  <2>2. file \in [DOMAIN file -> Files]
    BY <2>1, <1>1, <1>2
  <2>3. DOMAIN file \subseteq Generations
    BY <1>1, <1>2, SizesAssumption DEF Generations, Inodes
  <2>4. at \in [Paths -> DOMAIN file \cup {None}]
    BY <1>1, <1>2, BornAssumption
  <2> QED
    BY <2>2, <2>3, <2>4, <1>1 DEF FsTypes
<1>4. Past
  BY <1>1 DEF Past
<1>5. Pinned
  <2>1. \A g \in D : file[g].ino = g
    BY <1>1
  <2>2. Held \ {None} \subseteq D
    <3>1. \A w \in Workers : req[w].fd = None
      BY <1>1, IdleIsGood
    <3>2. \A p \in Paths : cache[p] = None /\ at[p] \in D \cup {None}
      BY <1>1, <1>2
    <3> QED
      BY <3>1, <3>2 DEF Held
  <2>3. \A g \in D : g \in Nat
    BY <1>2, SizesAssumption DEF Inodes
  <2> QED
    BY <2>1, <2>2, <2>3, <1>2 DEF Pinned
<1>6. CacheTypes /\ GoodCache
  BY <1>1 DEF CacheTypes, GoodCache
<1>7. RequestTypes /\ GoodRequests
  BY <1>1, IdleIsGood DEF RequestTypes, GoodRequests, GoodRequest
<1>8. Bounded
  <2>1. \A s \in Shards : InShard(s) = {}
    BY <1>1 DEF InShard
  <2> QED
    BY <2>1, FS_EmptySet, SizesAssumption DEF Bounded
<1> QED
  BY <1>3, <1>4, <1>5, <1>6, <1>7, <1>8 DEF Inv

LEMMA NextInv == Inv /\ [Next]_vars => Inv'
<1> SUFFICES ASSUME Inv, [Next]_vars PROVE Inv'
  OBVIOUS
<1>1. CASE FileSystem
  BY <1>1, FileSystemStep
<1>2. CASE Tick
  BY <1>2, TickStep
<1>3. ASSUME NEW w \in Workers, Request(w) PROVE Inv'
  BY <1>3, GetFreshStep, LstatStep, RemoveStep, GetStep, OpenStep, FstatStep, BuildFailsStep,
     InsertStep, FinishStep DEF Request
<1>4. CASE UNCHANGED vars
  <2>1. UNCHANGED <<now, changes, file, at, history, cache, clock, req>>
    BY <1>4 DEF vars, fsVars
  <2>2. FsTypes' /\ Past' /\ Pinned' /\ CacheTypes' /\ RequestTypes' /\ Bounded'
    BY <2>1 DEF Inv, FsTypes, Generations, Files, Past, Pinned, Held, CacheTypes, RequestTypes,
       Bounded, InShard
  <2>3. GoodCache' /\ GoodRequests'
    BY <2>1 DEF Inv, GoodCache, GoodEntry, GoodRequests, GoodRequest, Seen, Opened, Described,
       Recent, InTime
  <2> QED
    BY <2>2, <2>3 DEF Inv
<1> QED
  BY <1>1, <1>2, <1>3, <1>4 DEF Next

LEMMA Invariance == Spec => []Inv
BY InitInv, NextInv, PTL DEF Spec

\* However requests interleave, a shard keeps at most CAPACITY_PER_SHARD descriptors open: insert
\* evicts under the lock that it counts under.
THEOREM DescriptorsAreBounded == Spec => []FdBound
<1>1. Inv => FdBound
  BY DEF Inv, Bounded, FdBound
<1> QED
  BY <1>1, Invariance, PTL

-----------------------------------------------------------------------------
(* Every descriptor is kept beside a version that the path of the request  *)
(* or of the entry has named.                                              *)

\* No file is at two paths, nor was at one and is at another.
Owned ==
  /\ \A p, q \in Paths : at[p] # None /\ at[p] = at[q] => p = q
  /\ \A h \in history, p \in Paths : at[p] # None /\ h[2][1] = at[p] => h[1] = p

\* From open to fstat the path has named the opened file as it is now; then the version fstat found.
GoodName(r) ==
  /\ r.pc = "fstat" => Named(r.path, Version(r.fd))
  /\ r.pc \in {"insert", "done"} /\ r.fd # None => Named(r.path, <<r.fd, r.meta.attr>>)

EntryNamed(p) == cache[p] # None => Named(p, <<cache[p].fd, cache[p].meta.attr>>)

Names == Owned /\ (\A w \in Workers : GoodName(req[w])) /\ (\A p \in Paths : EntryNamed(p))

\* What a change to the files has to keep of what paths have named.
Kept ==
  /\ \A p \in Paths : \A v : Named(p, v) => Named(p, v)'
  /\ \A p \in Paths : \A g \in DOMAIN file : Named(p, Version(g)) => Named(p, Version(g))'

LEMMA ChangeKeepsNames ==
  ASSUME Inv, Names, Kept, Owned', UNCHANGED <<cache, req>>
  PROVE  Names'
<1>1. ASSUME NEW w \in Workers PROVE GoodName(req[w])'
  <2>1. PICK r : r = req[w] /\ GoodName(r) /\ GoodRequest(r)
    BY DEF Names, Inv, GoodRequests
  <2>2. req'[w] = r
    BY <2>1
  <2>3. CASE r.pc = "fstat"
    <3>1. r.fd \in DOMAIN file /\ r.path \in Paths
      BY <2>1, <2>3 DEF GoodRequest, Opened
    <3>2. Named(r.path, Version(r.fd))'
      <4>1. PICK p \in Paths, g \in DOMAIN file : p = r.path /\ g = r.fd
        BY <3>1
      <4>2. Named(p, Version(g))'
        BY <2>1, <2>3, <4>1 DEF GoodName, Kept
      <4> QED
        BY <4>1, <4>2
    <3> QED
      BY <2>2, <2>3, <3>2 DEF GoodName
  <2>4. CASE r.pc \in {"insert", "done"} /\ r.fd # None
    <3>1. r.path \in Paths /\ Named(r.path, <<r.fd, r.meta.attr>>)
      BY <2>1, <2>4 DEF GoodRequest, GoodName
    <3>2. Named(r.path, <<r.fd, r.meta.attr>>)'
      <4>1. PICK p \in Paths : p = r.path
        BY <3>1
      <4>2. PICK v : v = <<r.fd, r.meta.attr>>
        OBVIOUS
      <4>3. Named(p, v)'
        BY <3>1, <4>1, <4>2 DEF Kept
      <4> QED
        BY <4>1, <4>2, <4>3
    <3> QED
      BY <2>2, <2>4, <3>2 DEF GoodName
  <2> QED
    BY <2>2, <2>3, <2>4 DEF GoodName
<1>2. ASSUME NEW p \in Paths PROVE EntryNamed(p)'
  <2>1. CASE cache[p] # None
    <3>1. PICK v : v = <<cache[p].fd, cache[p].meta.attr>> /\ Named(p, v)
      BY <2>1 DEF Names, EntryNamed
    <3>2. Named(p, v)'
      BY <3>1 DEF Kept
    <3> QED
      BY <3>1, <3>2 DEF EntryNamed
  <2> QED
    BY <2>1 DEF EntryNamed
<1> QED
  BY <1>1, <1>2 DEF Names

\* A file rewritten in place stays at its path, which named it before.
LEMMA WriteKeepsNames == ASSUME Inv, Names, NEW p \in Paths, WriteInPlace(p) PROVE Kept /\ Owned'
<1> DEFINE g == at[p]
<1>1. /\ g # None /\ history' = history \cup Gone(p) /\ Gone(p) = {<<p, Version(g), now>>}
      /\ file' = [file EXCEPT ![g].attr = changes'] /\ UNCHANGED at
  BY DEF WriteInPlace, Gone
<1>2. g \in DOMAIN file
  BY <1>1, VersionTypes DEF Inv
<1>3. \A k : k # g => Version(k)' = Version(k)
  BY <1>1, <1>2 DEF Version
<1>4. Version(g)[1] = g
  BY DEF Version
<1> HIDE DEF g
<1>5. <<p, Version(g), now>> \in history'
  BY <1>1
<1>6. \A h \in history : h \in history'
  BY <1>1
<1>7. ASSUME NEW q \in Paths, NEW v, Named(q, v) PROVE Named(q, v)'
  <2>1. CASE \E h \in history : h[1] = q /\ h[2] = v
    BY <2>1, <1>6 DEF Named
  <2>2. CASE at[q] # None /\ v = Version(at[q])
    <3>1. CASE at[q] = g
      <4>1. q = p
        BY <3>1, <1>1 DEF g, Names, Owned
      <4> QED
        BY <2>2, <3>1, <4>1, <1>5 DEF Named
    <3>2. CASE at[q] # g
      BY <2>2, <3>2, <1>1, <1>3 DEF Named
    <3> QED
      BY <3>1, <3>2
  <2> QED
    BY <1>7, <2>1, <2>2 DEF Named
<1>8. ASSUME NEW q \in Paths, NEW k \in DOMAIN file, Named(q, Version(k)) PROVE Named(q, Version(k))'
  <2>1. CASE k # g
    <3>1. PICK v : v = Version(k) /\ v = Version(k)'
      BY <2>1, <1>3
    <3>2. Named(q, v)'
      BY <1>7, <1>8, <3>1
    <3> QED
      BY <3>1, <3>2 DEF Named
  <2>2. CASE k = g
    <3>1. q = p
      <4>1. CASE at[q] # None /\ Version(k) = Version(at[q])
        BY <4>1, <2>2 DEF Version, g, Names, Owned
      <4>2. CASE \E h \in history : h[1] = q /\ h[2] = Version(k)
        <5>1. PICK h \in history : h[1] = q /\ h[2] = Version(k)
          BY <4>2
        <5>2. h[2][1] = at[p] /\ at[p] # None
          BY <5>1, <2>2, <1>1, <1>4 DEF g
        <5> QED
          BY <5>1, <5>2 DEF Names, Owned
      <4> QED
        BY <1>8, <4>1, <4>2 DEF Named
    <3>2. at'[q] = g /\ g # None
      BY <3>1, <1>1 DEF g
    <3> QED
      BY <2>2, <3>2 DEF Named
  <2> QED
    BY <2>1, <2>2
<1>9. Owned'
  <2>1. ASSUME NEW h \in history', NEW q \in Paths, at[q] # None, h[2][1] = at[q] PROVE h[1] = q
    <3>1. CASE h \in history
      BY <2>1, <3>1 DEF Names, Owned
    <3>2. CASE h = <<p, Version(g), now>>
      <4>1. h[1] = p /\ h[2][1] = at[p]
        BY <3>2, <1>4 DEF g
      <4> QED
        BY <2>1, <4>1 DEF Names, Owned
    <3> QED
      BY <3>1, <3>2, <1>1
  <2> QED
    BY <2>1, <1>1 DEF Names, Owned
<1> QED
  BY <1>7, <1>8, <1>9 DEF Kept

\* A new file was at no path; the one it takes the place of is in the history.
LEMMA ReplaceKeepsNames ==
  ASSUME Inv, Names, NEW p \in Paths, NEW ino \in Inodes, NEW attr \in 0..changes,
         NEW regular \in BOOLEAN, Replace(p, ino, attr, regular)
  PROVE  Kept /\ Owned'
<1> DEFINE new == MaxInode + changes'
<1>1. /\ history' = history \cup Gone(p) /\ at' = [at EXCEPT ![p] = new] /\ changes' = changes + 1
      /\ file' = [g \in DOMAIN file \cup {new} |->
                    IF g = new THEN [ino |-> ino, attr |-> attr, regular |-> regular] ELSE file[g]]
  BY DEF Replace
<1>2. new \notin DOMAIN file
  BY <1>1, SizesAssumption DEF Inv, FsTypes, Generations
<1> HIDE DEF new
<1>3. \A g \in DOMAIN file : Version(g)' = Version(g)
  BY <1>1, <1>2 DEF Version
<1>4. at'[p] = new /\ \A q \in Paths : q # p => at'[q] = at[q]
  BY <1>1 DEF Inv, FsTypes
<1>5. \A h \in history : h \in history'
  BY <1>1
<1>6. ASSUME NEW q \in Paths, NEW v, Named(q, v) PROVE Named(q, v)'
  <2>1. CASE \E h \in history : h[1] = q /\ h[2] = v
    BY <2>1, <1>5 DEF Named
  <2>2. CASE at[q] # None /\ v = Version(at[q])
    <3>1. CASE q = p
      <4>1. <<p, v, now>> \in history'
        BY <2>2, <3>1, <1>1 DEF Gone
      <4> QED
        BY <3>1, <4>1 DEF Named
    <3>2. CASE q # p
      <4>1. at[q] \in DOMAIN file /\ at'[q] = at[q]
        BY <2>2, <3>2, <1>4, VersionTypes DEF Inv
      <4> QED
        BY <2>2, <4>1, <1>3 DEF Named
    <3> QED
      BY <3>1, <3>2
  <2> QED
    BY <1>6, <2>1, <2>2 DEF Named
<1>7. ASSUME NEW q \in Paths, NEW k \in DOMAIN file, Named(q, Version(k)) PROVE Named(q, Version(k))'
  <2>1. PICK v : v = Version(k) /\ v = Version(k)'
    BY <1>3
  <2>2. Named(q, v)'
    BY <1>6, <1>7, <2>1
  <2> QED
    BY <2>1, <2>2 DEF Named
<1>8. Owned'
  <2>1. ASSUME NEW q \in Paths, NEW r \in Paths, at'[q] # None, at'[q] = at'[r] PROVE q = r
    <3>1. \A s \in Paths : s # p => at'[s] # new
      <4>1. new # None
        BY <1>1, NoneAssumption, SizesAssumption DEF Inv, FsTypes, new
      <4>2. \A s \in Paths : at[s] \in DOMAIN file \cup {None}
        BY DEF Inv, FsTypes
      <4> QED
        BY <4>1, <4>2, <1>2, <1>4
    <3> QED
      BY <2>1, <3>1, <1>4 DEF Names, Owned
  <2>2. ASSUME NEW h \in history', NEW q \in Paths, at'[q] # None, h[2][1] = at'[q] PROVE h[1] = q
    <3>1. h[2][1] \in DOMAIN file
      BY GoneFacts, VersionTypes, <1>1 DEF Inv, FsTypes
    <3>2. q # p /\ at'[q] = at[q]
      BY <2>2, <3>1, <1>2, <1>4
    <3>3. CASE h \in history
      BY <2>2, <3>2, <3>3 DEF Names, Owned
    <3>4. CASE h \in Gone(p)
      BY <2>2, <3>2, <3>4, GoneFacts DEF Names, Owned
    <3> QED
      BY <3>3, <3>4, <1>1
  <2> QED
    BY <2>1, <2>2 DEF Owned
<1> QED
  BY <1>6, <1>7, <1>8 DEF Kept

LEMMA DeleteKeepsNames == ASSUME Inv, Names, NEW p \in Paths, Delete(p) PROVE Kept /\ Owned'
<1>1. /\ history' = history \cup Gone(p) /\ at' = [at EXCEPT ![p] = None] /\ UNCHANGED file
  BY DEF Delete
<1>2. at'[p] = None /\ \A q \in Paths : q # p => at'[q] = at[q]
  BY <1>1 DEF Inv, FsTypes
<1>3. \A g : Version(g)' = Version(g)
  BY <1>1 DEF Version
<1>4. \A h \in history : h \in history'
  BY <1>1
<1>5. ASSUME NEW q \in Paths, NEW v, Named(q, v) PROVE Named(q, v)'
  <2>1. CASE \E h \in history : h[1] = q /\ h[2] = v
    BY <2>1, <1>4 DEF Named
  <2>2. CASE at[q] # None /\ v = Version(at[q])
    <3>1. CASE q = p
      <4>1. <<p, v, now>> \in history'
        BY <2>2, <3>1, <1>1 DEF Gone
      <4> QED
        BY <3>1, <4>1 DEF Named
    <3>2. CASE q # p
      BY <2>2, <3>2, <1>2, <1>3 DEF Named
    <3> QED
      BY <3>1, <3>2
  <2> QED
    BY <1>5, <2>1, <2>2 DEF Named
<1>6. ASSUME NEW q \in Paths, NEW k \in DOMAIN file, Named(q, Version(k)) PROVE Named(q, Version(k))'
  <2>1. PICK v : v = Version(k) /\ v = Version(k)'
    BY <1>3
  <2>2. Named(q, v)'
    BY <1>5, <1>6, <2>1
  <2> QED
    BY <2>1, <2>2 DEF Named
<1>7. Owned'
  <2>1. ASSUME NEW h \in history', NEW q \in Paths, at'[q] # None, h[2][1] = at'[q] PROVE h[1] = q
    <3>1. q # p /\ at'[q] = at[q]
      BY <2>1, <1>2
    <3>2. CASE h \in history
      BY <2>1, <3>1, <3>2 DEF Names, Owned
    <3>3. CASE h \in Gone(p)
      BY <2>1, <3>1, <3>3, GoneFacts DEF Names, Owned
    <3> QED
      BY <3>2, <3>3, <1>1
  <2> QED
    BY <2>1, <1>2 DEF Names, Owned
<1> QED
  BY <1>5, <1>6, <1>7 DEF Kept

\* A step of a request leaves what paths have named alone: what it answers, or keeps, has a name.
LEMMA NamesStep ==
  ASSUME Inv, Names, UNCHANGED fsVars, NEW w \in Workers, NEW r, GoodName(r),
         req' = [req EXCEPT ![w] = r],
         \A p \in Paths : cache'[p] # None =>
            Named(p, <<cache'[p].fd, cache'[p].meta.attr>>)
  PROVE  Names'
<1>1. UNCHANGED <<at, file, history>>
  BY DEF fsVars
<1>2. \A g : Version(g)' = Version(g)
  BY <1>1 DEF Version
<1>3. \A p, v : Named(p, v)' <=> Named(p, v)
  BY <1>1 DEF Named, Version
<1>4. req'[w] = r /\ \A v \in Workers : v # w => req'[v] = req[v]
  BY DEF Inv, RequestTypes
<1>5. ASSUME NEW v \in Workers PROVE GoodName(req[v])'
  <2>1. GoodName(req'[v])
    BY <1>4 DEF Names
  <2> QED
    BY <2>1, <1>1 DEF GoodName, Named, Version
<1>6. \A p \in Paths : EntryNamed(p)'
  BY <1>1 DEF EntryNamed, Named, Version
<1> QED
  BY <1>1, <1>5, <1>6 DEF Names, Owned

\* Used up or not, what the cache keeps is named, and so is what a hit answers from.
LEMMA UsedIsNamed ==
  ASSUME Inv, Names, NEW w \in Workers, NEW p \in Paths, cache[p] # None, NEW v, NEW how,
         cache' = Used(p, v)
  PROVE  /\ GoodName(Hit(w, p, how))
         /\ \A q \in Paths : cache'[q] # None => Named(q, <<cache'[q].fd, cache'[q].meta.attr>>)
<1>1. PICK e \in Entries : e = cache[p] /\ Named(p, <<e.fd, e.meta.attr>>)
  BY DEF Inv, GoodCache, GoodEntry, Names, EntryNamed
<1>2. PICK old \in Requests : old = req[w]
  BY DEF Inv, RequestTypes
<1> DEFINE r == [old EXCEPT !.pc = "done", !.path = p, !.fd = e.fd, !.meta = e.meta,
                            !.since = now, !.how = how]
           entry == [e EXCEPT !.used = clock'[ShardOf[p]], !.validatedAt = v]
<1>3. Hit(w, p, how) = r
  BY <1>1, <1>2 DEF Hit
<1>4. r.pc = "done" /\ r.path = p /\ r.fd = e.fd /\ r.meta = e.meta
  BY <1>2 DEF Requests
<1>5. entry.fd = e.fd /\ entry.meta = e.meta
  BY <1>1 DEF Entries
<1>6. cache' = [cache EXCEPT ![p] = entry]
  BY <1>1 DEF Used, Inv, CacheTypes
<1> HIDE DEF r, entry
<1>7. cache'[p] = entry /\ \A q \in Paths : q # p => cache'[q] = cache[q]
  BY <1>6 DEF Inv, CacheTypes
<1>8. GoodName(r)
  BY <1>1, <1>4 DEF GoodName
<1>9. ASSUME NEW q \in Paths, cache'[q] # None PROVE Named(q, <<cache'[q].fd, cache'[q].meta.attr>>)
  BY <1>1, <1>5, <1>7, <1>9 DEF Names, EntryNamed
<1> QED
  BY <1>3, <1>8, <1>9

LEMMA NamesInit == Init => Names
<1> SUFFICES ASSUME Init PROVE Names
  OBVIOUS
<1>1. Owned
  BY BornAssumption DEF Init, Owned
<1>2. \A w \in Workers : req[w].pc = "idle" /\ req[w].fd = None
  BY DEF Init, Idle
<1>3. \A w \in Workers : GoodName(req[w])
  BY <1>2 DEF GoodName
<1>4. \A p \in Paths : EntryNamed(p)
  BY DEF Init, EntryNamed
<1> QED
  BY <1>1, <1>3, <1>4 DEF Names

LEMMA NamesNext == Inv /\ Names /\ [Next]_vars => Names'
<1> SUFFICES ASSUME Inv, Names, [Next]_vars PROVE Names'
  OBVIOUS
<1>1. CASE FileSystem
  <2>1. Kept /\ Owned'
    BY <1>1, WriteKeepsNames, ReplaceKeepsNames, DeleteKeepsNames DEF FileSystem
  <2>2. UNCHANGED <<cache, req>>
    BY <1>1 DEF FileSystem, WriteInPlace, Replace, Delete
  <2> QED
    BY <2>1, <2>2, ChangeKeepsNames
<1>2. CASE Tick \/ UNCHANGED vars
  <2>1. UNCHANGED <<fsVars, cache, req>>
    BY <1>2 DEF Tick, vars
  <2> QED
    BY <2>1 DEF fsVars, Names, Owned, GoodName, EntryNamed, Named, Version
<1>3. ASSUME NEW w \in Workers, Request(w) PROVE Names'
  <2>1. UNCHANGED fsVars
    BY <1>3 DEF Request, GetFresh, Lstat, Remove, Get, Open, Fstat, BuildFails, Insert, Finish
  <2>2. PICK q \in Requests : q = req[w] /\ GoodRequest(q) /\ GoodName(q)
    BY DEF Inv, RequestTypes, GoodRequests, Names
  <2>3. \A p \in Paths : cache[p] # None => Named(p, <<cache[p].fd, cache[p].meta.attr>>)
    BY DEF Names, EntryNamed
\* A step that leaves the entries alone and answers nothing.
  <2>4. ASSUME NEW r, GoodName(r), req' = [req EXCEPT ![w] = r], UNCHANGED cache PROVE Names'
    BY <2>1, <2>3, <2>4, NamesStep
  <2>5. GoodName(NotFound(w)) /\ GoodName([NotFound(w) EXCEPT !.how = "error"]) /\ GoodName(Idle)
    BY DEF GoodName, NotFound, Idle
  <2>6. ASSUME NEW p \in Paths, GetFresh(w, p) PROVE Names'
    <3>1. CASE Fresh(p) /\ cache' = Used(p, cache[p].validatedAt) /\ req' = [req EXCEPT ![w] = Hit(w, p, "fresh")]
      BY <3>1, <2>1, UsedIsNamed, NamesStep DEF Fresh
    <3>2. CASE UNCHANGED cache /\ req' = [req EXCEPT ![w].pc = "lstat", ![w].path = p]
      <4> DEFINE r == [q EXCEPT !.pc = "lstat", !.path = p]
      <4>1. req' = [req EXCEPT ![w] = r] /\ r.pc = "lstat"
        BY <3>2, <2>2 DEF Inv, RequestTypes, Requests
      <4> HIDE DEF r
      <4> QED
        BY <3>2, <4>1, <2>4 DEF GoodName
    <3> QED
      BY <2>6, <3>1, <3>2 DEF GetFresh
  <2>7. CASE Lstat(w)
    <3>1. CASE req' = [req EXCEPT ![w] = NotFound(w)]
      BY <2>4, <2>5, <2>7, <3>1 DEF Lstat
    <3>2. CASE at[q.path] = None
      <4> DEFINE r == [q EXCEPT !.pc = "remove"]
      <4>1. req' = [req EXCEPT ![w] = r] /\ r.pc = "remove"
        BY <3>2, <2>2, <2>7 DEF Lstat, Requests
      <4> HIDE DEF r
      <4> QED
        BY <2>7, <4>1, <2>4 DEF GoodName, Lstat
    <3>3. CASE at[q.path] # None /\ file[at[q.path]].regular
      <4> DEFINE r == [q EXCEPT !.pc = "get", !.seen = Meta(at[q.path]), !.saw = at[q.path], !.since = now]
      <4>1. req' = [req EXCEPT ![w] = r] /\ r.pc = "get"
        BY <3>3, <2>2, <2>7 DEF Lstat, Requests
      <4> HIDE DEF r
      <4> QED
        BY <2>7, <4>1, <2>4 DEF GoodName, Lstat
    <3> QED
      BY <2>2, <2>7, <3>1, <3>2, <3>3 DEF Lstat
  <2>8. CASE Remove(w)
    <3>1. cache' = [cache EXCEPT ![q.path] = None] /\ req' = [req EXCEPT ![w] = NotFound(w)]
      BY <2>2, <2>8 DEF Remove
    <3>2. \A p \in Paths : cache'[p] # None => cache'[p] = cache[p]
      BY <3>1 DEF Inv, CacheTypes
    <3> QED
      BY <3>1, <3>2, <2>1, <2>3, <2>5, NamesStep
  <2>9. CASE Get(w)
    <3>1. q.path \in Paths
      BY <2>2, <2>9 DEF Get, GoodRequest
    <3>2. CASE Matches(q.path, q.seen) /\ cache' = Used(q.path, now) /\ req' = [req EXCEPT ![w] = Hit(w, q.path, "validated")]
      BY <3>1, <3>2, <2>1, UsedIsNamed, NamesStep DEF Matches
    <3>3. CASE UNCHANGED cache /\ req' = [req EXCEPT ![w].pc = "open"]
      <4> DEFINE r == [q EXCEPT !.pc = "open"]
      <4>1. req' = [req EXCEPT ![w] = r] /\ r.pc = "open"
        BY <3>3, <2>2 DEF Inv, RequestTypes, Requests
      <4> HIDE DEF r
      <4> QED
        BY <3>3, <4>1, <2>4 DEF GoodName
    <3> QED
      BY <2>2, <2>9, <3>2, <3>3 DEF Get
  <2>10. CASE Open(w)
    <3>1. UNCHANGED cache
      BY <2>10 DEF Open
    <3>2. CASE at[q.path] # None /\ req' = [req EXCEPT ![w].pc = "fstat", ![w].fd = at[q.path], ![w].since = now]
      <4> DEFINE r == [q EXCEPT !.pc = "fstat", !.fd = at[q.path], !.since = now]
      <4>1. req' = [req EXCEPT ![w] = r] /\ r.pc = "fstat" /\ r.path = q.path /\ r.fd = at[q.path]
        BY <3>2, <2>2 DEF Inv, RequestTypes, Requests
      <4> HIDE DEF r
      <4>2. Named(r.path, Version(r.fd))
        BY <3>2, <4>1 DEF Named
      <4> QED
        BY <3>1, <4>1, <4>2, <2>4 DEF GoodName
    <3>3. CASE req' = [req EXCEPT ![w] = NotFound(w)]
      BY <3>1, <3>3, <2>4, <2>5
    <3> QED
      BY <2>2, <2>10, <3>2, <3>3 DEF Open
  <2>11. CASE Fstat(w)
    <3> DEFINE r == [q EXCEPT !.pc = "insert", !.meta = Meta(q.fd)]
    <3>1. q.pc = "fstat" /\ req' = [req EXCEPT ![w] = r] /\ UNCHANGED cache
      BY <2>2, <2>11 DEF Fstat, Inv, RequestTypes, Requests
    <3>2. /\ r.pc = "insert" /\ r.path = q.path /\ r.fd = q.fd /\ r.meta = Meta(q.fd)
          /\ r.meta.attr = file[q.fd].attr
      BY <2>2 DEF Requests, Meta
    <3> HIDE DEF r
    <3>3. Named(r.path, <<r.fd, r.meta.attr>>)
      BY <3>1, <3>2, <2>2 DEF GoodName, Version
    <3> QED
      BY <3>1, <3>2, <3>3, <2>4 DEF GoodName
  <2>12. CASE BuildFails(w)
    BY <2>4, <2>5, <2>12 DEF BuildFails
  <2>13. CASE Insert(w)
    <3> DEFINE p == q.path
               entry == [fd |-> q.fd, meta |-> q.meta,
                         used |-> clock[ShardOf[p]] + 1, validatedAt |-> now]
               r == [q EXCEPT !.pc = "done", !.since = now, !.how = "opened"]
    <3>1. q.pc = "insert" /\ p \in Paths /\ q.fd # None
      <4>1. q.pc = "insert"
        BY <2>2, <2>13 DEF Insert
      <4>2. q.fd \in DOMAIN file
        BY <4>1, <2>2 DEF GoodRequest, Described
      <4> QED
        BY <4>1, <4>2, <2>2, NoneAssumption, SizesAssumption DEF GoodRequest, Inv, FsTypes, Generations
    <3>2. Named(p, <<q.fd, q.meta.attr>>)
      BY <3>1, <2>2 DEF GoodName
    <3>3. cache' = [x \in Paths |-> IF x = p THEN entry
                                    ELSE IF Full(p) /\ x = Oldest(ShardOf[p]) THEN None
                                    ELSE cache[x]]
      BY <2>2, <2>13 DEF Insert
    <3>4. entry.fd = q.fd /\ entry.meta = q.meta
      OBVIOUS
    <3>5. req' = [req EXCEPT ![w] = r]
      BY <2>2, <2>13 DEF Insert, Inv, RequestTypes, Requests
    <3>6. r.pc = "done" /\ r.path = p /\ r.fd = q.fd /\ r.meta = q.meta
      BY <2>2 DEF Requests
    <3> HIDE DEF entry, r
    <3>7. GoodName(r)
      BY <3>2, <3>6 DEF GoodName
    <3>8. \A x \in Paths : cache'[x] # None => cache'[x] = cache[x] \/ (x = p /\ cache'[x] = entry)
      BY <3>3
    <3>9. ASSUME NEW x \in Paths, cache'[x] # None
          PROVE  Named(x, <<cache'[x].fd, cache'[x].meta.attr>>)
      <4>1. CASE cache'[x] = cache[x]
        BY <3>9, <4>1, <2>3
      <4>2. CASE x = p /\ cache'[x] = entry
        BY <4>2, <3>2, <3>4
      <4> QED
        BY <3>8, <3>9, <4>1, <4>2
    <3> QED
      BY <3>5, <3>7, <3>9, <2>1, NamesStep
  <2>14. CASE Finish(w)
    BY <2>4, <2>5, <2>14 DEF Finish
  <2> QED
    BY <1>3, <2>6, <2>7, <2>8, <2>9, <2>10, <2>11, <2>12, <2>13, <2>14 DEF Request
<1> QED
  BY <1>1, <1>2, <1>3 DEF Next

\* An answer's descriptor and its metadata (inode number; size and time) are one version of a file,
\* which the path of the request names or has named, whatever was replaced or rewritten between
\* lstat, open, fstat, the insertion and the lookups that found the entry.
THEOREM AnswerDescribesItsFile == Spec => []MetaIsOfFile
<1>1. Inv /\ Names => MetaIsOfFile
  <2> SUFFICES ASSUME Inv, Names, NEW w \in Workers, req[w].pc = "done", req[w].fd # None
               PROVE  /\ req[w].meta.ino = file[req[w].fd].ino
                      /\ Named(req[w].path, <<req[w].fd, req[w].meta.attr>>)
    BY DEF MetaIsOfFile
  <2>1. req[w].meta.ino = file[req[w].fd].ino
    BY DEF Inv, GoodRequests, GoodRequest, Described
  <2>2. Named(req[w].path, <<req[w].fd, req[w].meta.attr>>)
    BY DEF Names, GoodName
  <2> QED
    BY <2>1, <2>2
<1>2. Spec => [](Inv /\ Names)
  BY InitInv, NextInv, NamesInit, NamesNext, PTL DEF Spec
<1> QED
  BY <1>1, <1>2, PTL

\* An inode number may be given again, but not while the cache holds the old file: what get's
\* comparison accepts is never older than the file lstat saw.
THEOREM ValidatedIsNoOlder == Spec => []ValidatedIsNotOlder
<1>1. Inv => ValidatedIsNotOlder
  BY DEF Inv, GoodRequests, GoodRequest, ValidatedIsNotOlder
<1> QED
  BY <1>1, Invariance, PTL

\* What is answered was replaced at most Ttl - 1 + Stall ago, however often and by whomever the
\* files are changed: the validity of a check and the time a request took that made it.
THEOREM StalenessIsBounded == Spec => []BoundedStaleness
<1>1. Inv => BoundedStaleness
  BY DEF Inv, GoodRequests, GoodRequest, Recent, BoundedStaleness, StaleFor
<1> QED
  BY <1>1, Invariance, PTL
-----------------------------------------------------------------------------
(* The refinement of LruShards.  Every step of a request that answers it   *)
(* from the cache, or inserts, is a use of its path; Remove drops it; the  *)
(* others change neither the entries nor the answers.                      *)

\* The clock of a shard tells the order of use: no two entries have the same number, and the next
\* number is a new one.
UsedInv ==
  \A p \in Paths : cache[p] # None =>
    /\ cache[p].used <= clock[ShardOf[p]]
    /\ \A q \in Paths : cache[q] # None /\ ShardOf[q] = ShardOf[p] /\ cache[q].used = cache[p].used => q = p

LEMMA UsedTypes == ASSUME Inv PROVE \A p \in Paths : cache[p] # None => cache[p].used \in Nat
BY DEF Inv, GoodCache, GoodEntry, Entries

\* A step that leaves the cache alone, and the request of w unanswered.
LEMMA QuietStep ==
  ASSUME Inv, NEW w \in Workers, NEW r, ~Answered(w), r.pc # "done" \/ r.fd = None,
         req' = [req EXCEPT ![w] = r], UNCHANGED cache
  PROVE  UNCHANGED Lru!vars
<1>1. req'[w] = r /\ \A v \in Workers : v # w => req'[v] = req[v]
  BY DEF Inv, RequestTypes
<1>2. \A v \in Workers : Answered(v)' = Answered(v) /\ (Answered(v) => req'[v].path = req[v].path)
  BY <1>1 DEF Answered
<1>3. \A s \in Shards : InShard(s)' = InShard(s) /\ UsedAfter(s)' = UsedAfter(s)
  BY DEF InShard, UsedAfter
<1> QED
  BY <1>2, <1>3 DEF Lru!vars

\* The request of w is answered with the path p.
LEMMA AnswerStep ==
  ASSUME Inv, NEW w \in Workers, NEW p \in Paths, NEW r, ~Answered(w), r.pc = "done", r.fd # None,
         r.path = p, req' = [req EXCEPT ![w] = r]
  PROVE  Lru!Answer(w, p)
<1>1. req'[w] = r /\ \A v \in Workers : v # w => req'[v] = req[v]
  BY DEF Inv, RequestTypes
<1>2. \A v \in Workers : v # w => Answered(v)' = Answered(v) /\ req'[v].path = req[v].path
  BY <1>1 DEF Answered
<1>3. Answered(w)' /\ req'[w].path = p
  BY <1>1 DEF Answered
<1> QED
  BY <1>2, <1>3 DEF Lru!Answer

\* The clock of the shard of p counts, of the other entries those of rest stay as they are, and
\* p has the new number.
LEMMA ToFrontStep ==
  ASSUME Inv, UsedInv, NEW p \in Paths, Lookup(p), NEW rest \in SUBSET (InShard(ShardOf[p]) \ {p}),
         cache'[p] # None, cache'[p].used = clock[ShardOf[p]] + 1,
         \A q \in rest : cache'[q] = cache[q],
         \A q \in Paths \ {p} : q \notin rest /\ ShardOf[q] = ShardOf[p] => cache'[q] = None,
         \A q \in Paths : ShardOf[q] # ShardOf[p] => cache'[q] = cache[q]
  PROVE  Lru!ToFront(p, rest) /\ UsedInv'
<1> DEFINE s == ShardOf[p]
<1>1. s \in Shards /\ clock[s] \in Nat /\ clock'[s] = clock[s] + 1
  BY ShardsAssumption DEF Lookup, Inv, CacheTypes
<1>2. \A t \in Shards : t # s => clock'[t] = clock[t]
  BY DEF Lookup, Inv, CacheTypes
<1>3. \A q \in InShard(s) : cache[q].used \in Nat /\ cache[q].used <= clock[s]
  BY UsedTypes DEF InShard, UsedInv
<1>4. InShard(s)' = rest \cup {p}
  BY <1>1 DEF InShard
<1>5. \A t \in Shards : t # s => InShard(t)' = InShard(t) /\ UsedAfter(t)' = UsedAfter(t)
  BY DEF InShard, UsedAfter
<1>6. \A q \in rest : cache'[q] = cache[q] /\ cache[q].used \in Nat /\ cache[q].used < cache'[p].used /\ q # p
  BY <1>1, <1>3
<1>7. UsedAfter(s)' = (UsedAfter(s) \cap (rest \X rest)) \cup ({p} \X rest)
  <2>1. ASSUME NEW q \in rest, NEW o \in rest PROVE <<q, o>> \in UsedAfter(s)' <=> <<q, o>> \in UsedAfter(s)
    BY <1>4, <1>6 DEF UsedAfter
  <2>2. ASSUME NEW q \in rest PROVE <<p, q>> \in UsedAfter(s)'
    BY <1>4, <1>6 DEF UsedAfter
  <2>3. ASSUME NEW q \in rest PROVE <<q, p>> \notin UsedAfter(s)'
    BY <1>1, <1>6 DEF UsedAfter
  <2>4. <<p, p>> \notin UsedAfter(s)'
    BY <1>1 DEF UsedAfter
  <2>5. UsedAfter(s)' \subseteq (rest \cup {p}) \X (rest \cup {p})
    BY <1>4 DEF UsedAfter
  <2> QED
    BY <2>1, <2>2, <2>3, <2>4, <2>5
<1>8. Lru!ToFront(p, rest)
  BY <1>1, <1>4, <1>5, <1>7 DEF Lru!ToFront
<1>9. UsedInv'
  <2>1. ASSUME NEW q \in Paths, cache'[q] # None PROVE cache'[q].used <= clock'[ShardOf[q]]
    BY <1>1, <1>2, <1>3, <1>6, <2>1, ShardsAssumption DEF UsedInv
  <2>2. ASSUME NEW q \in Paths, cache'[q] # None, NEW o \in Paths, cache'[o] # None,
               ShardOf[o] = ShardOf[q], cache'[o].used = cache'[q].used
        PROVE  o = q
    <3>1. CASE ShardOf[q] # s
      BY <2>2, <3>1 DEF UsedInv
    <3>2. CASE ShardOf[q] = s
      <4>1. (q = p \/ q \in rest) /\ (o = p \/ o \in rest)
        BY <2>2, <3>2
      <4>2. CASE q = p \/ o = p
        BY <4>1, <4>2, <2>2, <1>1, <1>6
      <4>3. CASE q \in rest /\ o \in rest
        BY <4>3, <2>2, <1>6 DEF UsedInv, InShard
      <4> QED
        BY <4>1, <4>2, <4>3
    <3> QED
      BY <3>1, <3>2
  <2> QED
    BY <2>1, <2>2 DEF UsedInv
<1> QED
  BY <1>8, <1>9

\* A lookup that hits is a use.
LEMMA UseStep ==
  ASSUME Inv, UsedInv, NEW w \in Workers, NEW p \in Paths, cache[p] # None, Lookup(p), NEW v \in Nat,
         NEW how \in {"fresh", "validated"}, ~Answered(w), cache' = Used(p, v),
         req' = [req EXCEPT ![w] = Hit(w, p, how)]
  PROVE  Lru!Use(w, p) /\ UsedInv'
<1> DEFINE rest == InShard(ShardOf[p]) \ {p}
<1>1. ShardOf[p] \in Shards /\ clock'[ShardOf[p]] = clock[ShardOf[p]] + 1
  BY ShardsAssumption DEF Lookup, Inv, CacheTypes
<1>2. PICK e \in Entries : e = cache[p] /\ e.fd # None
  BY NoneAssumption DEF Inv, GoodCache, GoodEntry, Entries
<1>3. PICK n : n = clock'[ShardOf[p]]
  OBVIOUS
<1> DEFINE entry == [e EXCEPT !.used = n, !.validatedAt = v]
<1>4. cache' = [cache EXCEPT ![p] = entry]
  BY <1>2, <1>3 DEF Used, Inv, CacheTypes
<1>0. n \in Nat /\ n = clock[ShardOf[p]] + 1
  BY <1>1, <1>3 DEF Inv, CacheTypes
<1>5. entry \in Entries /\ entry.used = n
  BY <1>0, <1>2 DEF Entries
<1> HIDE DEF entry
<1>6. /\ cache'[p] # None /\ cache'[p].used = clock[ShardOf[p]] + 1
      /\ \A q \in Paths \ {p} : cache'[q] = cache[q]
  BY <1>0, <1>4, <1>5, NoneAssumption DEF Inv, CacheTypes
<1>7. \A q \in Paths \ {p} : ShardOf[q] = ShardOf[p] /\ q \notin rest => cache'[q] = None
  BY <1>1, <1>6 DEF InShard
<1>8. Lru!ToFront(p, rest) /\ UsedInv'
  <2>1. \A q \in rest : cache'[q] = cache[q]
    BY <1>6 DEF InShard
  <2> HIDE DEF rest
  <2>2. rest \in SUBSET (InShard(ShardOf[p]) \ {p})
    BY DEF rest
  <2> QED
    BY <1>6, <1>7, <2>1, <2>2, ToFrontStep
<1> DEFINE r == Hit(w, p, how)
<1>9. r.pc = "done" /\ r.path = p /\ r.fd = e.fd
  <2>1. PICK old \in Requests : old = req[w]
    BY DEF Inv, RequestTypes
  <2> QED
    BY <1>2, <2>1 DEF Hit, Requests
<1> HIDE DEF r
<1>10. Lru!Answer(w, p)
  BY <1>2, <1>9, AnswerStep DEF r
<1>11. p \in InShard(ShardOf[p])
  BY DEF InShard
<1>12. Lru!Use(w, p)
  BY <1>1, <1>8, <1>10, <1>11 DEF Lru!Use, Lru!Others
<1> QED
  BY <1>8, <1>12

\* A path that is removed is dropped, if the shard has it.
LEMMA DropStep ==
  ASSUME Inv, UsedInv, NEW w \in Workers, Remove(w), ~Answered(w)
  PROVE  (\E p \in Paths : Lru!Drop(p)) /\ UsedInv'
<1>1. PICK p \in Paths : p = req[w].path
  BY DEF Inv, GoodRequests, GoodRequest, Remove
<1> DEFINE s == ShardOf[p]
           rest == InShard(s) \ {p}
<1>2. cache' = [cache EXCEPT ![p] = None] /\ UNCHANGED clock /\ req' = [req EXCEPT ![w] = NotFound(w)]
  BY <1>1 DEF Remove
<1>3. cache'[p] = None /\ \A q \in Paths \ {p} : cache'[q] = cache[q]
  BY <1>2 DEF Inv, CacheTypes
<1>4. s \in Shards /\ InShard(s)' = rest /\ \A t \in Shards : t # s => InShard(t)' = InShard(t)
  BY <1>3, ShardsAssumption DEF InShard
<1>5. UsedAfter(s)' = UsedAfter(s) \cap (rest \X rest)
  BY <1>3, <1>4 DEF UsedAfter, InShard
<1>6. \A t \in Shards : t # s => UsedAfter(t)' = UsedAfter(t)
  BY <1>3, <1>4 DEF UsedAfter, InShard
<1>7. Lru!KeepOnly(p, Lru!Others(p))
  BY <1>4, <1>5, <1>6 DEF Lru!KeepOnly, Lru!Others
<1>8. req'[w] = NotFound(w) /\ \A v \in Workers : v # w => req'[v] = req[v]
  BY <1>2 DEF Inv, RequestTypes
<1>9. NotFound(w).fd = None
  BY DEF NotFound, Idle
<1>10. \A v \in Workers : Answered(v)' = Answered(v) /\ (Answered(v) => req'[v].path = req[v].path)
  BY <1>8, <1>9 DEF Answered
<1>11. Lru!Drop(p)
  BY <1>7, <1>10 DEF Lru!Drop
<1>12. UsedInv'
  BY <1>2, <1>3 DEF UsedInv
<1> QED
  BY <1>11, <1>12


\* The oldest entry of a shard is, of them all, the one used longest ago.
LEMMA OldestIsLast ==
  ASSUME Inv, UsedInv, NEW p \in Paths, cache[p] = None, InShard(ShardOf[p]) # {}
  PROVE  Lru!Last(p) = {Oldest(ShardOf[p])}
<1> DEFINE s == ShardOf[p]
<1>1. s \in Shards /\ p \notin InShard(s)
  BY ShardsAssumption DEF InShard
<1>2. Lru!Others(p) = InShard(s)
  BY <1>1 DEF Lru!Others
<1>3. PICK o \in InShard(s) : o = Oldest(s)
  BY <1>1, OldestIsInShard
<1>4. \A q \in InShard(s) : cache[q].used \in Nat
  BY UsedTypes DEF InShard
<1>5. \A q \in InShard(s) : cache[o].used <= cache[q].used
  <2>1. \E q \in InShard(s) : \A r \in InShard(s) : cache[q].used <= cache[r].used
    <3> DEFINE V == {cache[q].used : q \in InShard(s)}
    <3>1. V \subseteq Nat /\ V # {}
      BY <1>4
    <3> HIDE DEF V
    <3>2. PICK m \in V : \A n \in V : m <= n
      BY <3>1, Minimum
    <3> QED
      BY <3>2 DEF V
  <2> QED
    BY <2>1, <1>3 DEF Oldest
<1>6. ASSUME NEW q \in InShard(s), NEW r \in InShard(s)
      PROVE  <<r, q>> \in UsedAfter(s) <=> cache[r].used > cache[q].used
  BY DEF UsedAfter
<1>7. ASSUME NEW q \in InShard(s), q # o PROVE cache[q].used > cache[o].used
  <2>1. cache[q].used # cache[o].used
    BY <1>7 DEF UsedInv, InShard
  <2> QED
    BY <2>1, <1>4, <1>5
<1>8. ASSUME NEW q \in InShard(s)
      PROVE  (\A r \in InShard(s) \ {q} : <<r, q>> \in UsedAfter(s)) <=> q = o
  <2>1. CASE q = o
    BY <2>1, <1>6, <1>7
  <2>2. CASE q # o
    <3>1. ~ cache[o].used > cache[q].used
      BY <1>4, <1>5
    <3>2. <<o, q>> \notin UsedAfter(s)
      BY <3>1, <1>6
    <3> QED
      BY <2>2, <3>2
  <2> QED
    BY <2>1, <2>2
<1> QED
  BY <1>1, <1>2, <1>3, <1>8 DEF Lru!Last

\* An insertion evicts the last of a shard that is full, and only when the path is not there.
LEMMA InsertIsInsert ==
  ASSUME Inv, UsedInv, NEW w \in Workers, Insert(w), ~Answered(w)
  PROVE  Lru!Insert(w, req[w].path) /\ UsedInv'
<1>1. PICK q \in Requests : q = req[w] /\ q.pc = "insert" /\ q.path \in Paths /\ q.fd \in Nat /\ q.meta \in Metas
  <2>1. GoodRequest(req[w]) /\ req[w].pc = "insert"
    BY DEF Inv, GoodRequests, Insert
  <2>2. Described(req[w])
    BY <2>1 DEF GoodRequest
  <2> QED
    BY <2>1, <2>2, SizesAssumption DEF GoodRequest, Described, Inv, FsTypes, Generations
<1>2. PICK p \in Paths : p = q.path
  BY <1>1
<1> DEFINE s == ShardOf[p]
           entry == [fd |-> q.fd, meta |-> q.meta, used |-> clock[s] + 1, validatedAt |-> now]
           rest == IF Full(p) THEN InShard(s) \ {Oldest(s)} ELSE InShard(s) \ {p}
<1>3. /\ Lookup(p)
      /\ cache' = [x \in Paths |-> IF x = p THEN entry
                                   ELSE IF Full(p) /\ x = Oldest(s) THEN None ELSE cache[x]]
  BY <1>1, <1>2 DEF Insert
<1>4. s \in Shards /\ clock[s] \in Nat /\ now \in Nat /\ Capacity \in Nat /\ Capacity > 0
  BY ShardsAssumption, SizesAssumption DEF Inv, CacheTypes, FsTypes
<1>5. entry \in Entries /\ entry.used = clock[s] + 1
  BY <1>1, <1>4 DEF Entries
<1> HIDE DEF entry
<1>6. cache'[p] # None /\ cache'[p].used = clock[s] + 1
  BY <1>3, <1>5, NoneAssumption
<1>7. \A x \in Paths \ {p} : cache'[x] = IF Full(p) /\ x = Oldest(s) THEN None ELSE cache[x]
  BY <1>3
\* The shard of an insertion that evicts is not empty, and does not have p.
<1>8. ASSUME Full(p) PROVE InShard(s) # {} /\ Oldest(s) \in InShard(s) /\ p \notin InShard(s)
  <2>1. InShard(s) # {}
    BY <1>4, <1>8, FS_EmptySet DEF Full
  <2> QED
    BY <2>1, <1>4, <1>8, OldestIsInShard DEF Full, InShard
<1>9. rest \in SUBSET (InShard(s) \ {p})
  BY <1>8
<1>10. \A x \in rest : cache'[x] = cache[x]
  BY <1>7, <1>9 DEF InShard
<1>11. \A x \in Paths \ {p} : x \notin rest /\ ShardOf[x] = s => cache'[x] = None
  BY <1>7 DEF InShard
<1>12. \A x \in Paths : ShardOf[x] # s => cache'[x] = cache[x]
  BY <1>7, <1>8 DEF InShard
<1>13. rest = IF Cardinality(Lru!Others(p)) < Capacity THEN Lru!Others(p) ELSE Lru!Others(p) \ Lru!Last(p)
  <2>1. /\ Lru!Others(p) = InShard(s) \ {p} /\ IsFiniteSet(InShard(s))
        /\ Cardinality(InShard(s)) \in Nat /\ Cardinality(InShard(s)) <= Capacity
    BY <1>4, FS_CardinalityType DEF Lru!Others, Inv, Bounded
  <2>2. CASE cache[p] # None
    <3>1. p \in InShard(s) /\ ~Full(p)
      BY <2>2 DEF InShard, Full
    <3>2. Cardinality(InShard(s) \ {p}) = Cardinality(InShard(s)) - 1
      BY <3>1, <2>1, FS_RemoveElement
    <3> QED
      BY <3>1, <3>2, <2>1, <1>4
  <2>3. CASE cache[p] = None
    <3>1. Lru!Others(p) = InShard(s) /\ InShard(s) \ {p} = InShard(s)
      BY <2>1, <2>3 DEF InShard
    <3>2. Full(p) <=> ~ Cardinality(Lru!Others(p)) < Capacity
      BY <2>1, <2>3, <3>1, <1>4 DEF Full
    <3>3. Full(p) => Lru!Last(p) = {Oldest(s)}
      BY <2>3, <1>8, OldestIsLast
    <3> QED
      BY <3>1, <3>2, <3>3
  <2> QED
    BY <2>2, <2>3
<1> HIDE DEF rest
<1>14. Lru!ToFront(p, rest) /\ UsedInv'
  BY <1>3, <1>6, <1>9, <1>10, <1>11, <1>12, ToFrontStep
<1> DEFINE r == [q EXCEPT !.pc = "done", !.since = now, !.how = "opened"]
<1>15. req' = [req EXCEPT ![w] = r]
  BY <1>1 DEF Insert, Inv, RequestTypes
<1>16. r.pc = "done" /\ r.path = p /\ r.fd = q.fd /\ r.fd # None
  BY <1>1, <1>2, NoneAssumption DEF Requests
<1> HIDE DEF r
<1>17. Lru!Answer(w, p)
  BY <1>15, <1>16, AnswerStep
<1>18. Lru!Insert(w, p)
  <2>1. Lru!ToFront(p, IF Cardinality(Lru!Others(p)) < Capacity THEN Lru!Others(p)
                       ELSE Lru!Others(p) \ Lru!Last(p))
    BY <1>13, <1>14, Zenon
  <2>2. ASSUME NEW T PROVE Lru!Cardinality(T) = Cardinality(T)
    BY Zenon DEF Cardinality, Lru!Cardinality
  <2> QED
    BY <1>17, <2>1, <2>2, Zenon DEF Lru!Insert
<1>19. p = req[w].path
  BY <1>1, <1>2
<1> QED
  BY <1>14, <1>18, <1>19, Zenon


LEMMA LruInit == Init => UsedInv /\ Lru!Init
<1> SUFFICES ASSUME Init PROVE UsedInv /\ Lru!Init
  OBVIOUS
<1>1. \A p \in Paths : cache[p] = None
  BY DEF Init
<1>2. \A w \in Workers : ~Answered(w)
  BY DEF Init, Answered, Idle
<1>3. \A s \in Shards : InShard(s) = {} /\ UsedAfter(s) = {}
  BY <1>1 DEF InShard, UsedAfter
<1> QED
  BY <1>1, <1>2, <1>3 DEF UsedInv, Lru!Init

\* Every step is one of LruShards, or leaves the entries, their order and the answers alone.
LEMMA LruNext == Inv /\ UsedInv /\ [Next]_vars => UsedInv' /\ [Lru!Next]_(Lru!vars)
<1> SUFFICES ASSUME Inv, UsedInv, [Next]_vars PROVE UsedInv' /\ [Lru!Next]_(Lru!vars)
  OBVIOUS
<1>1. ASSUME UNCHANGED <<cache, clock, req>> PROVE UsedInv' /\ UNCHANGED Lru!vars
  <2>1. UsedInv'
    BY <1>1 DEF UsedInv
  <2>2. \A s \in Shards : InShard(s)' = InShard(s) /\ UsedAfter(s)' = UsedAfter(s)
    BY <1>1 DEF InShard, UsedAfter
  <2>3. \A w \in Workers : Answered(w)' = Answered(w) /\ req'[w].path = req[w].path
    BY <1>1 DEF Answered
  <2> QED
    BY <2>1, <2>2, <2>3 DEF Lru!vars
<1>2. CASE FileSystem \/ Tick \/ UNCHANGED vars
  BY <1>1, <1>2 DEF FileSystem, WriteInPlace, Replace, Delete, Tick, vars
<1>3. ASSUME NEW w \in Workers, UNCHANGED cache, clock' = clock \/ \E p \in Paths : Lookup(p)
      PROVE  UsedInv'
  <2>1. \A p \in Paths : clock'[ShardOf[p]] >= clock[ShardOf[p]] /\ clock[ShardOf[p]] \in Nat /\ clock'[ShardOf[p]] \in Nat
    BY <1>3, ShardsAssumption DEF Lookup, Inv, CacheTypes
  <2>2. ASSUME NEW p \in Paths, cache[p] # None PROVE cache'[p].used <= clock'[ShardOf[p]]
    <3>1. cache[p].used \in Nat /\ cache[p].used <= clock[ShardOf[p]]
      BY <2>2, UsedTypes DEF UsedInv
    <3> QED
      BY <3>1, <2>1, <1>3
  <2> QED
    BY <2>2, <1>3 DEF UsedInv
\* A request that is not answered yet stays so, with the same entries.
<1>4. ASSUME NEW w \in Workers, ~Answered(w), UNCHANGED cache, NEW r, r.pc # "done" \/ r.fd = None,
             req' = [req EXCEPT ![w] = r], clock' = clock \/ \E p \in Paths : Lookup(p)
      PROVE  UsedInv' /\ UNCHANGED Lru!vars
  BY <1>3, <1>4, QuietStep
<1>5. ASSUME NEW w \in Workers, Request(w) PROVE UsedInv' /\ [Lru!Next]_(Lru!vars)
  <2>0. PICK q \in Requests : q = req[w]
    BY DEF Inv, RequestTypes
  <2>1. ASSUME NEW p \in Paths, GetFresh(w, p) PROVE UsedInv' /\ [Lru!Next]_(Lru!vars)
    <3>1. ~Answered(w) /\ Lookup(p)
      BY <2>1 DEF GetFresh, Answered
    <3>2. CASE Fresh(p) /\ cache' = Used(p, cache[p].validatedAt) /\ req' = [req EXCEPT ![w] = Hit(w, p, "fresh")]
      <4>1. cache[p] # None /\ cache[p].validatedAt \in Nat
        BY <3>2 DEF Fresh, Inv, GoodCache, GoodEntry, Entries
      <4>2. Lru!Use(w, p) /\ UsedInv'
        BY <3>1, <3>2, <4>1, UseStep
      <4> QED
        BY <4>2 DEF Lru!Next
    <3>3. CASE UNCHANGED cache /\ req' = [req EXCEPT ![w].pc = "lstat", ![w].path = p]
      <4> DEFINE r == [q EXCEPT !.pc = "lstat", !.path = p]
      <4>1. req' = [req EXCEPT ![w] = r] /\ r.pc # "done"
        BY <3>3, <2>0 DEF Inv, RequestTypes, Requests
      <4> HIDE DEF r
      <4> QED
        BY <3>1, <3>3, <4>1, <1>4
    <3> QED
      BY <2>1, <3>2, <3>3 DEF GetFresh
  <2>2. CASE Lstat(w)
    <3>1. ~Answered(w) /\ UNCHANGED <<cache, clock>>
      BY <2>2 DEF Lstat, Answered
    <3>2. PICK r : req' = [req EXCEPT ![w] = r] /\ (r.pc # "done" \/ r.fd = None)
      <4>1. CASE at[q.path] = None
        <5> DEFINE r == [q EXCEPT !.pc = "remove"]
        <5>1. req' = [req EXCEPT ![w] = r] /\ r.pc = "remove"
          BY <4>1, <2>0, <2>2 DEF Lstat, Requests
        <5> QED
          BY <5>1
      <4>2. CASE at[q.path] # None /\ ~file[at[q.path]].regular
        <5>1. req' = [req EXCEPT ![w] = NotFound(w)] /\ NotFound(w).fd = None
          BY <4>2, <2>0, <2>2 DEF Lstat, NotFound, Idle
        <5> QED
          BY <5>1
      <4>3. CASE at[q.path] # None /\ file[at[q.path]].regular
        <5> DEFINE r == [q EXCEPT !.pc = "get", !.seen = Meta(at[q.path]), !.saw = at[q.path], !.since = now]
        <5>1. req' = [req EXCEPT ![w] = r] /\ r.pc = "get"
          BY <4>3, <2>0, <2>2 DEF Lstat, Requests
        <5> QED
          BY <5>1
      <4> QED
        BY <4>1, <4>2, <4>3
    <3> QED
      BY <3>1, <3>2, <1>4
  <2>3. CASE Remove(w)
    <3>1. ~Answered(w)
      BY <2>3 DEF Remove, Answered
    <3>2. (\E p \in Paths : Lru!Drop(p)) /\ UsedInv'
      BY <2>3, <3>1, DropStep
    <3> QED
      BY <3>2 DEF Lru!Next
  <2>4. CASE Get(w)
    <3>1. PICK p \in Paths : p = req[w].path
      BY <2>4 DEF Get, Inv, GoodRequests, GoodRequest
    <3>2. ~Answered(w) /\ Lookup(p)
      BY <2>4, <3>1 DEF Get, Answered
    <3>3. CASE Matches(p, req[w].seen) /\ cache' = Used(p, now) /\ req' = [req EXCEPT ![w] = Hit(w, p, "validated")]
      <4>1. cache[p] # None /\ now \in Nat
        BY <3>3 DEF Matches, Inv, FsTypes
      <4>2. Lru!Use(w, p) /\ UsedInv'
        BY <3>2, <3>3, <4>1, UseStep
      <4> QED
        BY <4>2 DEF Lru!Next
    <3>4. CASE UNCHANGED cache /\ req' = [req EXCEPT ![w].pc = "open"]
      <4> DEFINE r == [q EXCEPT !.pc = "open"]
      <4>1. req' = [req EXCEPT ![w] = r] /\ r.pc # "done"
        BY <3>4, <2>0 DEF Inv, RequestTypes, Requests
      <4> HIDE DEF r
      <4> QED
        BY <3>2, <3>4, <4>1, <1>4
    <3> QED
      BY <2>4, <3>1, <3>3, <3>4 DEF Get
  <2>5. CASE Open(w)
    <3>1. ~Answered(w) /\ UNCHANGED <<cache, clock>>
      BY <2>5 DEF Open, Answered
    <3>2. PICK r : req' = [req EXCEPT ![w] = r] /\ (r.pc # "done" \/ r.fd = None)
      <4>1. CASE req' = [req EXCEPT ![w] = NotFound(w)]
        <5>1. NotFound(w).fd = None
          BY DEF NotFound, Idle
        <5> QED
          BY <4>1, <5>1
      <4>2. CASE req' = [req EXCEPT ![w].pc = "fstat", ![w].fd = at[req[w].path], ![w].since = now]
        <5> DEFINE r == [q EXCEPT !.pc = "fstat", !.fd = at[q.path], !.since = now]
        <5>1. req' = [req EXCEPT ![w] = r] /\ r.pc = "fstat"
          BY <4>2, <2>0 DEF Inv, RequestTypes, Requests
        <5> QED
          BY <5>1
      <4> QED
        BY <4>1, <4>2, <2>5 DEF Open
    <3> QED
      BY <3>1, <3>2, <1>4
  <2>6. CASE Fstat(w)
    <3>1. ~Answered(w) /\ UNCHANGED <<cache, clock>>
      BY <2>6 DEF Fstat, Answered
    <3> DEFINE r == [q EXCEPT !.pc = "insert", !.meta = Meta(q.fd)]
    <3>2. req' = [req EXCEPT ![w] = r] /\ r.pc # "done"
      BY <2>0, <2>6 DEF Fstat, Inv, RequestTypes, Requests
    <3> HIDE DEF r
    <3> QED
      BY <3>1, <3>2, <1>4
  <2>7. CASE BuildFails(w)
    <3>1. ~Answered(w) /\ UNCHANGED <<cache, clock>>
      BY <2>7 DEF BuildFails, Answered
    <3> DEFINE r == [NotFound(w) EXCEPT !.how = "error"]
    <3>2. req' = [req EXCEPT ![w] = r] /\ r.fd = None
      BY <2>7 DEF BuildFails, NotFound, Idle
    <3> HIDE DEF r
    <3> QED
      BY <3>1, <3>2, <1>4
  <2>8. CASE Insert(w)
    <3>1. ~Answered(w) /\ req[w].path \in Paths
      BY <2>8 DEF Insert, Answered, Inv, GoodRequests, GoodRequest
    <3>2. Lru!Insert(w, req[w].path) /\ UsedInv'
      BY <2>8, <3>1, InsertIsInsert
    <3> QED
      BY <3>1, <3>2 DEF Lru!Next
  <2>9. CASE Finish(w)
    <3>1. UNCHANGED <<cache, clock>> /\ req' = [req EXCEPT ![w] = Idle]
      BY <2>9 DEF Finish
    <3>2. req'[w] = Idle /\ Idle.fd = None /\ \A v \in Workers : v # w => req'[v] = req[v]
      BY <3>1, IdleIsGood DEF Inv, RequestTypes
    <3>3. ~Answered(w)' /\ \A v \in Workers : v # w => Answered(v)' = Answered(v) /\ req'[v].path = req[v].path
      BY <3>2 DEF Answered
    <3>4. \A s \in Shards : InShard(s)' = InShard(s) /\ UsedAfter(s)' = UsedAfter(s)
      BY <3>1 DEF InShard, UsedAfter
    <3>5. Lru!Done(w)
      BY <3>3, <3>4 DEF Lru!Done
    <3>6. UsedInv'
      BY <3>1 DEF UsedInv
    <3> QED
      BY <3>5, <3>6 DEF Lru!Next
  <2> QED
    BY <1>5, <2>1, <2>2, <2>3, <2>4, <2>5, <2>6, <2>7, <2>8, <2>9 DEF Request
<1> QED
  BY <1>2, <1>5 DEF Next

\* Whatever requests do at the same time, each shard keeps the Capacity paths used last of those
\* not removed since, and every answer is a use: an insertion into a full shard evicts the path
\* used longest ago, and only when the path is not there already.
THEOREM CacheIsLru == Spec => ImplementsLru
<1>1. Spec => [](Inv /\ UsedInv)
  BY InitInv, NextInv, LruInit, LruNext, PTL DEF Spec
<1> QED
  BY <1>1, LruInit, LruNext, PTL DEF Spec, ImplementsLru, Lru!Spec
=============================================================================
