--------------------------- MODULE Server_proofs ---------------------------
(***************************************************************************)
(* RoomForAConnection of Server, for any number of clients, files,         *)
(* requests, blocking tasks and descriptors.                               *)
(***************************************************************************)
EXTENDS Server, FiniteSetTheorems, TLAPS

Shapes ==
  /\ client \in [Clients -> {"away", "waiting", "connected"}]
  /\ req \in [Clients -> Requests \cup {None}]
  /\ job \in [Threads -> Tasks \cup {None}]
  /\ cache \in [Files -> 0..Limit]

\* A request is that of a connection.
Attended == \A c \in Clients : req[c] # None => client[c] = "connected"

\* A task that has a client is that of its request.
Awaited == \A c \in Clients : Working(c) # {} => req[c] # None

\* The descriptors of the entries of the cache, and of all open files.
Cached == {cache[f] : f \in Files} \ {0}
Held   == Opened \ {0}

\* The cache alone never has them all.
CacheLeavesOne == Cardinality(Cached) < Limit

Inv == Shapes /\ Attended /\ Awaited /\ CacheLeavesOne

-----------------------------------------------------------------------------
(* Counting. *)

\* What is opened is at most one more.
LEMMA Grows ==
  ASSUME NEW P, NEW Q, NEW x, IsFiniteSet(P), Q \subseteq P \cup {x}
  PROVE  /\ IsFiniteSet(Q)
         /\ Cardinality(P) \in Nat /\ Cardinality(Q) \in Nat
         /\ Cardinality(Q) <= Cardinality(P) + 1
<1>1. IsFiniteSet(P \cup {x}) /\ Cardinality(P \cup {x}) \in {Cardinality(P), Cardinality(P) + 1}
  BY FS_AddElement
<1>2. Cardinality(Q) <= Cardinality(P \cup {x}) /\ IsFiniteSet(Q)
  BY <1>1, FS_Subset
<1>3. Cardinality(P) \in Nat /\ Cardinality(Q) \in Nat
  BY <1>2, FS_CardinalityType
<1> QED
  BY <1>1, <1>2, <1>3

LEMMA NoMore ==
  ASSUME NEW P, NEW Q, IsFiniteSet(P), Q \subseteq P
  PROVE  /\ IsFiniteSet(Q)
         /\ Cardinality(P) \in Nat /\ Cardinality(Q) \in Nat
         /\ Cardinality(Q) <= Cardinality(P)
  BY FS_Subset, FS_CardinalityType

\* Where there is something, there is at least one.
LEMMA AtLeastOne ==
  ASSUME NEW P, NEW x \in P, IsFiniteSet(P)
  PROVE  Cardinality(P) \in Nat /\ Cardinality(P) >= 1
<1>1. Cardinality(P) \in Nat /\ Cardinality(P) # 0
  BY FS_CardinalityType, FS_EmptySet
<1> QED
  BY <1>1

\* The descriptors in use are finitely many.
LEMMA Finite ==
  ASSUME ServerAssumption, Shapes
  PROVE  /\ IsFiniteSet(Connected) /\ IsFiniteSet(Held) /\ IsFiniteSet(Cached)
         /\ Cardinality(Connected) \in Nat /\ Cardinality(Held) \in Nat /\ Cardinality(Cached) \in Nat
         /\ Limit \in Nat /\ Cached \subseteq Held
<1>1. IsFiniteSet(Connected)
  BY FS_Subset DEF ServerAssumption, Connected
<1>2. Limit \in Nat
  BY DEF ServerAssumption
<1>3. Held \subseteq 0..Limit
  <2>1. \A f \in Files : cache[f] \in 0..Limit
    BY DEF Shapes
  <2>2. \A c \in Clients : req[c] # None => req[c].fd \in 0..Limit
    BY DEF Shapes, Requests
  <2>3. \A j \in Threads : job[j] # None => job[j].fds \subseteq 0..Limit
    BY <1>2 DEF Shapes, Tasks, Ids
  <2> QED
    BY <2>1, <2>2, <2>3 DEF Held, Opened, Running
<1>4. IsFiniteSet(0..Limit)
  BY <1>2, FS_Interval
<1>5. Cached \subseteq Held
  BY DEF Cached, Held, Opened
<1>6. IsFiniteSet(Held) /\ IsFiniteSet(Cached)
  BY <1>3, <1>4, <1>5, FS_Subset
<1> QED
  BY <1>1, <1>2, <1>5, <1>6, FS_CardinalityType

\* When there is room, a descriptor is free.
LEMMA FreshIsFree ==
  ASSUME ServerAssumption, Shapes, HasRoom
  PROVE  Fresh \in Ids
<1>1. Cardinality(Held) < Limit
  <2>1. Cardinality(Connected) \in Nat /\ Cardinality(Held) \in Nat /\ Limit \in Nat
    BY Finite
  <2> QED
    BY <2>1 DEF HasRoom, Used, Held
<1>2. IsFiniteSet(Ids) /\ Cardinality(Ids) = Limit
  <2>1. Limit \in Nat
    BY Finite
  <2>2. IsFiniteSet(1..Limit) /\ Cardinality(1..Limit) = IF 1 > Limit THEN 0 ELSE Limit - 1 + 1
    BY <2>1, FS_Interval
  <2> QED
    BY <2>1, <2>2 DEF Ids
<1>3. ~(Ids \subseteq Held)
  <2>1. SUFFICES ASSUME Ids \subseteq Held PROVE FALSE
    OBVIOUS
  <2>2. Cardinality(Ids) <= Cardinality(Held)
    BY <2>1, Finite, NoMore
  <2>3. Cardinality(Held) \in Nat /\ Limit \in Nat
    BY Finite
  <2> QED
    BY <1>1, <1>2, <2>2, <2>3
<1>4. \E i \in Ids \ Opened : TRUE
  BY <1>3 DEF Held, Ids
<1> QED
  BY <1>4 DEF Fresh

-----------------------------------------------------------------------------
(* What a step may do to the entries of the cache. *)

\* Entries go, or stay.
LEMMA NothingKept ==
  ASSUME ServerAssumption, Inv, Cached' \subseteq Cached
  PROVE  CacheLeavesOne'
<1>1. /\ Cardinality(Cached) \in Nat /\ Cardinality(Cached') \in Nat /\ Limit \in Nat
      /\ Cardinality(Cached') <= Cardinality(Cached) /\ Cardinality(Cached) < Limit
  BY Finite, NoMore DEF Inv, CacheLeavesOne
<1> QED
  BY <1>1 DEF CacheLeavesOne

\* A connection opens a file for which there was room: its own descriptor is not the cache's.
LEMMA OneKept ==
  ASSUME ServerAssumption, Inv, HasRoom, NEW c \in Connected, NEW x, Cached' \subseteq Cached \cup {x}
  PROVE  CacheLeavesOne'
<1>1. /\ Cardinality(Cached) \in Nat /\ Cardinality(Cached') \in Nat /\ Limit \in Nat
      /\ Cardinality(Cached') <= Cardinality(Cached) + 1
  BY Finite, Grows DEF Inv
<1>2. Cardinality(Cached) <= Cardinality(Held) /\ Cardinality(Held) \in Nat
  BY Finite, NoMore DEF Inv
<1>3. Cardinality(Connected) >= 1 /\ Cardinality(Connected) \in Nat
  BY Finite, AtLeastOne DEF Inv
<1>4. Cardinality(Connected) + Cardinality(Held) < Limit
  BY DEF Used, Held, HasRoom
<1>5. Cardinality(Cached') < Limit
  BY <1>1, <1>2, <1>3, <1>4
<1> QED
  BY <1>5 DEF CacheLeavesOne

-----------------------------------------------------------------------------
(* The steps. *)

\* The invariant holds at the start: nothing is accepted and nothing open.
LEMMA InitInv == ASSUME ServerAssumption, Init PROVE Inv
<1>1. Shapes /\ Attended /\ Awaited
  BY DEF Init, Shapes, Attended, Awaited, Working, Running, ServerAssumption
<1>2. Cached = {}
  BY DEF Init, Cached
<1> QED
  BY <1>1, <1>2, FS_EmptySet DEF Inv, CacheLeavesOne, ServerAssumption

LEMMA AnsweredShape ==
  ASSUME Shapes, Attended, NEW c \in Clients, req[c] # None,
         NEW s \in {None, 200, 404}, NEW d \in 0..Limit,
         Answered(c, s, d), client' = client
  PROVE  req' \in [Clients -> Requests \cup {None}] /\ Attended'
<1>1. PICK q \in Requests : q = req[c]
  BY DEF Shapes
<1> DEFINE r == [q EXCEPT !.status = s, !.fd = d]
<1>2. r \in Requests
  BY DEF Requests
<1>3. req' = [req EXCEPT ![c] = r]
  BY <1>1 DEF Answered
<1> HIDE DEF r
<1>4. req' \in [Clients -> Requests \cup {None}]
  BY <1>2, <1>3 DEF Shapes
<1>5. \A e \in Clients : req'[e] # None => req[e] # None
  BY <1>3 DEF Shapes
<1> QED
  BY <1>4, <1>5 DEF Attended

\* The shapes are kept by every step.
LEMMA ShapesStep == ASSUME ServerAssumption, Inv, [Next]_vars PROVE Shapes' /\ Attended'
<1> USE DEF Shapes, Attended, Requests, Inv
<1>0. 0 \in 0..Limit
  BY DEF ServerAssumption
<1>1. CASE Accept
  BY <1>1 DEF Accept
<1>2. CASE BackoffEnds
  BY <1>2 DEF BackoffEnds
<1>3. CASE DiskChanges
  BY <1>3 DEF DiskChanges
<1>4. ASSUME NEW c \in Clients, Arrive(c) PROVE Shapes' /\ Attended'
  BY <1>4 DEF Arrive
<1>5. ASSUME NEW c \in Clients, Ask(c) PROVE Shapes' /\ Attended'
  BY <1>5 DEF Ask, ServerAssumption
<1>6. ASSUME NEW c \in Clients, Hit(c) PROVE Shapes' /\ Attended'
  <2>1. cache[req[c].file] \in 0..Limit
    BY <1>6 DEF Hit, Pending
  <2>2. req[c] # None /\ Answered(c, 200, cache[req[c].file]) /\ UNCHANGED <<cache, client, job>>
    BY <1>6 DEF Hit, Pending, RequestStep, JobStep
  <2> QED
    BY <2>1, <2>2, AnsweredShape
<1>7. ASSUME NEW c \in Clients, Missing(c) PROVE Shapes' /\ Attended'
  <2>1. req[c] # None /\ Answered(c, 404, 0) /\ UNCHANGED <<client, job>>
    BY <1>7 DEF Missing, Pending, RequestStep, JobStep
  <2>2. cache' \in [Files -> 0..Limit]
    BY <1>0, <1>7 DEF Missing
  <2> QED
    BY <1>0, <2>1, <2>2, AnsweredShape
<1>8. ASSUME NEW c \in Clients, Open(c) PROVE Shapes' /\ Attended'
  <2>1. Fresh \in 0..Limit
    BY <1>8, FreshIsFree DEF Open, Ids
  <2>2. req[c] # None /\ Answered(c, 200, Fresh) /\ UNCHANGED <<client, job>>
    BY <1>8 DEF Open, Pending, RequestStep, JobStep
  <2>3. cache' = cache \/ cache' \in Inserted(req[c].file, Fresh)
    BY <1>8 DEF Open
  <2>4. cache' \in [Files -> 0..Limit]
    BY <1>0, <2>1, <2>3 DEF Inserted
  <2> QED
    BY <2>1, <2>2, <2>4, AnsweredShape
<1>9. ASSUME NEW c \in Clients, OpenFails(c) PROVE Shapes' /\ Attended'
  <2>1. req[c] # None /\ Answered(c, 404, 0) /\ UNCHANGED <<cache, client, job>>
    BY <1>9 DEF OpenFails, Pending, RequestStep, JobStep
  <2> QED
    BY <1>0, <2>1, AnsweredShape
<1>10. ASSUME NEW c \in Clients, Finish(c) PROVE Shapes' /\ Attended'
  BY <1>10 DEF Finish, RequestStep, JobStep
<1>11. ASSUME NEW c \in Clients, Close(c) PROVE Shapes' /\ Attended'
  <2>1. job' \in [Threads -> Tasks \cup {None}]
    <3>1. ASSUME NEW j \in Working(c) PROVE [job[j] EXCEPT !.client = None] \in Tasks
      <4>1. PICK t \in Tasks : t = job[j]
        BY <3>1 DEF Working, Running
      <4>2. [t EXCEPT !.client = None] \in Tasks
        BY DEF Tasks
      <4> QED
        BY <4>1, <4>2
    <3> QED
      BY <1>11, <3>1 DEF Close
  <2> QED
    BY <1>11, <2>1 DEF Close, Left
<1>12. ASSUME NEW c \in Clients, Spawn(c) PROVE Shapes' /\ Attended'
  <2>1. PICK j \in Threads : job' = [job EXCEPT ![j] = Spawned(c, req[c].op)]
    BY <1>12 DEF Spawn
  <2>2. Spawned(c, req[c].op) \in Tasks
    BY <1>12 DEF Spawn, Pending, Spawned, Tasks
  <2>3. job' \in [Threads -> Tasks \cup {None}]
    BY <2>1, <2>2
  <2>4. UNCHANGED <<client, cache>> /\ req[c] # None /\ (Answered(c, 200, 0) \/ req' = req)
    BY <1>12 DEF Spawn, Pending, JobStep
  <2> QED
    BY <1>0, <2>3, <2>4, AnsweredShape
<1>13. ASSUME NEW j \in Threads, JobOpens(j) \/ WalkCloses(j) PROVE Shapes' /\ Attended'
  <2>1. UNCHANGED <<client, req, cache>>
    BY <1>13 DEF JobOpens, WalkCloses, JobStep
  <2>2. PICK t \in Tasks : t = job[j]
    BY <1>13 DEF JobOpens, WalkCloses
  <2>3. PICK s \in SUBSET Ids : job' = [job EXCEPT ![j].fds = s]
    <3>1. CASE JobOpens(j)
      BY <3>1, <2>2, FreshIsFree DEF JobOpens, Tasks
    <3>2. CASE WalkCloses(j)
      BY <3>2, <2>2 DEF WalkCloses, Tasks
    <3> QED
      BY <1>13, <3>1, <3>2
  <2>4. [t EXCEPT !.fds = s] \in Tasks
    BY DEF Tasks
  <2>5. job' \in [Threads -> Tasks \cup {None}]
    BY <2>2, <2>3, <2>4
  <2> QED
    BY <2>1, <2>5
<1>14. ASSUME NEW j \in Threads, JobEnds(j) PROVE Shapes' /\ Attended'
  <2>1. UNCHANGED <<client, cache>>
    BY <1>14 DEF JobEnds, JobStep
  <2>2. PICK t \in Tasks : t = job[j]
    BY <1>14 DEF JobEnds
  <2>3. PICK c \in Clients \cup {None} : c = t.client
    BY DEF Tasks
  <2>4. \/ job' = [job EXCEPT ![j] = None]
        \/ c # None /\ job' = [job EXCEPT ![j] = Spawned(c, "detect")]
    BY <1>14, <2>2, <2>3 DEF JobEnds
  <2>5. c # None => Spawned(c, "detect") \in Tasks
    BY DEF Spawned, Tasks
  <2>6. job' \in [Threads -> Tasks \cup {None}]
    BY <2>4, <2>5
  <2>7. req' = req \/ (c # None /\ \E s \in {200, 404} : Answered(c, s, 0))
    BY <1>14, <2>2, <2>3 DEF JobEnds
  <2>8. req' \in [Clients -> Requests \cup {None}] /\ Attended'
    <3>1. CASE req' = req
      BY <2>1, <3>1
    <3>2. CASE c # None /\ \E s \in {200, 404} : Answered(c, s, 0)
      <4>1. PICK s \in {200, 404} : Answered(c, s, 0)
        BY <3>2
      <4>2. c \in Clients /\ req[c] # None
        <5>1. j \in Working(c)
          BY <1>14, <2>2, <2>3 DEF JobEnds, Working, Running
        <5> QED
          BY <3>2, <5>1 DEF Awaited
      <4> QED
        BY <1>0, <2>1, <4>1, <4>2, AnsweredShape
    <3> QED
      BY <2>7, <3>1, <3>2
  <2> QED
    BY <2>1, <2>6, <2>8
<1>15. CASE UNCHANGED vars
  BY <1>15 DEF vars
<1> QED
  BY <1>1, <1>2, <1>3, <1>4, <1>5, <1>6, <1>7, <1>8, <1>9, <1>10, <1>11, <1>12, <1>13, <1>14, <1>15 DEF Next

\* A task is spawned for a request, and loses its client when the request goes.
LEMMA AwaitedStep ==
  ASSUME ServerAssumption, NoneAssumption, Inv, [Next]_vars, Shapes' PROVE Awaited'
<1> USE DEF Shapes, Inv
<1>0. ASSUME \A c \in Clients : req[c] # None => req'[c] # None,
             \A c \in Clients : Working(c)' # {} => Working(c) # {} \/ req[c] # None
      PROVE  Awaited'
  BY <1>0 DEF Awaited
<1>1. ASSUME UNCHANGED job, \A c \in Clients : req[c] # None => req'[c] # None PROVE Awaited'
  BY <1>1, <1>0 DEF Working, Running
<1>2. CASE Accept \/ BackoffEnds \/ DiskChanges \/ UNCHANGED vars
  BY <1>1, <1>2 DEF Accept, BackoffEnds, DiskChanges, vars
\* Asking makes a request of nothing, and an answer keeps one.
<1>3. ASSUME NEW c \in Clients, NEW r \in Requests, req' = [req EXCEPT ![c] = r]
      PROVE  \A d \in Clients : req[d] # None => req'[d] # None
  BY <1>3, NoneAssumption
<1>4. ASSUME NEW c \in Clients, req[c] # None, NEW s \in {None, 200, 404}, NEW d \in 0..Limit, Answered(c, s, d)
      PROVE  \A e \in Clients : req[e] # None => req'[e] # None
  <2>1. PICK q \in Requests : q = req[c]
    BY <1>4
  <2> DEFINE r == [q EXCEPT !.status = s, !.fd = d]
  <2>2. r \in Requests
    BY DEF Requests
  <2>3. req' = [req EXCEPT ![c] = r]
    BY <1>4, <2>1 DEF Answered
  <2> HIDE DEF r
  <2> QED
    BY <2>2, <2>3, <1>3
<1>5. 0 \in 0..Limit
  BY DEF ServerAssumption
<1>6. ASSUME NEW c \in Clients, Arrive(c) PROVE Awaited'
  BY <1>1, <1>6 DEF Arrive
<1>7. ASSUME NEW c \in Clients, Ask(c) PROVE Awaited'
  <2>1. PICK op \in Ops, f \in Files :
          req' = [req EXCEPT ![c] = [op |-> op, file |-> f, fd |-> 0, status |-> None]]
    BY <1>7 DEF Ask
  <2>2. [op |-> op, file |-> f, fd |-> 0, status |-> None] \in Requests
    BY <1>5 DEF Requests
  <2> QED
    BY <1>1, <1>3, <1>7, <2>1, <2>2 DEF Ask
<1>8. ASSUME NEW c \in Clients, Hit(c) \/ Missing(c) \/ Open(c) \/ OpenFails(c) PROVE Awaited'
  <2>1. req[c] # None /\ req[c] \in Requests /\ UNCHANGED job
    BY <1>8 DEF Hit, Missing, Open, OpenFails, Pending, RequestStep
  <2>2. PICK s \in {200, 404}, d \in 0..Limit : Answered(c, s, d)
    <3>1. CASE Hit(c)
      BY <2>1, <3>1 DEF Hit, Requests
    <3>2. CASE Missing(c) \/ OpenFails(c)
      BY <3>2, <1>5 DEF Missing, OpenFails
    <3>3. CASE Open(c)
      BY <3>3, FreshIsFree DEF Open, Ids
    <3> QED
      BY <1>8, <3>1, <3>2, <3>3
  <2> QED
    BY <2>1, <2>2, <1>1, <1>4
<1>9. ASSUME NEW c \in Clients, Finish(c) PROVE Awaited'
  BY <1>9 DEF Finish, RequestStep, JobStep, Awaited, Working, Running
<1>10. ASSUME NEW c \in Clients, Close(c) PROVE Awaited'
  <2>1. ASSUME NEW d \in Clients, NEW j \in Working(d)' PROVE d # c /\ j \in Working(d)
    <3>1. j \in Threads /\ job'[j] # None /\ job'[j].client = d
      BY <2>1 DEF Working, Running
    <3>2. CASE j \in Working(c)
      <4>1. PICK t \in Tasks : t = job[j]
        BY <3>2 DEF Working, Running
      <4>2. job'[j] = [t EXCEPT !.client = None]
        BY <1>10, <3>1, <3>2, <4>1 DEF Close
      <4>3. job'[j].client = None
        BY <4>2 DEF Tasks
      <4> QED
        BY <3>1, <4>3, NoneAssumption
    <3>3. CASE j \notin Working(c)
      <4>1. job'[j] = job[j]
        BY <1>10, <3>1, <3>3 DEF Close
      <4> QED
        BY <3>1, <3>3, <4>1 DEF Working, Running
    <3> QED
      BY <3>2, <3>3
  <2>2. \A d \in Clients : d # c => req'[d] = req[d]
    BY <1>10 DEF Close
  <2> QED
    BY <2>1, <2>2 DEF Awaited
<1>11. ASSUME NEW c \in Clients, Spawn(c) PROVE Awaited'
  <2>1. PICK j \in Threads : job' = [job EXCEPT ![j] = Spawned(c, req[c].op)]
    BY <1>11 DEF Spawn
  <2>2. req[c] # None /\ (Answered(c, 200, 0) \/ req' = req)
    BY <1>11 DEF Spawn, Pending
  <2>3. \A d \in Clients : req[d] # None => req'[d] # None
    BY <1>4, <1>5, <2>2
  <2>4. \A d \in Clients \ {c} : Working(d)' \subseteq Working(d)
    BY <2>1 DEF Working, Running, Spawned
  <2> QED
    BY <1>0, <2>2, <2>3, <2>4
<1>12. ASSUME NEW j \in Threads, JobOpens(j) \/ WalkCloses(j) PROVE Awaited'
  <2>1. UNCHANGED req
    BY <1>12 DEF JobOpens, WalkCloses
  <2>2. PICK t \in Tasks : t = job[j]
    BY <1>12 DEF JobOpens, WalkCloses
  <2>3. PICK s : job' = [job EXCEPT ![j] = [t EXCEPT !.fds = s]]
    BY <1>12, <2>2 DEF JobOpens, WalkCloses
  <2>4. \A i \in Threads : job'[i] # None => job[i] # None /\ job'[i].client = job[i].client
    BY <1>12, <2>2, <2>3 DEF JobOpens, WalkCloses, Tasks
  <2> QED
    BY <1>0, <2>1, <2>4 DEF Working, Running
<1>13. ASSUME NEW j \in Threads, JobEnds(j) PROVE Awaited'
  <2>1. PICK t \in Tasks : t = job[j] /\ job[j] # None
    BY <1>13 DEF JobEnds
  <2>2. PICK c \in Clients \cup {None} : c = t.client
    BY <2>1 DEF Tasks
  <2>3. c # None => j \in Working(c) /\ req[c] # None /\ c \in Clients
    BY <2>1, <2>2 DEF Working, Running, Awaited
  <2>4. req' = req \/ (c # None /\ \E s \in {200, 404} : Answered(c, s, 0))
    BY <1>13, <2>1, <2>2 DEF JobEnds
  <2>5. \A d \in Clients : req[d] # None => req'[d] # None
    BY <1>4, <1>5, <2>3, <2>4
  <2>6. \/ job' = [job EXCEPT ![j] = None]
        \/ c # None /\ job' = [job EXCEPT ![j] = Spawned(c, "detect")]
    BY <1>13, <2>1, <2>2 DEF JobEnds
  <2>7. \A d \in Clients : Working(d)' \subseteq Working(d)
    BY <2>1, <2>2, <2>6 DEF Working, Running, Spawned
  <2> QED
    BY <1>0, <2>5, <2>7
<1> QED
  BY <1>2, <1>6, <1>7, <1>8, <1>9, <1>10, <1>11, <1>12, <1>13 DEF Next

\* Only an insertion adds to what the cache keeps open.
LEMMA CountStep ==
  ASSUME ServerAssumption, Inv, [Next]_vars PROVE CacheLeavesOne'
<1>1. CASE UNCHANGED cache
  <2>1. Cached' = Cached
    BY <1>1 DEF Cached
  <2> QED
    BY <2>1, NothingKept
<1>2. ASSUME NEW c \in Clients, Missing(c) PROVE CacheLeavesOne'
  <2>1. \A f \in Files : cache'[f] \in {cache[f], 0}
    BY <1>2 DEF Missing, Inv, Shapes
  <2>2. Cached' \subseteq Cached
    BY <2>1 DEF Cached
  <2> QED
    BY <2>2, NothingKept
<1>3. ASSUME NEW c \in Clients, Open(c) PROVE CacheLeavesOne'
  <2>1. HasRoom /\ c \in Connected
    BY <1>3 DEF Open, Pending, Inv, Attended, Connected
  <2>2. \A f \in Files : cache'[f] \in {cache[f], 0, Fresh}
    BY <1>3 DEF Open, Inserted, Inv, Shapes
  <2>3. Cached' \subseteq Cached \cup {Fresh}
    BY <2>2 DEF Cached
  <2> QED
    BY <2>1, <2>3, OneKept
<1>4. UNCHANGED cache \/ \E c \in Clients : Missing(c) \/ Open(c)
  BY DEF Next, vars, Accept, BackoffEnds, DiskChanges, Arrive, Ask, Hit, OpenFails, Spawn, Finish, Close,
         JobOpens, WalkCloses, JobEnds, RequestStep, JobStep
<1> QED
  BY <1>1, <1>2, <1>3, <1>4

\* With the connections gone and the tasks ended, the cache's descriptors are the only ones.
LEMMA RoomIsLeft == ASSUME ServerAssumption, Inv PROVE RoomForAConnection
<1> SUFFICES ASSUME Connected = {}, Running = {} PROVE Used < Limit
  BY DEF RoomForAConnection, HasRoom
<1>1. \A c \in Clients : req[c] = None
  BY DEF Inv, Attended, Connected
<1>2. Held = Cached
  BY <1>1 DEF Held, Opened, Cached
<1>3. Used = 0 + Cardinality(Cached)
  BY <1>2, FS_EmptySet DEF Used, Held
<1>4. Cardinality(Cached) \in Nat /\ Cardinality(Cached) < Limit
  BY Finite DEF Inv, CacheLeavesOne
<1> QED
  BY <1>3, <1>4

\* The cache never takes the last descriptor: when no connection is left, and no listing, detection or
\* walk that outlived one, serve of src/app/src/fast.rs can accept one, however many files the cache
\* of src/assets/src/file_cache.rs holds open and whatever such tasks held before.
THEOREM Room == ASSUME ServerAssumption, NoneAssumption PROVE Spec => []RoomForAConnection
<1>1. Init => Inv
  BY InitInv
<1>2. Inv /\ [Next]_vars => Inv'
  <2>1. SUFFICES ASSUME Inv, [Next]_vars PROVE Inv'
    OBVIOUS
  <2>2. Shapes' /\ Attended'
    BY <2>1, ShapesStep
  <2>3. Awaited' /\ CacheLeavesOne'
    BY <2>1, <2>2, AwaitedStep, CountStep
  <2> QED
    BY <2>2, <2>3 DEF Inv
<1>3. Inv => RoomForAConnection
  BY RoomIsLeft
<1> QED
  BY <1>1, <1>2, <1>3, PTL DEF Spec
=============================================================================
