------------------------------ MODULE Server ------------------------------
(***************************************************************************)
(* The process and its file descriptors: the accept loop, serve of         *)
(* src/app/src/fast.rs; the connections and what their requests open,      *)
(* serve, serve_raw and open of src/assets/src/lib.rs; the descriptors the *)
(* cache keeps; and the threads of the blocking pool on which listings,    *)
(* the detection of the address and the walks of archives run              *)
(* (src/list/src), which go on when their connection has gone.             *)
(*                                                                         *)
(* Every connection, every file a response is sent from, every entry of    *)
(* the cache and every directory, file or socket of a blocking thread      *)
(* holds a descriptor of the same supply.  Which entry the cache evicts    *)
(* and when it finds one stale is left open here: FileCache says it; what  *)
(* a walk reads and sends is that of ZipPipeline.                          *)
(***************************************************************************)
EXTENDS Integers, FiniteSets

CONSTANTS
  Clients, Files,
  Limit,       \* the descriptors left to the process once it has started
  Capacity,    \* the entries the cache may have
  Depth,       \* the directories and files a walk may hold open at a time
  MaxArrivals, \* bound on the connections made
  MaxRequests, \* bound on the requests
  MaxChanges,  \* bound on the changes of the disk
  None

ASSUME ServerAssumption ==
  /\ IsFiniteSet(Clients) /\ IsFiniteSet(Files)
  /\ Limit \in Nat \ {0} /\ Capacity \in Nat \ {0}
  /\ Depth \in Nat /\ MaxArrivals \in Nat /\ MaxRequests \in Nat /\ MaxChanges \in Nat
  /\ None \notin Files

Ids == 1..Limit
Ops == {"files", "pull", "list", "zip"}

\* The blocking tasks there may be at a time: a request has one at most.
Threads == 1..MaxRequests

\* A request of a connection, and a task of the blocking pool.
Requests == [op : Ops, file : Files, fd : 0..Limit, status : {None, 200, 404}]
Tasks    == [does : {"list", "detect", "zip"}, client : Clients \cup {None}, fds : SUBSET Ids]

ASSUME NoneAssumption == None \notin Clients /\ None \notin Requests /\ None \notin Tasks

VARIABLES
  loop,     \* the accept loop: "accept" or "backoff"
  client,   \* each client: "away", "waiting" in the listen queue, or "connected"
  req,      \* the request of each connection: its operation, file, descriptor (0: none)
            \* and status; or None
  job,      \* each task of the blocking pool: what it does, for which client (None: it has gone)
            \* and the descriptors it has open; or None
  cache,    \* the descriptor of each file's entry, 0 for none
  disk,     \* the files there are
  arrivals, requests, changes  \* counters

vars == <<loop, client, req, job, cache, disk, arrivals, requests, changes>>

Connected == {c \in Clients : client[c] = "connected"}
Running == {j \in Threads : job[j] # None}
Opened == {cache[f] : f \in Files} \cup {req[c].fd : c \in {d \in Clients : req[d] # None}}
          \cup UNION {job[j].fds : j \in Running}

\* The descriptors in use, and whether open or accept finds one.
Used == Cardinality(Connected) + Cardinality(Opened \ {0})
HasRoom == Used < Limit
Fresh == CHOOSE i \in Ids \ Opened : TRUE

Init ==
  /\ loop = "accept" /\ client = [c \in Clients |-> "away"] /\ req = [c \in Clients |-> None]
  /\ job = [j \in Threads |-> None] /\ cache = [f \in Files |-> 0] /\ disk = Files
  /\ arrivals = 0 /\ requests = 0 /\ changes = 0

-----------------------------------------------------------------------------
(* The clients and the disk. *)

Arrive(c) ==
  /\ client[c] = "away" /\ arrivals < MaxArrivals
  /\ client' = [client EXCEPT ![c] = "waiting"] /\ arrivals' = arrivals + 1
  /\ UNCHANGED <<loop, req, job, cache, disk, requests, changes>>

Ask(c) ==
  /\ client[c] = "connected" /\ req[c] = None /\ requests < MaxRequests
  /\ \E op \in Ops, f \in Files :
       req' = [req EXCEPT ![c] = [op |-> op, file |-> f, fd |-> 0, status |-> None]]
  /\ requests' = requests + 1
  /\ UNCHANGED <<loop, client, job, cache, disk, arrivals, changes>>

DiskChanges ==
  /\ changes < MaxChanges /\ changes' = changes + 1
  /\ \E f \in Files : disk' = IF f \in disk THEN disk \ {f} ELSE disk \cup {f}
  /\ UNCHANGED <<loop, client, req, job, cache, arrivals, requests>>

-----------------------------------------------------------------------------
(* The accept loop. *)

\* Mutant: an error ends the loop.
AfterErrorEnd == "ended"

\* What the loop does after an error: it waits ACCEPT_BACKOFF.
AfterError == "backoff"

Accept ==
  /\ loop = "accept"
  /\ \E c \in Clients :
       /\ client[c] = "waiting"
       /\ \/ /\ HasRoom
             /\ client' = [client EXCEPT ![c] = "connected"] /\ loop' = loop
          \/ \* accept fails for want of a descriptor: the connection stays in the queue.
             /\ ~HasRoom
             /\ client' = client /\ loop' = AfterError
          \/ \* accept fails with the connection, or its local address cannot be had.
             /\ client' = [client EXCEPT ![c] = "away"] /\ loop' = AfterError
  /\ UNCHANGED <<req, job, cache, disk, arrivals, requests, changes>>

BackoffEnds ==
  /\ loop = "backoff" /\ loop' = "accept"
  /\ UNCHANGED <<client, req, job, cache, disk, arrivals, requests, changes>>

-----------------------------------------------------------------------------
(* A request. *)

Answered(c, status, fd) == req' = [req EXCEPT ![c] = [@ EXCEPT !.status = status, !.fd = fd]]
JobStep == UNCHANGED <<loop, client, disk, arrivals, requests, changes>>
RequestStep == UNCHANGED job /\ JobStep
\* The blocking task of a connection's request.
Working(c) == {j \in Running : job[j].client = c}
Pending(c, ops) == req[c] # None /\ req[c].status = None /\ req[c].op \in ops

\* ServeFiles::open finds a fresh entry, or one that still matches the file.
Hit(c) ==
  /\ Pending(c, {"files"}) /\ cache[req[c].file] # 0
  /\ Answered(c, 200, cache[req[c].file])
  /\ cache' = cache /\ RequestStep

\* The file, or the directory of an archive, is not there: the entry of a file goes.
Missing(c) ==
  /\ Pending(c, {"files", "pull", "zip"}) /\ req[c].file \notin disk
  /\ Answered(c, 404, 0)
  /\ cache' = IF req[c].op = "files" THEN [cache EXCEPT ![req[c].file] = 0] ELSE cache
  /\ RequestStep

\* FileCache::insert, which evicts an entry when there is no room.
Inserted(f, fd) ==
  LET kept == {g \in Files \ {f} : cache[g] # 0}
  IN IF cache[f] = 0 /\ Cardinality(kept) >= Capacity
     THEN {[cache EXCEPT ![g] = 0, ![f] = fd] : g \in kept}
     ELSE {[cache EXCEPT ![f] = fd]}

\* open_confirmed and open_no_cache, and the insert of serve.
Open(c) ==
  /\ Pending(c, {"files", "pull"}) /\ req[c].file \in disk /\ HasRoom
  /\ Answered(c, 200, Fresh)
  /\ IF req[c].op = "files" THEN cache' \in Inserted(req[c].file, Fresh) ELSE cache' = cache
  /\ RequestStep

\* An open that fails, for want of a descriptor too, is answered like a missing file.
OpenFails(c) ==
  /\ Pending(c, {"files", "pull"}) /\ ~HasRoom /\ req[c].file \in disk
  /\ Answered(c, 404, 0) /\ cache' = cache /\ RequestStep

-----------------------------------------------------------------------------
(* Listings and archives, on threads of the blocking pool. *)

Spawned(c, does) == [does |-> does, client |-> c, fds |-> {}]

\* ListApi::handle has the directory listed; ZipApi::handle has found the directory, answers, and
\* has it walked.
Spawn(c) ==
  /\ Pending(c, {"list", "zip"}) /\ Working(c) = {}
  /\ \E j \in Threads \ Running :
       /\ \A i \in Threads \ Running : j <= i
       /\ job' = [job EXCEPT ![j] = Spawned(c, req[c].op)]
  /\ IF req[c].op = "zip" THEN req[c].file \in disk /\ Answered(c, 200, 0) ELSE req' = req
  /\ cache' = cache /\ JobStep

\* A listing opens its directory; a detection the socket it asks for the interfaces; a walk one
\* directory in another, and in it one file after the other.
Holds(does) == IF does = "zip" THEN Depth ELSE 1
JobOpens(j) ==
  /\ job[j] # None /\ HasRoom /\ Cardinality(job[j].fds) < Holds(job[j].does)
  /\ job' = [job EXCEPT ![j].fds = @ \cup {Fresh}]
  /\ UNCHANGED <<req, cache>> /\ JobStep

\* A walk goes on with the next file or the next directory.
WalkCloses(j) ==
  /\ job[j] # None /\ job[j].does = "zip"
  /\ \E d \in job[j].fds : job' = [job EXCEPT ![j].fds = @ \ {d}]
  /\ UNCHANGED <<req, cache>> /\ JobStep

\* A task ends and what it has open is closed.  If its client is still there, a directory that
\* could not be opened is not found, and one that was listed is answered at once or has the
\* address detected first; with the address, which may not have been had, it is answered.
JobEnds(j) ==
  /\ job[j] # None
  /\ LET c == job[j].client
         answer(status) == Answered(c, status, 0) /\ job' = [job EXCEPT ![j] = None]
     IN  \/ /\ c = None \/ job[j].does = "zip"
            /\ job' = [job EXCEPT ![j] = None] /\ req' = req
         \/ /\ c # None /\ job[j].does = "list" /\ job[j].fds = {}
            /\ answer(404)
         \/ /\ c # None /\ job[j].does = "list" /\ job[j].fds # {}
            /\ answer(200) \/ (job' = [job EXCEPT ![j] = Spawned(c, "detect")] /\ req' = req)
         \/ /\ c # None /\ job[j].does = "detect"
            /\ answer(200)
  /\ cache' = cache /\ JobStep

-----------------------------------------------------------------------------
(* The end of a response, and of a connection. *)

\* The response has been sent: its descriptor is dropped, unless the cache holds it.  An archive
\* has been sent when its walk has ended.
Finish(c) ==
  /\ req[c] # None /\ req[c].status # None /\ Working(c) = {}
  /\ req' = [req EXCEPT ![c] = None]
  /\ cache' = cache /\ RequestStep

\* Mutant: a plan that was not sent stays behind its connection.
LeftBehind(c) == req[c]

\* What stays of the request of a connection that ends.
Left(c) == None

\* A connection ends, perhaps in the middle of a response: its handler is dropped, a task of the
\* blocking pool is not.
Close(c) ==
  /\ client[c] = "connected"
  /\ client' = [client EXCEPT ![c] = "away"] /\ req' = [req EXCEPT ![c] = Left(c)]
  /\ job' = [j \in Threads |-> IF j \in Working(c) THEN [job[j] EXCEPT !.client = None] ELSE job[j]]
  /\ UNCHANGED <<loop, cache, disk, arrivals, requests, changes>>

Next ==
  \/ Accept \/ BackoffEnds \/ DiskChanges
  \/ \E c \in Clients :
       \/ Arrive(c) \/ Ask(c) \/ Hit(c) \/ Missing(c) \/ Open(c) \/ OpenFails(c) \/ Spawn(c)
       \/ Finish(c) \/ Close(c)
  \/ \E j \in Threads : JobOpens(j) \/ WalkCloses(j) \/ JobEnds(j)

\* The walk of an archive ends when nobody takes what it sends; with the client there it may be
\* kept waiting.
Over(j) == JobEnds(j) /\ (job[j].does = "zip" => job[j].client = None)

\* The loop runs and its timer fires; every connection ends at last, which is the client's doing
\* or that of the library's timeouts; and so does every task of the blocking pool.
Fairness == /\ WF_vars(Accept) /\ WF_vars(BackoffEnds)
            /\ \A c \in Clients : WF_vars(Close(c))
            /\ \A j \in Threads : WF_vars(Over(j))

Spec == Init /\ [][Next]_vars /\ Fairness

-----------------------------------------------------------------------------
(* Properties. *)

\* The cache never takes the last descriptor: its entries are made while a connection holds one,
\* so that when the connections are gone, and the blocking tasks they leave behind have ended,
\* there is room for a new one.
RoomForAConnection == Connected = {} /\ Running = {} => HasRoom

\* Want of descriptors passes, also where tasks nobody waits for have them: who waits in the
\* listen queue is accepted, or turned away.
NobodyWaitsForEver == \A c \in Clients : client[c] = "waiting" ~> client[c] # "waiting"
=============================================================================
