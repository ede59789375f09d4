----------------------------- MODULE PullClient -----------------------------
(***************************************************************************)
(* `lanfile get`: the kept-alive connection and its pool                   *)
(* (src/pull/src/http.rs), the fetch of a listing and of a file            *)
(* (src/pull/src/fetch.rs), and the pull of a tree (src/pull/src/lib.rs).  *)
(*                                                                         *)
(* The client is one task: each of its steps is a system call or what it   *)
(* does between two.  Around it the remote files change, the server closes *)
(* or resets connections, cuts answers short and goes silent, writes fail, *)
(* and the client is killed and run again.  A byte of a file is the triple *)
(* of its file, version and place; a response is a head and its bytes; a   *)
(* listing is one byte.                                                    *)
(***************************************************************************)
EXTENDS Integers, Sequences, FiniteSets, SequencesExt

CONSTANTS
  Files, Dirs,   \* the nodes of the remote tree
  Tree,          \* what each directory holds
  Leaves,        \* the directories that may vanish: those that hold only files
  Versions,      \* what a file can contain
  Size,          \* the length of each version
  Given,         \* the command lines: <<target, kind>>
  Perms,         \* what the local disk may allow of a file: "rw", "ro" (it cannot be
                 \* opened for writing), "stuck" (its directory cannot be written)
  MaxChanges,    \* bound on the changes of the remote tree
  MaxFaults,     \* bound on the faults of server, network and disk
  MaxRuns,       \* bound on the runs of the client
  None           \* Option::None, and what does not exist

Nodes == Files \cup Dirs

\* The files below a directory: they are in it, or below a directory in it.
Below(d) ==
  {f \in Files : \E under \in [Dirs -> SUBSET Files] :
     /\ f \in under[d]
     /\ \A e \in Dirs : \A g \in under[e] :
          \E n \in Tree[e] : n = g \/ (n \in Dirs /\ g \in under[n])}

ASSUME TreeAssumption ==
  /\ Files \cap Dirs = {}
  /\ Tree \in [Dirs -> SUBSET Nodes] /\ \A d \in Dirs : IsFiniteSet(Tree[d])
  /\ Leaves \subseteq {d \in Dirs : Tree[d] \subseteq Files}
  /\ Given \subseteq Nodes \X {"File", "Dir", "Auto"}
ASSUME SizeAssumption ==
  /\ Size \in [Versions -> Nat] /\ Versions # {} /\ None \notin Versions \cup Int
  /\ MaxChanges \in Nat /\ MaxFaults \in Nat /\ MaxRuns \in Nat
\* There is one version of no bytes; and None, the user's own files and the versions differ.
ASSUME ContentAssumption ==
  /\ \A v, w \in Versions : Size[v] = 0 /\ Size[w] = 0 => v = w
  /\ "own" \notin Files /\ None \notin Seq(Files \X Versions \X Nat)
ASSUME PermsAssumption == Perms \subseteq {"rw", "ro", "stuck"}

VARIABLES
  remote,   \* each node of the remote tree: a version, 0 for a directory, or None
  seen,     \* history: the versions each node has had since this run began
  local,    \* each local file: its bytes, or None
  perm,     \* what the disk allows of each local file
  conn,     \* the connection: what was asked, what is on the wire, what the server
            \* has yet to send, its state; or NoConn
  pc, call, \* where the client is, and the request it is making
  target, kind, \* Parsed: what is pulled, and as what
  reused,   \* http_get: the connection came from the pool
  want,     \* the Content-Length of the response
  err,      \* the error in hand: what it is, and the step it comes from
  todo,     \* pull_entries: the entries yet to be pulled, of all levels
  warned,   \* the files a warning was printed for
  code,     \* how the run ended
  cause,    \* history: something was wrong with this request
  changes, faults, runs, kills  \* counters

remoteVars == <<remote, seen, changes>>
diskVars == <<local, perm>>
planVars == <<target, kind, todo, warned, code, runs, kills>>
callVars == <<pc, call, reused, want, err>>
vars == <<remoteVars, diskVars, conn, planVars, callVars, cause, faults>>

-----------------------------------------------------------------------------
Body(n, v) == [i \in 1..Size[v] |-> <<n, v, i>>]
OwnBytes == <<<<"own", 0, 1>>>>

\* The listing of a directory: its entries, in the order the server has them in, with the sizes
\* it read.
Listing(d) ==
  LET there == SetToSeq({n \in Tree[d] : remote[n] # None})
  IN [i \in DOMAIN there |->
        [node |-> there[i], size |-> IF there[i] \in Dirs THEN None ELSE Size[remote[there[i]]]]]

\* A response: its status and its bytes.
Response(q) ==
  IF q.op = "list" /\ q.node \in Dirs /\ remote[q.node] # None
  THEN [status |-> 200, body |-> <<Listing(q.node)>>]
  ELSE IF q.op = "pull" /\ q.node \in Files /\ remote[q.node] # None
  THEN [status |-> 200, body |-> Body(q.node, remote[q.node])]
  ELSE [status |-> 404, body |-> <<<<"page", 0, 1>>>>]

\* What is on the wire: heads, whole or cut (a status cut short, a length cut short), and
\* bytes; each with the request it answers.
NoNumber == -1
Token(q, k, x) == [to |-> q, k |-> k, x |-> x]
WholeHead(q, r) == Token(q, "head", [status |-> r.status, len |-> Len(r.body)])
CutHeads(q, r) ==
  {Token(q, "head", [status |-> s, len |-> None]) : s \in {r.status, 20, None}}
    \cup {Token(q, "head", [status |-> r.status, len |-> l]) :
            l \in (1..Len(r.body)) \cup {Len(r.body), NoNumber}}

NewConn == [asked |-> <<>>, wire |-> <<>>, sending |-> <<>>, state |-> "open", used |-> FALSE]
NoConn == [NewConn EXCEPT !.state = "none"]

-----------------------------------------------------------------------------
\* A request begins, the first of a run or a later one: http_get notes whether the pool
\* holds a connection.
Begin(op, n, top, pooled) ==
  /\ call' = [op |-> op, node |-> n, top |-> top]
  /\ reused' = pooled
  /\ pc' = "acquire" /\ want' = None /\ err' = None /\ cause' = FALSE

Init ==
  /\ remote = [n \in Nodes |-> IF n \in Dirs THEN 0 ELSE CHOOSE v \in Versions : TRUE]
  /\ seen = [n \in Nodes |-> {remote[n]}]
  /\ local \in [Files -> {None, OwnBytes}]
  /\ perm \in [Files -> Perms]
  /\ conn = NoConn
  /\ target = None /\ kind = None
  /\ pc = "off" /\ call = None /\ reused = FALSE /\ want = None /\ err = None
  /\ todo = <<>> /\ warned = {} /\ code = None
  /\ cause = FALSE /\ changes = 0 /\ faults = 0 /\ runs = 0 /\ kills = 0

\* run: the pull of a target, as a directory, as a file, or as what it turns out to be.
Run ==
  /\ pc \in {"off", "ended"} /\ runs < MaxRuns
  /\ \E g \in Given :
       /\ target' = g[1] /\ kind' = g[2]
       /\ Begin(IF g[2] = "File" THEN "pull" ELSE "list", g[1], TRUE, FALSE)
  /\ conn' = NoConn
  /\ seen' = [n \in Nodes |-> {remote[n]}]
  /\ todo' = <<>> /\ warned' = {} /\ code' = None /\ runs' = runs + 1
  /\ UNCHANGED <<remote, changes, diskVars, kills, faults>>

-----------------------------------------------------------------------------
(* The server, the network and the other programs. *)

RemoteChanges ==
  /\ changes < MaxChanges
  /\ \/ \E f \in Files : /\ remote[f] # None
                         /\ \E v \in (Versions \cup {None}) \ {remote[f]} :
                              remote' = [remote EXCEPT ![f] = v]
     \/ \E d \in Leaves :
          /\ remote[d] # None
          /\ remote' = [n \in Nodes |-> IF n = d \/ n \in Tree[d] THEN None ELSE remote[n]]
  /\ seen' = [n \in Nodes |-> seen[n] \cup {remote'[n]}]
  /\ changes' = changes + 1
  /\ UNCHANGED <<diskVars, conn, planVars, callVars, cause, faults>>

Up == conn.state \in {"open", "slow"}

ServerStep == UNCHANGED <<remoteVars, diskVars, planVars, callVars>>
Fault == faults < MaxFaults /\ faults' = faults + 1 /\ cause' = TRUE

\* The server answers the next request; it has the file open from here on.
Answer ==
  /\ Up /\ conn.asked # <<>> /\ conn.sending = <<>>
  /\ LET q == Head(conn.asked)  r == Response(q)
     IN conn' = [conn EXCEPT !.asked = Tail(@), !.used = TRUE,
                             !.wire = Append(@, WholeHead(q, r)),
                             !.sending = [i \in DOMAIN r.body |-> Token(q, "data", r.body[i])]]
  /\ ServerStep /\ UNCHANGED <<cause, faults>>

SendByte ==
  /\ Up /\ conn.sending # <<>>
  /\ conn' = [conn EXCEPT !.wire = Append(@, Head(conn.sending)), !.sending = Tail(@)]
  /\ ServerStep /\ UNCHANGED <<cause, faults>>

\* A connection that has answered and has nothing under way is closed, or reset: a request
\* may be on its way to it.
CloseIdle ==
  /\ Up /\ conn.used /\ conn.sending = <<>> /\ conn.wire = <<>>
  /\ \E s \in {"eof", "reset"} : conn' = [conn EXCEPT !.state = s, !.asked = <<>>]
  /\ ServerStep /\ UNCHANGED <<cause, faults>>

\* An answer is cut: in its head, or in its body, and with a reset what is on the wire is lost.
CutAnswer ==
  /\ Up /\ Fault
  /\ \/ /\ conn.asked # <<>> /\ conn.sending = <<>>
        /\ \E h \in CutHeads(Head(conn.asked), Response(Head(conn.asked))) :
             conn' = [conn EXCEPT !.asked = <<>>, !.wire = Append(@, h), !.state = "eof"]
     \/ conn' = [conn EXCEPT !.asked = <<>>, !.sending = <<>>, !.state = "eof"]
     \/ conn' = [conn EXCEPT !.asked = <<>>, !.sending = <<>>, !.wire = <<>>, !.state = "reset"]
  /\ ServerStep

\* So much time passes that a read that finds nothing has waited too long.
TimePasses ==
  /\ conn.state = "open"
  /\ conn' = [conn EXCEPT !.state = "slow"]
  /\ ServerStep /\ UNCHANGED <<cause, faults>>

-----------------------------------------------------------------------------
(* The transport: Pool, http_get, request, read_status. *)

Failed(e, from) == pc' = "failed" /\ err' = [what |-> e, from |-> from]
TransportStep == UNCHANGED <<remoteVars, diskVars, planVars, call, want>>

\* Pool::acquire when the pool is empty.
Connect ==
  /\ pc = "acquire" /\ conn = NoConn
  /\ \/ conn' = NewConn /\ UNCHANGED <<pc, err, cause, faults>>
     \/ \E e \in {"Connect", "Timeout"} : Fault /\ Failed(e, "connect") /\ conn' = NoConn
  /\ reused' = reused /\ TransportStep

\* request: a write to a connection the peer has left may fail, or seem to succeed.
Request ==
  /\ pc = "acquire" /\ conn # NoConn
  /\ \/ pc' = "head" /\ err' = err /\ conn' = [conn EXCEPT !.asked =
                                                 IF Up THEN Append(@, call) ELSE @]
     \/ conn.state \in {"eof", "reset"} /\ Failed("Io", "http") /\ conn' = conn
  /\ UNCHANGED <<reused, cause, faults>> /\ TransportStep

Drained == conn.wire = <<>>
Expires == Up /\ Drained /\ conn.state = "slow"

\* What a read finds when no byte is left.
ReadFails == IF conn.state = "eof" THEN "Eof" ELSE "Io"

\* read_status and the status check of http_get.  An end of file among the headers counts as
\* the end of the head.
ReadHead ==
  /\ pc = "head"
  /\ \/ /\ ~Drained
        /\ LET t == Head(conn.wire) IN
             /\ conn' = [conn EXCEPT !.wire = Tail(@)]
             /\ IF t.k # "head" \/ t.x.status = None \/ t.x.len = NoNumber
                THEN Failed("Malformed", "http") /\ want' = want
                ELSE IF t.x.status # 200
                THEN Failed(IF t.x.status = 404 THEN "404" ELSE "Http", "status") /\ want' = want
                ELSE IF t.x.len = None
                THEN Failed("Malformed", "length") /\ want' = want
                ELSE want' = t.x.len /\ pc' = "body" /\ err' = err
     \/ /\ Drained /\ ~Up
        /\ Failed(IF ReadFails = "Eof" THEN "Malformed" ELSE "Io", "http")
        /\ UNCHANGED <<conn, want>>
     \/ /\ Expires
        /\ Failed("Timeout", "http")
        /\ UNCHANGED <<conn, want>>
  /\ UNCHANGED <<remoteVars, diskVars, planVars, call, reused, cause, faults>>

\* Mutant: no retry.
MayRetryNever == FALSE

MayRetry == err.from = "http" /\ reused /\ err.what # "Timeout"

\* http_get: a reused connection that fails is replaced, once.
Retry ==
  /\ pc = "failed" /\ MayRetry
  /\ reused' = FALSE /\ conn' = NoConn /\ pc' = "acquire" /\ err' = None
  /\ UNCHANGED <<cause, faults>> /\ TransportStep

-----------------------------------------------------------------------------
(* A listing and a tree: list_entries, run_dir, pull_entries. *)

\* Mutant: a body is read without a timeout.
BodyFailsUntimed(from) ==
  /\ Drained /\ ~Up
  /\ Failed(IF conn.state = "eof" THEN "Truncated" ELSE "Io", from)
  /\ conn' = conn

\* How a read of a body ends when it finds no byte.
BodyFails(from) ==
  /\ Drained
  /\ \/ ~Up /\ Failed(IF conn.state = "eof" THEN "Truncated" ELSE "Io", from)
     \/ Expires /\ Failed("Timeout", from)
  /\ conn' = conn

\* The body is read, the connection released, the entries parsed; a pull of a tree then
\* makes the directory it pulls to.
TakeListing ==
  /\ pc = "body" /\ call.op = "list"
  /\ \/ /\ ~Drained
        /\ conn' = [conn EXCEPT !.wire = Tail(@)]
        /\ \/ /\ pc' = "take" /\ err' = err
              /\ todo' = Head(conn.wire).x \o todo
              /\ UNCHANGED <<cause, faults>>
           \/ call.top /\ Fault /\ Failed("Io", "mkdir") /\ todo' = todo
     \/ BodyFails("list") /\ UNCHANGED <<todo, cause, faults>>
  /\ UNCHANGED <<remoteVars, diskVars, call, reused, want, target, kind, warned, code, runs, kills>>

\* Mutant: what exists is skipped, whatever its size.
SkipPresent(e) == local[e.node] # None

\* skip_existing
SkipExisting(e) == local[e.node] # None /\ Len(local[e.node]) = e.size

TakeEntry ==
  /\ pc = "take" /\ todo # <<>>
  /\ LET e == Head(todo) IN
       \/ /\ e.node \in Dirs
          /\ \/ Begin("list", e.node, FALSE, conn # NoConn) /\ faults' = faults
             \/ Fault /\ Failed("Io", "mkdir") /\ UNCHANGED <<call, reused, want>>
       \/ /\ e.node \in Files /\ ~SkipExisting(e)
          /\ Begin("pull", e.node, FALSE, conn # NoConn) /\ faults' = faults
       \/ /\ e.node \in Files /\ SkipExisting(e)
          /\ UNCHANGED <<callVars, cause, faults>>
  /\ todo' = Tail(todo)
  /\ UNCHANGED <<remoteVars, diskVars, conn, target, kind, warned, code, runs, kills>>

PullEnds ==
  /\ pc = "take" /\ todo = <<>>
  /\ pc' = "ended" /\ code' = "ok" /\ conn' = NoConn
  /\ UNCHANGED <<remoteVars, diskVars, target, kind, todo, warned, runs, kills,
                 call, reused, want, err, cause, faults>>

-----------------------------------------------------------------------------
(* A file: fetch_file, copy_in_blocking, copy_sync, discard. *)

Bytes(tokens) == [i \in DOMAIN tokens |-> tokens[i].x]
MinOf(m, n) == IF m < n THEN m ELSE n
FileStep == UNCHANGED <<remoteVars, planVars, call, reused, want>>

\* What the BufReader has read ahead is copied out of it and written first, as much of it
\* as belongs to the body.
CreateFile ==
  /\ pc = "body" /\ call.op = "pull"
  /\ LET f == call.node IN
       IF (perm[f] = "ro" /\ local[f] # None) \/ (perm[f] = "stuck" /\ local[f] = None)
       THEN Failed("Io", "create") /\ UNCHANGED <<local, conn>>
       ELSE /\ \E k \in 0..Len(conn.wire) :
                 LET take == MinOf(k, want)
                 IN /\ local' = [local EXCEPT ![f] = Bytes(SubSeq(conn.wire, 1, take))]
                    /\ conn' = [conn EXCEPT !.wire = SubSeq(@, k + 1, Len(@))]
            /\ pc' = "copy" /\ err' = err
  /\ UNCHANGED <<perm, cause, faults>> /\ FileStep

Copied == Len(local[call.node])

CopyRead ==
  /\ pc = "copy" /\ Copied < want
  /\ \/ \E n \in 1..MinOf(want - Copied, Len(conn.wire)) :
          /\ local' = [local EXCEPT ![call.node] = @ \o Bytes(SubSeq(conn.wire, 1, n))]
          /\ conn' = [conn EXCEPT !.wire = SubSeq(@, n + 1, Len(@))]
          /\ UNCHANGED <<pc, err>>
     \/ BodyFails("copy") /\ local' = local
  /\ UNCHANGED <<perm, cause, faults>> /\ FileStep

WriteFails ==
  /\ pc = "copy" /\ Fault /\ Failed("Io", "copy")
  /\ UNCHANGED <<diskVars, conn>> /\ FileStep

\* The length is reached: the connection goes back to the pool.
FileDone ==
  /\ pc = "copy" /\ Copied = want
  /\ IF call.top THEN pc' = "ended" /\ code' = "ok" /\ conn' = NoConn
                 ELSE pc' = "take" /\ UNCHANGED <<code, conn>>
  /\ UNCHANGED <<remoteVars, diskVars, target, kind, todo, warned, runs, kills,
                 call, reused, want, err, cause, faults>>

\* Mutant: nothing is removed.
DiscardNever ==
  /\ pc = "failed" /\ err.from \in {"create", "copy"}
  /\ err' = [err EXCEPT !.from = "discarded"] /\ pc' = pc
  /\ UNCHANGED <<diskVars, conn, cause, faults>> /\ FileStep

\* Whatever copy_in_blocking fails of, the file is removed, if the directory lets it.
Discard ==
  /\ pc = "failed" /\ err.from \in {"create", "copy"}
  /\ err' = [err EXCEPT !.from = "discarded"] /\ pc' = pc
  /\ LET f == call.node IN
       IF perm[f] = "stuck" THEN UNCHANGED diskVars
       ELSE local' = [local EXCEPT ![f] = None] /\ perm' = [perm EXCEPT ![f] = "rw"]
  /\ UNCHANGED <<conn, cause, faults>> /\ FileStep

\* The error leaves the request: a file of a tree that could not be fetched is warned of, a target
\* that is no directory may be a file, and anything else ends the run: also a directory that could
\* not be made, whatever was pulled before it.
MayBeFile == call.op = "list" /\ call.top /\ kind = "Auto" /\ err.what = "404"
LeaveRequest ==
  /\ pc = "failed" /\ ~MayRetry /\ err.from \notin {"create", "copy"}
  /\ \/ /\ call.op = "pull" /\ ~call.top /\ err.from # "mkdir"
        /\ warned' = warned \cup {call.node} /\ pc' = "take"
        /\ UNCHANGED <<code, call, reused, want, err, cause>>
     \/ /\ MayBeFile
        /\ Begin("pull", call.node, TRUE, FALSE) /\ UNCHANGED <<warned, code>>
     \/ /\ call.top \/ call.op = "list" \/ err.from = "mkdir"
        /\ ~MayBeFile
        /\ pc' = "ended"
        /\ code' = IF call.top /\ err.what = "404" THEN "NotFound" ELSE "error"
        /\ UNCHANGED <<warned, call, reused, want, err, cause>>
  /\ UNCHANGED <<remoteVars, diskVars, target, kind, todo, runs, kills, faults>>

\* Mutant: the connection goes back to the pool after an error.
GiveUpReleases == LeaveRequest /\ conn' = conn

\* Only a connection whose body was read in full is released.
GiveUp == LeaveRequest /\ conn' = NoConn

\* The client is killed: the file it was writing stays as it is.
Kill ==
  /\ pc \notin {"off", "ended"}
  /\ pc' = "off" /\ conn' = NoConn /\ kills' = kills + 1
  /\ UNCHANGED <<remoteVars, diskVars, target, kind, todo, warned, code, runs,
                 call, reused, want, err, cause, faults>>

Client ==
  \/ Connect \/ Request \/ ReadHead \/ Retry
  \/ TakeListing \/ TakeEntry \/ PullEnds
  \/ CreateFile \/ CopyRead \/ FileDone \/ Discard \/ GiveUp

Environment ==
  RemoteChanges \/ Answer \/ SendByte \/ CloseIdle \/ CutAnswer \/ TimePasses \/ WriteFails \/ Kill

Next == Run \/ Client \/ Environment

\* The client's task is polled when its socket or its timer is ready, and time passes: nothing
\* is assumed of the server.
Fairness == WF_vars(Client) /\ WF_vars(TimePasses)

Spec == Init /\ [][Next]_vars /\ Fairness

-----------------------------------------------------------------------------
(* Properties. *)

\* Every byte on its way to the client answers the request it is making, and a connection in
\* the pool carries nothing: an answer that comes late, or the rest of one that was given up,
\* is never read as the answer to a later request.
Framing ==
  conn # NoConn =>
    /\ \A i \in DOMAIN conn.wire : conn.wire[i].to = call
    /\ \A i \in DOMAIN conn.sending : conn.sending[i].to = call
    /\ pc \in {"take", "acquire"} => conn.wire = <<>> /\ conn.sending = <<>> /\ conn.asked = <<>>

Disturbed == \E n \in Nodes : Cardinality(seen[n]) > 1

\* A request fails only when something is wrong with it: a server that closes or resets a
\* kept-alive connection between two requests costs nothing, not even when the next request
\* is already on its way.
FailsOnlyForCause ==
  pc = "failed" /\ ~MayRetry =>
    \/ cause \/ Disturbed
    \/ err.what = "Timeout"
    \/ err.what = "404" /\ (call.top \/ remote[call.node] = None)
    \/ call.node \in Files /\ perm[call.node] # "rw"
    \/ err.from = "discarded"

\* When a pull of a tree ends well, a file below its target that was there all along was warned
\* of, or is there as a version the remote had during the run, or, having the size of one, was
\* taken for it.
Delivered ==
  pc = "ended" /\ code = "ok" /\ ~(call.top /\ call.op = "pull") =>
    \A f \in Below(target) :
      \/ f \in warned
      \/ None \in seen[f] \/ \E d \in Leaves : None \in seen[d]
      \/ /\ local[f] # None
         /\ \E v \in seen[f] : local[f] = Body(f, v) \/ Len(local[f]) = Size[v]

\* A pull ends though the server may keep silent for ever, in a head or in a body.  (That it sends
\* lines of a head without end, which read_status would read without end, is no step here.)
Ends == pc # "off" ~> pc \in {"off", "ended"}

-----------------------------------------------------------------------------
(* What a pull promises: Mirror. *)

\* The file being written is promised to be nothing until it is complete.
Writing(f) ==
  /\ pc = "copy" \/ (pc = "failed" /\ err.from = "copy")
  /\ call.node = f /\ call.op = "pull"

CopyOf(f) ==
  IF Writing(f) \/ local[f] = None THEN "absent"
  ELSE IF local[f] = OwnBytes THEN "own"
  ELSE IF \E v \in Versions : local[f] = Body(f, v)
  THEN CHOOSE v \in Versions : local[f] = Body(f, v)
  ELSE "torn"

Promise == INSTANCE Mirror WITH
  Empty <- {v \in Versions : Size[v] = 0},
  Own <- "own",
  offered <- [f \in Files |-> seen[f] \ {None}],
  copy <- [f \in Files |-> CopyOf(f)],
  stuck <- {f \in Files : perm[f] = "stuck"}

KeepsPromise == Promise!Spec

\* "... delete the file that was not completely written" (fetch.rs, discard and fetch_file): a
\* fetch removes a file only when it has begun to write it.
DiscardsOnlyPartial ==
  [][\A f \in Files : local[f] # None /\ local'[f] = None => err.from = "copy"]_vars
=============================================================================
