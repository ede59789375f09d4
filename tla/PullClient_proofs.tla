-------------------------- MODULE PullClient_proofs --------------------------
(***************************************************************************)
(* Of PullClient, for any remote tree, any versions and sizes of files,    *)
(* any number of changes, faults, runs and kills: Framing, that requests   *)
(* fail only for cause, that a pull keeps the promise of Mirror, and that  *)
(* a pull of a tree that ends well has lost no file of it.                 *)
(***************************************************************************)
EXTENDS PullClient, TLAPS, FiniteSetTheorems

\* What a connection carries is not described: it is a sequence of something.
IsSeq(s) == \E S : s \in Seq(S)
Conns(S) == [asked : Seq(S), wire : Seq(S), sending : Seq(S),
             state : {"open", "slow", "eof", "reset"}, used : BOOLEAN]
IsConn(c) == \E S : c \in Conns(S)

RemoteTypes ==
  /\ DOMAIN remote = Nodes /\ remote = [n \in Nodes |-> remote[n]]
  /\ \A f \in Files : remote[f] \in Versions \cup {None}

LocalTypes ==
  /\ DOMAIN local = Files /\ local = [f \in Files |-> local[f]]
  /\ \A f \in Files : local[f] # None => IsSeq(local[f])

\* A body of so many bytes can follow a request's head: a listing is one byte, and only a file
\* is pulled.
Fits(len, q) == len \in Nat /\ (q.op = "list" => len <= 1) /\ (q.op # "list" => q.node \in Files)

\* A head the client goes on after, and how many bytes it says follow.
GoesOn(t) == t.k = "head" /\ t.x.status = 200 /\ t.x.len \notin {None, NoNumber}

\* Everything on its way is about the request being made.
Addressed(c) ==
  /\ \A i \in 1..Len(c.asked) : c.asked[i] = call
  /\ \A i \in 1..Len(c.wire) : c.wire[i].to = call
  /\ \A i \in 1..Len(c.sending) : c.sending[i].to = call

Empty(c) == c.asked = <<>> /\ c.wire = <<>> /\ c.sending = <<>>

\* Awaiting a head: the request is on its way, or its answer, of no more bytes than it says, or
\* neither.
AtHead(c) ==
  \/ c.asked = <<call>> /\ c.wire = <<>> /\ c.sending = <<>>
  \/ Empty(c)
  \/ /\ c.asked = <<>> /\ c.wire # <<>>
     /\ GoesOn(c.wire[1]) =>
          /\ Fits(c.wire[1].x.len, call)
          /\ Len(c.wire) - 1 + Len(c.sending) <= c.wire[1].x.len

\* Within a body: what has been copied, what is on the wire and what is to come is no more than
\* the length wanted.
Got == IF pc = "copy" THEN Len(local[call.node]) ELSE 0
AtBody(c) ==
  /\ c.asked = <<>> /\ Fits(want, call) /\ Got \in Nat
  /\ Got + Len(c.wire) + Len(c.sending) <= want
  /\ pc = "copy" => call.op = "pull" /\ IsSeq(local[call.node])

Good(c) ==
  /\ IsConn(c) /\ Addressed(c)
  /\ pc \in {"take", "acquire"} => Empty(c)
  /\ pc = "head" => AtHead(c)
  /\ pc \in {"body", "copy"} => AtBody(c)

ConnInv ==
  /\ conn # NoConn \/ pc \in {"head", "body", "copy"} => Good(conn)
  /\ pc \in {"off", "ended"} => conn = NoConn

\* The inductive invariant: Framing alone does not say why nothing is left when a body has been
\* read; the lengths do.
Inv == RemoteTypes /\ LocalTypes /\ ConnInv

-----------------------------------------------------------------------------
(* Sequences of something. *)

LEMMA SeqGrows ==
  ASSUME NEW S, NEW T, S \subseteq T, NEW s \in Seq(S)
  PROVE  s \in Seq(T)
OBVIOUS

\* The parts of a connection, and one with other parts.
LEMMA ConnParts ==
  ASSUME NEW c, IsConn(c)
  PROVE  /\ IsSeq(c.asked) /\ IsSeq(c.wire) /\ IsSeq(c.sending)
         /\ c.state \in {"open", "slow", "eof", "reset"}
BY DEF IsConn, Conns, IsSeq

LEMMA SeqLen ==
  ASSUME NEW s, IsSeq(s)
  PROVE  /\ Len(s) \in Nat
         /\ s = <<>> <=> Len(s) = 0
BY DEF IsSeq

LEMMA SeqTail ==
  ASSUME NEW s, IsSeq(s), s # <<>>
  PROVE  /\ IsSeq(Tail(s)) /\ Len(Tail(s)) = Len(s) - 1 /\ Head(s) = s[1]
         /\ \A i \in 1..Len(s) - 1 : Tail(s)[i] = s[i + 1]
BY DEF IsSeq

LEMMA TailOfOne ==
  ASSUME NEW x
  PROVE  Tail(<<x>>) = <<>>
OBVIOUS

LEMMA SeqAppend ==
  ASSUME NEW s, IsSeq(s), NEW t
  PROVE  /\ IsSeq(Append(s, t)) /\ Len(Append(s, t)) = Len(s) + 1
         /\ \A i \in 1..Len(s) : Append(s, t)[i] = s[i]
         /\ Append(s, t)[Len(s) + 1] = t
<1>1. PICK S : s \in Seq(S)
  BY DEF IsSeq
<1>2. s \in Seq(S \cup {t}) /\ t \in S \cup {t}
  BY <1>1, SeqGrows
<1>3. Append(s, t) \in Seq(S \cup {t})
  BY <1>2
<1> QED
  BY <1>2, <1>3 DEF IsSeq

LEMMA SeqRest ==
  ASSUME NEW s, IsSeq(s), NEW k \in 0..Len(s)
  PROVE  /\ IsSeq(SubSeq(s, k + 1, Len(s))) /\ Len(SubSeq(s, k + 1, Len(s))) = Len(s) - k
         /\ \A i \in 1..Len(s) - k : SubSeq(s, k + 1, Len(s))[i] = s[i + k]
<1>1. PICK S : s \in Seq(S)
  BY DEF IsSeq
<1>2. Len(s) \in Nat /\ k \in Nat
  BY <1>1
<1>3. SubSeq(s, k + 1, Len(s)) \in Seq(S)
  BY <1>1
<1>4. Len(SubSeq(s, k + 1, Len(s))) = Len(s) - k
  BY <1>1, <1>2
<1>5. \A i \in 1..Len(s) - k : SubSeq(s, k + 1, Len(s))[i] = s[i + k]
  BY <1>1, <1>2
<1> QED
  BY <1>3, <1>4, <1>5 DEF IsSeq

LEMMA SeqBytes ==
  ASSUME NEW s, IsSeq(s), NEW k \in 0..Len(s)
  PROVE  IsSeq(Bytes(SubSeq(s, 1, k))) /\ Len(Bytes(SubSeq(s, 1, k))) = k
<1>1. PICK S : s \in Seq(S)
  BY DEF IsSeq
<1> DEFINE front == SubSeq(s, 1, k)
<1>2. front \in Seq(S) /\ Len(front) = k /\ k \in Nat
  BY <1>1
<1> HIDE DEF front
<1>3. Bytes(front) \in Seq({front[i].x : i \in 1..k})
  BY <1>2 DEF Bytes
<1>4. Len(Bytes(front)) = k
  BY <1>2, <1>3 DEF Bytes
<1> QED
  BY <1>3, <1>4 DEF IsSeq, front

LEMMA SeqJoin ==
  ASSUME NEW s, IsSeq(s), NEW t, IsSeq(t)
  PROVE  IsSeq(s \o t) /\ Len(s \o t) = Len(s) + Len(t)
<1>1. PICK S : s \in Seq(S)
  BY DEF IsSeq
<1>2. PICK T : t \in Seq(T)
  BY DEF IsSeq
<1>3. s \in Seq(S \cup T) /\ t \in Seq(S \cup T)
  BY <1>1, <1>2, SeqGrows
<1>4. s \o t \in Seq(S \cup T)
  BY <1>3
<1> QED
  BY <1>3, <1>4 DEF IsSeq

\* What a connection holds and what it will hold are sequences of the same.
LEMMA ConnWith ==
  ASSUME NEW c, IsConn(c), NEW a, IsSeq(a), NEW w, IsSeq(w), NEW s, IsSeq(s)
  PROVE  \E T : c \in Conns(T) /\ a \in Seq(T) /\ w \in Seq(T) /\ s \in Seq(T)
<1>1. PICK A : a \in Seq(A)
  BY DEF IsSeq
<1>2. PICK B : w \in Seq(B)
  BY DEF IsSeq
<1>3. PICK C : s \in Seq(C)
  BY DEF IsSeq
<1>4. PICK S : c \in Conns(S)
  BY DEF IsConn
<1> DEFINE T == A \cup B \cup C \cup S
<1>5. a \in Seq(T) /\ w \in Seq(T) /\ s \in Seq(T)
  BY <1>1, <1>2, <1>3, SeqGrows
<1>6. c.asked \in Seq(T) /\ c.wire \in Seq(T) /\ c.sending \in Seq(T)
  BY <1>4, SeqGrows DEF Conns
<1> HIDE DEF T
<1>7. c \in Conns(T)
  BY <1>4, <1>6 DEF Conns
<1> QED
  BY <1>5, <1>7

-----------------------------------------------------------------------------
(* Bytes copied, on the wire and to come, against the length said. *)

LEMMA SumsKept ==
  ASSUME NEW g \in Nat, NEW m \in Nat, NEW n \in Nat, NEW w \in Nat, g + m + n <= w
  PROVE  /\ n # 0 => g + (m + 1) + (n - 1) <= w
         /\ \A i \in 0..m, j \in 0..n : g + i + j <= w
OBVIOUS

LEMMA DifferenceKept ==
  ASSUME NEW m \in Nat, NEW n \in Nat, NEW w \in Nat, m - 1 + n <= w,
         NEW k \in Nat, k <= n
  PROVE  m - 1 + k <= w
OBVIOUS

LEMMA FirstTaken ==
  ASSUME NEW m \in Nat, NEW n \in Nat, NEW w \in Nat, m - 1 + n <= w, NEW k, k = m - 1
  PROVE  0 + k + n <= w
OBVIOUS

LEMMA OnlyOne ==
  ASSUME NEW m \in Nat, m # 0, NEW n \in Nat, NEW w \in Nat, w <= 1, 0 + m + n <= w
  PROVE  m = 1 /\ n = 0
OBVIOUS

LEMMA SumKept ==
  ASSUME NEW g \in Nat, NEW m \in Nat, NEW n \in Nat
  PROVE  g + (m + 1) + (n - 1) = g + m + n
OBVIOUS

LEMMA HeadGone ==
  ASSUME NEW m \in Nat, NEW n \in Nat, NEW k, k = m - 1
  PROVE  0 + k + n = m - 1 + n
OBVIOUS

LEMMA OnlyHead ==
  ASSUME NEW n \in Nat
  PROVE  1 - 1 + n = n
OBVIOUS

LEMMA NoneLeft ==
  ASSUME NEW m \in Nat, NEW n \in Nat, NEW w \in Nat, w + m + n <= w
  PROVE  m = 0 /\ n = 0
OBVIOUS

LEMMA TakenFits ==
  ASSUME NEW m \in Nat, NEW n \in Nat, NEW w \in Nat, 0 + m + n <= w,
         NEW k \in Nat, k <= m
  PROVE  k <= w /\ k + (m - k) + n <= w
OBVIOUS

LEMMA MoreFits ==
  ASSUME NEW g \in Nat, NEW m \in Nat, NEW n \in Nat, NEW w \in Nat, g + m + n <= w,
         NEW k \in 0..m
  PROVE  g + k + (m - k) + n <= w
OBVIOUS

-----------------------------------------------------------------------------
(* What the server answers. *)

\* An answer the client goes on with is a listing, of one byte, or the body of a file.
LEMMA ResponseFacts ==
  ASSUME RemoteTypes, NEW q
  PROVE  /\ IsSeq(Response(q).body) /\ Len(Response(q).body) \in Nat
         /\ Response(q).status = 200 => Fits(Len(Response(q).body), q)
<1> DEFINE r == Response(q)
<1>1. CASE q.op = "list" /\ q.node \in Dirs /\ remote[q.node] # None
  <2>1. r.status = 200 /\ r.body = <<Listing(q.node)>>
    BY <1>1 DEF Response
  <2>2. r.body \in Seq({Listing(q.node)}) /\ Len(r.body) = 1
    BY <2>1
  <2>3. IsSeq(r.body)
    BY <2>2 DEF IsSeq
  <2> HIDE DEF r
  <2> QED
    BY <1>1, <2>2, <2>3 DEF Fits, r
<1>2. CASE q.op = "pull" /\ q.node \in Files /\ remote[q.node] # None
  <2>1. r.status = 200 /\ r.body = Body(q.node, remote[q.node])
    BY <1>2 DEF Response
  <2>2. Size[remote[q.node]] \in Nat
    BY <1>2, SizeAssumption DEF RemoteTypes
  <2>3. r.body \in Seq({<<q.node, remote[q.node], i>> : i \in 1..Size[remote[q.node]]})
        /\ Len(r.body) = Size[remote[q.node]]
    BY <2>1, <2>2 DEF Body
  <2> QED
    BY <1>2, <2>1, <2>2, <2>3 DEF Fits, IsSeq
<1>3. CASE /\ ~(q.op = "list" /\ q.node \in Dirs /\ remote[q.node] # None)
           /\ ~(q.op = "pull" /\ q.node \in Files /\ remote[q.node] # None)
  <2>1. r.status = 404 /\ r.body = <<<<"page", 0, 1>>>>
    BY <1>3 DEF Response
  <2>2. r.body \in Seq({<<"page", 0, 1>>}) /\ Len(r.body) = 1
    BY <2>1
  <2>3. IsSeq(r.body)
    BY <2>2 DEF IsSeq
  <2> HIDE DEF r
  <2> QED
    BY <2>1, <2>2, <2>3 DEF r
<1> QED
  BY <1>1, <1>2, <1>3

-----------------------------------------------------------------------------
(* One lemma for each action. *)

\* What an action that leaves the remote and the local files alone keeps of the types.
LEMMA TypesKept ==
  ASSUME Inv, UNCHANGED remote, UNCHANGED local
  PROVE  RemoteTypes' /\ LocalTypes'
BY DEF Inv, RemoteTypes, LocalTypes

\* No connection, and no step that uses one.
LEMMA WithoutConn ==
  ASSUME conn' = NoConn, pc' \notin {"head", "body", "copy"}
  PROVE  ConnInv'
BY DEF ConnInv

LEMMA RunStep == ASSUME Inv, Run PROVE Inv'
<1>1. conn' = NoConn /\ pc' = "acquire" /\ UNCHANGED <<remote, local>>
  BY DEF Run, Begin, diskVars
<1> QED
  BY <1>1, TypesKept, WithoutConn DEF Inv

LEMMA RetryStep == ASSUME Inv, Retry PROVE Inv'
<1>1. conn' = NoConn /\ pc' = "acquire" /\ UNCHANGED <<remote, local>>
  BY DEF Retry, TransportStep, remoteVars, diskVars
<1> QED
  BY <1>1, TypesKept, WithoutConn DEF Inv

LEMMA PullEndsStep == ASSUME Inv, PullEnds PROVE Inv'
<1>1. conn' = NoConn /\ pc' = "ended" /\ UNCHANGED <<remote, local>>
  BY DEF PullEnds, remoteVars, diskVars
<1> QED
  BY <1>1, TypesKept, WithoutConn DEF Inv

LEMMA GiveUpStep == ASSUME Inv, GiveUp PROVE Inv'
<1>1. conn' = NoConn /\ pc' \in {"take", "acquire", "ended"} /\ UNCHANGED <<remote, local>>
  BY DEF GiveUp, LeaveRequest, Begin, remoteVars, diskVars
<1> QED
  BY <1>1, TypesKept, WithoutConn DEF Inv

LEMMA KillStep == ASSUME Inv, Kill PROVE Inv'
<1>1. conn' = NoConn /\ pc' = "off" /\ UNCHANGED <<remote, local>>
  BY DEF Kill, remoteVars, diskVars
<1> QED
  BY <1>1, TypesKept, WithoutConn DEF Inv

\* The connection of a step that has one.
LEMMA ConnIsGood ==
  ASSUME Inv, conn # NoConn \/ pc \in {"head", "body", "copy"}
  PROVE  Good(conn) /\ IsConn(conn) /\ pc \notin {"off", "ended"}
BY DEF Inv, ConnInv, Good

\* A request that failed leaves its connection as it was.
LEMMA FailedKeeps ==
  ASSUME Inv, UNCHANGED <<remote, local, conn, call>>, pc' = "failed",
         conn # NoConn => Good(conn)
  PROVE  Inv'
<1>1. ConnInv'
  BY DEF ConnInv, Good, Addressed
<1> QED
  BY <1>1, TypesKept DEF Inv

\* Nothing of the client and of its connection changes.
LEMMA ClientKept ==
  ASSUME Inv, UNCHANGED <<local, conn, call, pc, want>>
  PROVE  LocalTypes' /\ ConnInv'
BY DEF Inv, LocalTypes, ConnInv, Good, Addressed, AtHead, AtBody, Empty, Got

LEMMA RemoteChangesStep == ASSUME Inv, RemoteChanges PROVE Inv'
<1>1. LocalTypes' /\ ConnInv'
  BY ClientKept DEF RemoteChanges, diskVars, callVars
<1>2. RemoteTypes'
  <2>1. CASE \E f \in Files : \E v \in Versions \cup {None} : remote' = [remote EXCEPT ![f] = v]
    <3>1. PICK f \in Files, v \in Versions \cup {None} : remote' = [remote EXCEPT ![f] = v]
      BY <2>1
    <3> QED
      BY <3>1 DEF Inv, RemoteTypes, Nodes
  <2>2. CASE \E d \in Leaves :
               remote' = [n \in Nodes |-> IF n = d \/ n \in Tree[d] THEN None ELSE remote[n]]
    <3>1. PICK d \in Leaves :
            remote' = [n \in Nodes |-> IF n = d \/ n \in Tree[d] THEN None ELSE remote[n]]
      BY <2>2
    <3>2. \A f \in Files : remote'[f] = None \/ remote'[f] = remote[f]
      BY <3>1 DEF Nodes
    <3> QED
      BY <3>1, <3>2 DEF Inv, RemoteTypes
  <2>3. \/ \E f \in Files : \E v \in Versions \cup {None} : remote' = [remote EXCEPT ![f] = v]
        \/ \E d \in Leaves :
             remote' = [n \in Nodes |-> IF n = d \/ n \in Tree[d] THEN None ELSE remote[n]]
    BY DEF RemoteChanges
  <2> QED
    BY <2>1, <2>2, <2>3
<1> QED
  BY <1>1, <1>2 DEF Inv

LEMMA ConnectStep == ASSUME Inv, Connect PROVE Inv'
<1>1. UNCHANGED <<remote, local>> /\ pc = "acquire"
  BY DEF Connect, TransportStep, remoteVars, diskVars
<1>2. CASE conn' = NoConn /\ pc' = "failed"
  BY <1>1, <1>2, TypesKept, WithoutConn DEF Inv
<1>3. CASE conn' = NewConn /\ pc' = pc
  <2>1. NewConn \in Conns({}) /\ Empty(NewConn)
    BY DEF NewConn, Conns, Empty
  <2>2. IsConn(NewConn)
    BY <2>1 DEF IsConn
  <2>3. Good(conn)'
    BY <1>1, <1>3, <2>1, <2>2 DEF Good, Addressed, Empty
  <2> QED
    BY <1>1, <1>3, <2>3, TypesKept DEF ConnInv, Inv
<1> QED
  BY <1>2, <1>3 DEF Connect, Failed

LEMMA DiscardStep == ASSUME Inv, Discard PROVE Inv'
<1>1. UNCHANGED <<remote, conn, call>> /\ pc = "failed" /\ pc' = "failed"
  BY DEF Discard, FileStep, remoteVars
<1>2. ConnInv'
  BY <1>1 DEF Inv, ConnInv, Good, Addressed
<1>3. local' = local \/ local' = [local EXCEPT ![call.node] = None]
  BY DEF Discard, diskVars
<1>4. LocalTypes'
  BY <1>3 DEF Inv, LocalTypes
<1>5. RemoteTypes'
  BY <1>1 DEF Inv, RemoteTypes
<1> QED
  BY <1>2, <1>4, <1>5 DEF Inv

LEMMA WriteFailsStep == ASSUME Inv, WriteFails PROVE Inv'
<1>1. UNCHANGED <<remote, local, conn, call>> /\ pc' = "failed"
  BY DEF WriteFails, Failed, FileStep, remoteVars, diskVars
<1> QED
  BY <1>1, ConnIsGood, FailedKeeps

\* A step of the server or of the network, on a connection.
LEMMA ServerSide ==
  ASSUME Inv, Up, ServerStep
  PROVE  /\ Good(conn) /\ IsConn(conn) /\ pc \notin {"off", "ended"}
         /\ UNCHANGED <<call, pc, want, Got>>
         /\ Good(conn)' => Inv'
<1>1. UNCHANGED <<remote, local, call, pc, want>>
  BY DEF ServerStep, remoteVars, diskVars, callVars
<1>2. Good(conn) /\ IsConn(conn) /\ pc \notin {"off", "ended"}
  BY ConnIsGood DEF Up, NoConn, NewConn
<1> QED
  BY <1>1, <1>2, TypesKept DEF Inv, ConnInv, Got

\* Where the client is when a request is on its way.
LEMMA RequestOnItsWay ==
  ASSUME Inv, conn # NoConn, conn.asked # <<>>
  PROVE  /\ Head(conn.asked) = call /\ pc \notin {"take", "acquire", "body", "copy"}
         /\ pc = "head" => conn.asked = <<call>> /\ conn.wire = <<>> /\ conn.sending = <<>>
<1>1. Good(conn) /\ IsSeq(conn.asked)
  BY ConnIsGood, ConnParts
<1>2. Head(conn.asked) = call
  BY <1>1, SeqLen, SeqTail DEF Good, Addressed
<1> QED
  BY <1>1, <1>2 DEF Good, AtHead, AtBody, Empty

LEMMA AnswerStep == ASSUME Inv, Answer PROVE Inv'
<1> DEFINE q == Head(conn.asked)
           r == Response(q)
           wire == Append(conn.wire, WholeHead(q, r))
           sending == [i \in DOMAIN r.body |-> Token(q, "data", r.body[i])]
<1>1. /\ Up /\ conn # NoConn /\ conn.asked # <<>> /\ conn.sending = <<>> /\ ServerStep
      /\ conn' = [conn EXCEPT !.asked = Tail(@), !.used = TRUE, !.wire = wire, !.sending = sending]
  BY DEF Answer, Up, NoConn, NewConn
<1>2. /\ Good(conn) /\ IsConn(conn) /\ UNCHANGED <<call, pc, want>>
  BY <1>1, ServerSide
<1>3. /\ IsSeq(conn.asked) /\ IsSeq(conn.wire) /\ IsSeq(conn.sending)
      /\ conn.state \in {"open", "slow", "eof", "reset"}
  BY <1>2, ConnParts
<1>4. /\ q = call /\ pc \notin {"take", "acquire", "body", "copy"}
      /\ pc = "head" => conn.asked = <<call>> /\ conn.wire = <<>>
  BY <1>1, RequestOnItsWay
<1>5. /\ IsSeq(r.body) /\ Len(r.body) \in Nat
      /\ r.status = 200 => Fits(Len(r.body), call)
  BY <1>4, ResponseFacts DEF Inv
<1>6. IsSeq(sending) /\ Len(sending) = Len(r.body)
      /\ \A i \in 1..Len(sending) : sending[i].to = call
  <2>1. DOMAIN r.body = 1..Len(r.body)
    BY <1>5 DEF IsSeq
  <2>2. sending \in Seq({Token(q, "data", r.body[i]) : i \in 1..Len(r.body)})
    BY <1>5, <2>1
  <2>3. Len(sending) = Len(r.body) /\ \A i \in 1..Len(sending) : sending[i] = Token(q, "data", r.body[i])
    BY <1>5, <2>1
  <2>4. IsSeq(sending)
    BY <2>2 DEF IsSeq
  <2> HIDE DEF sending, r
  <2>5. \A i \in 1..Len(sending) : Token(q, "data", r.body[i]).to = q
    BY DEF Token
  <2> HIDE DEF q
  <2> QED
    BY <1>4, <2>3, <2>4, <2>5
<1>7. /\ IsSeq(wire) /\ \A i \in 1..Len(wire) : wire[i].to = call
      /\ Len(wire) = Len(conn.wire) + 1 /\ wire[Len(conn.wire) + 1] = WholeHead(q, r)
  <2>1. /\ IsSeq(wire) /\ Len(wire) = Len(conn.wire) + 1
        /\ \A i \in 1..Len(conn.wire) : wire[i] = conn.wire[i]
        /\ wire[Len(conn.wire) + 1] = WholeHead(q, r)
    BY <1>3, SeqAppend
  <2>2. WholeHead(q, r).to = call /\ Len(conn.wire) \in Nat
    BY <1>3, <1>4, SeqLen DEF WholeHead, Token
  <2> HIDE DEF wire, r, q
  <2> QED
    BY <1>2, <2>1, <2>2 DEF Good, Addressed
<1>8. /\ IsSeq(Tail(conn.asked)) /\ \A i \in 1..Len(Tail(conn.asked)) : Tail(conn.asked)[i] = call
      /\ pc = "head" => Tail(conn.asked) = <<>>
  <2>1. /\ IsSeq(Tail(conn.asked)) /\ Len(Tail(conn.asked)) = Len(conn.asked) - 1
        /\ \A i \in 1..Len(conn.asked) - 1 : Tail(conn.asked)[i] = conn.asked[i + 1]
        /\ Len(conn.asked) \in Nat
    BY <1>1, <1>3, SeqTail, SeqLen
  <2>2. pc = "head" => Tail(conn.asked) = <<>>
    BY <1>4, TailOfOne
  <2> QED
    BY <1>2, <2>1, <2>2 DEF Good, Addressed
<1> HIDE DEF q, r, wire, sending
<1>9. /\ IsConn(conn') /\ conn'.asked = Tail(conn.asked) /\ conn'.wire = wire
      /\ conn'.sending = sending
  <2>1. IsSeq(Tail(conn.asked)) /\ IsSeq(wire) /\ IsSeq(sending)
    BY <1>6, <1>7, <1>8
  <2>2. PICK T : conn \in Conns(T) /\ Tail(conn.asked) \in Seq(T) /\ wire \in Seq(T)
                 /\ sending \in Seq(T)
    BY <1>2, <2>1, ConnWith
  <2> QED
    BY <1>1, <2>2 DEF Conns, IsConn
<1>10. Addressed(conn)'
  BY <1>2, <1>6, <1>7, <1>8, <1>9 DEF Addressed
<1>11. pc' = "head" => AtHead(conn)'
  <2> SUFFICES ASSUME pc = "head" PROVE AtHead(conn)'
    BY <1>2
  <2>1. Len(conn.wire) = 0
    BY <1>4
  <2>2. wire[1] = WholeHead(q, r) /\ Len(wire) = 1 /\ wire # <<>>
    BY <1>7, <2>1
  <2>3. GoesOn(wire[1]) => r.status = 200 /\ wire[1].x.len = Len(r.body)
    BY <2>2 DEF GoesOn, WholeHead, Token
  <2>4. GoesOn(wire[1]) =>
          Fits(wire[1].x.len, call) /\ Len(wire) - 1 + Len(sending) <= wire[1].x.len
    BY <1>5, <1>6, <2>2, <2>3
  <2> QED
    BY <1>2, <1>8, <1>9, <2>2, <2>4 DEF AtHead
<1>12. Good(conn)'
  BY <1>2, <1>4, <1>9, <1>10, <1>11 DEF Good
<1> QED
  BY <1>1, <1>12, ServerSide

LEMMA SendByteStep == ASSUME Inv, SendByte PROVE Inv'
<1> DEFINE wire == Append(conn.wire, Head(conn.sending))
           sending == Tail(conn.sending)
<1>1. /\ Up /\ conn.sending # <<>> /\ ServerStep
      /\ conn' = [conn EXCEPT !.wire = wire, !.sending = sending]
  BY DEF SendByte
<1>2. Good(conn) /\ IsConn(conn) /\ UNCHANGED <<call, pc, want, Got>>
  BY <1>1, ServerSide
<1>3. IsSeq(conn.asked) /\ IsSeq(conn.wire) /\ IsSeq(conn.sending)
  BY <1>2, ConnParts
<1>4. Len(conn.wire) \in Nat /\ Len(conn.sending) \in Nat /\ Len(conn.sending) # 0
  BY <1>1, <1>3, SeqLen
<1>5. /\ IsSeq(sending) /\ Len(sending) = Len(conn.sending) - 1
      /\ \A i \in 1..Len(conn.sending) - 1 : sending[i] = conn.sending[i + 1]
      /\ Head(conn.sending) = conn.sending[1]
  BY <1>1, <1>3, SeqTail
<1>6. /\ IsSeq(wire) /\ Len(wire) = Len(conn.wire) + 1
      /\ \A i \in 1..Len(conn.wire) : wire[i] = conn.wire[i]
      /\ wire[Len(conn.wire) + 1] = conn.sending[1]
  BY <1>3, <1>5, SeqAppend
<1> HIDE DEF wire, sending
<1>7. /\ IsConn(conn') /\ conn'.asked = conn.asked /\ conn'.wire = wire
      /\ conn'.sending = sending
  <2>1. PICK T : conn \in Conns(T) /\ conn.asked \in Seq(T) /\ wire \in Seq(T) /\ sending \in Seq(T)
    BY <1>2, <1>3, <1>5, <1>6, ConnWith
  <2> QED
    BY <1>1, <2>1 DEF Conns, IsConn
<1>8. Addressed(conn)'
  <2>1. \A i \in 1..Len(sending) : sending[i].to = call
    BY <1>2, <1>4, <1>5 DEF Good, Addressed
  <2>2. \A i \in 1..Len(wire) : wire[i].to = call
    BY <1>2, <1>4, <1>6 DEF Good, Addressed
  <2> QED
    BY <1>2, <1>7, <2>1, <2>2 DEF Good, Addressed
<1>9. pc \notin {"take", "acquire"}
  BY <1>1, <1>2 DEF Good, Empty
<1>10. pc = "head" => AtHead(conn)'
  <2> SUFFICES ASSUME pc = "head" PROVE AtHead(conn)'
    OBVIOUS
  <2>1. /\ conn.asked = <<>> /\ conn.wire # <<>>
        /\ GoesOn(conn.wire[1]) =>
             /\ Fits(conn.wire[1].x.len, call)
             /\ Len(conn.wire) - 1 + Len(conn.sending) <= conn.wire[1].x.len
    BY <1>1, <1>2 DEF Good, AtHead, Empty
  <2>2. Len(conn.wire) # 0
    BY <1>3, <2>1, SeqLen
  <2>3. wire[1] = conn.wire[1] /\ wire # <<>>
    BY <1>4, <1>6, <2>2, SeqLen
  <2>4. Len(wire) - 1 + Len(sending) = Len(conn.wire) - 1 + Len(conn.sending)
    BY <1>4, <1>5, <1>6
  <2> QED
    BY <1>2, <1>7, <2>1, <2>3, <2>4 DEF AtHead
<1>11. pc \in {"body", "copy"} => AtBody(conn)'
  <2> SUFFICES ASSUME pc \in {"body", "copy"} PROVE AtBody(conn)'
    OBVIOUS
  <2>1. /\ AtBody(conn) /\ UNCHANGED local
    BY <1>1, <1>2 DEF Good, ServerStep, diskVars
  <2>2. Len(wire) = Len(conn.wire) + 1 /\ Len(sending) = Len(conn.sending) - 1
    BY <1>5, <1>6
  <2>3. Got \in Nat /\ want \in Nat /\ Got + Len(conn.wire) + Len(conn.sending) <= want
    BY <2>1 DEF AtBody, Fits
  <2>4. Got + Len(wire) + Len(sending) <= want
    BY <1>4, <2>2, <2>3, SumsKept
  <2> QED
    BY <1>2, <1>7, <2>1, <2>4 DEF AtBody
<1>12. Good(conn)'
  BY <1>2, <1>7, <1>8, <1>9, <1>10, <1>11 DEF Good
<1> QED
  BY <1>1, <1>12, ServerSide

\* A connection of which something is dropped, or only the state changes, is as good.
LEMMA DropsKeep ==
  ASSUME Inv, Up, ServerStep, IsConn(conn'),
         conn'.asked = conn.asked \/ conn'.asked = <<>>,
         conn'.sending = conn.sending \/ conn'.sending = <<>>,
         conn'.wire = conn.wire \/ (conn'.wire = <<>> /\ conn'.sending = <<>>),
         conn'.asked = <<>> \/ (conn'.wire = conn.wire /\ conn'.sending = conn.sending)
  PROVE  Inv'
<1>1. Good(conn) /\ IsConn(conn) /\ UNCHANGED <<call, pc, want, Got, local>>
  BY ServerSide DEF ServerStep, diskVars
<1>2. /\ Len(conn.wire) \in Nat /\ Len(conn.sending) \in Nat /\ Len(<<>>) = 0
      /\ conn.wire = <<>> => Len(conn.wire) = 0
  BY <1>1, ConnParts, SeqLen
<1>3. Addressed(conn)'
  BY <1>1, <1>2 DEF Good, Addressed
<1>4. pc \in {"take", "acquire"} => Empty(conn)'
  BY <1>1 DEF Good, Empty
<1>5. pc = "head" => AtHead(conn)'
  <2> SUFFICES ASSUME pc = "head" PROVE AtHead(conn)'
    OBVIOUS
  <2>1. AtHead(conn)
    BY <1>1 DEF Good
  <2>2. CASE conn.asked = <<call>> /\ conn.wire = <<>> /\ conn.sending = <<>>
    BY <1>1, <2>2 DEF AtHead, Empty
  <2>3. CASE Empty(conn)
    BY <1>1, <2>3 DEF AtHead, Empty
  <2>4. CASE conn'.wire = <<>>
    BY <1>1, <2>1, <2>4 DEF AtHead, Empty
  <2>5. CASE /\ conn.asked = <<>> /\ conn.wire # <<>> /\ conn'.wire = conn.wire
             /\ GoesOn(conn.wire[1]) =>
                  /\ Fits(conn.wire[1].x.len, call)
                  /\ Len(conn.wire) - 1 + Len(conn.sending) <= conn.wire[1].x.len
    <3>1. Len(conn'.sending) \in Nat /\ Len(conn'.sending) <= Len(conn.sending)
      BY <1>2
    <3>2. GoesOn(conn.wire[1]) =>
            /\ Fits(conn.wire[1].x.len, call)
            /\ Len(conn.wire) - 1 + Len(conn'.sending) <= conn.wire[1].x.len
      <4> SUFFICES ASSUME GoesOn(conn.wire[1])
                   PROVE  /\ Fits(conn.wire[1].x.len, call)
                          /\ Len(conn.wire) - 1 + Len(conn'.sending) <= conn.wire[1].x.len
        OBVIOUS
      <4> DEFINE len == conn.wire[1].x.len
      <4>1. Fits(len, call) /\ len \in Nat /\ Len(conn.wire) - 1 + Len(conn.sending) <= len
        BY <2>5 DEF Fits
      <4>2. Len(conn.wire) \in Nat /\ Len(conn.sending) \in Nat
        BY <1>2
      <4> HIDE DEF len
      <4>3. Len(conn.wire) - 1 + Len(conn'.sending) <= len
        BY <3>1, <4>1, <4>2, DifferenceKept
      <4> QED
        BY <4>1, <4>3 DEF len
    <3> QED
      BY <1>1, <2>5, <3>2 DEF AtHead
  <2> QED
    BY <2>1, <2>2, <2>3, <2>4, <2>5 DEF AtHead
<1>6. pc \in {"body", "copy"} => AtBody(conn)'
  <2> SUFFICES ASSUME pc \in {"body", "copy"} PROVE AtBody(conn)'
    OBVIOUS
  <2>1. AtBody(conn)
    BY <1>1 DEF Good
  <2>2. /\ Len(conn'.sending) \in Nat /\ Len(conn'.sending) <= Len(conn.sending)
        /\ Len(conn'.wire) \in Nat /\ Len(conn'.wire) <= Len(conn.wire)
    BY <1>2
  <2>3. Got \in Nat /\ want \in Nat /\ Got + Len(conn.wire) + Len(conn.sending) <= want
    BY <2>1 DEF AtBody, Fits
  <2>4. Len(conn.wire) \in Nat /\ Len(conn.sending) \in Nat
    BY <1>2
  <2>5. Len(conn'.wire) \in 0..Len(conn.wire) /\ Len(conn'.sending) \in 0..Len(conn.sending)
    BY <2>2, <2>4
  <2>6. Got + Len(conn'.wire) + Len(conn'.sending) <= want
    BY <2>3, <2>4, <2>5, SumsKept
  <2> QED
    BY <1>1, <2>1, <2>6 DEF AtBody
<1>7. Good(conn)'
  BY <1>1, <1>3, <1>4, <1>5, <1>6 DEF Good
<1> QED
  BY <1>7, ServerSide

\* A connection of which parts are made empty is one.
LEMMA ConnEmptied ==
  ASSUME NEW c, IsConn(c), NEW st \in {"open", "slow", "eof", "reset"}
  PROVE  LET da == [c EXCEPT !.asked = <<>>, !.sending = <<>>, !.state = st]
             db == [c EXCEPT !.asked = <<>>, !.sending = <<>>, !.wire = <<>>, !.state = st]
             dc == [c EXCEPT !.state = st]
         IN /\ IsConn(da) /\ da.asked = <<>> /\ da.wire = c.wire /\ da.sending = <<>>
            /\ IsConn(db) /\ db.asked = <<>> /\ db.wire = <<>> /\ db.sending = <<>>
            /\ IsConn(dc) /\ dc.asked = c.asked /\ dc.wire = c.wire /\ dc.sending = c.sending
<1>1. PICK S : c \in Conns(S)
  BY DEF IsConn
<1> DEFINE da == [c EXCEPT !.asked = <<>>, !.sending = <<>>, !.state = st]
           db == [c EXCEPT !.asked = <<>>, !.sending = <<>>, !.wire = <<>>, !.state = st]
           dc == [c EXCEPT !.state = st]
<1> DEFINE nothing == <<>>
<1>0. nothing \in Seq(S)
  OBVIOUS
<1> HIDE DEF nothing
<1>2. da \in Conns(S) /\ da.asked = <<>> /\ da.wire = c.wire /\ da.sending = <<>>
  <2> DEFINE d == [c EXCEPT !.asked = nothing, !.sending = nothing, !.state = st]
  <2>1. d \in Conns(S) /\ d.asked = nothing /\ d.wire = c.wire /\ d.sending = nothing
    BY <1>0, <1>1 DEF Conns
  <2> QED
    BY <2>1 DEF nothing
<1>3. db \in Conns(S) /\ db.asked = <<>> /\ db.wire = <<>> /\ db.sending = <<>>
  <2> DEFINE d == [c EXCEPT !.asked = nothing, !.sending = nothing, !.wire = nothing, !.state = st]
  <2>1. d \in Conns(S) /\ d.asked = nothing /\ d.wire = nothing /\ d.sending = nothing
    BY <1>0, <1>1 DEF Conns
  <2> QED
    BY <2>1 DEF nothing
<1>4. dc \in Conns(S) /\ dc.asked = c.asked /\ dc.wire = c.wire /\ dc.sending = c.sending
  BY <1>1 DEF Conns
<1> HIDE DEF da, db, dc
<1>5. IsConn(da) /\ IsConn(db) /\ IsConn(dc)
  BY <1>2, <1>3, <1>4 DEF IsConn
<1> QED
  BY <1>2, <1>3, <1>4, <1>5 DEF da, db, dc

LEMMA CloseIdleStep == ASSUME Inv, CloseIdle PROVE Inv'
<1>1. Up /\ ServerStep /\ IsConn(conn)
  BY ServerSide DEF CloseIdle
<1>2. PICK st \in {"eof", "reset"} : conn' = [conn EXCEPT !.state = st, !.asked = <<>>]
  BY DEF CloseIdle
<1>3. /\ IsConn(conn') /\ conn'.asked = <<>> /\ conn'.wire = conn.wire
      /\ conn'.sending = conn.sending
  <2> DEFINE nothing == <<>>
  <2>1. PICK S : conn \in Conns(S)
    BY <1>1 DEF IsConn
  <2>2. nothing \in Seq(S)
    OBVIOUS
  <2>3. conn' = [conn EXCEPT !.state = st, !.asked = nothing]
    BY <1>2
  <2> HIDE DEF nothing
  <2>4. /\ conn' \in Conns(S) /\ conn'.asked = nothing /\ conn'.wire = conn.wire
        /\ conn'.sending = conn.sending
    BY <2>1, <2>2, <2>3 DEF Conns
  <2> QED
    BY <2>4 DEF nothing, IsConn
<1> QED
  BY <1>1, <1>3, DropsKeep

LEMMA TimePassesStep == ASSUME Inv, TimePasses PROVE Inv'
<1>1. Up /\ ServerStep /\ IsConn(conn) /\ conn' = [conn EXCEPT !.state = "slow"]
  BY ServerSide DEF TimePasses, Up
<1>2. /\ IsConn(conn') /\ conn'.asked = conn.asked /\ conn'.wire = conn.wire
      /\ conn'.sending = conn.sending
  BY <1>1, ConnEmptied
<1> QED
  BY <1>1, <1>2, DropsKeep

LEMMA CutAnswerStep == ASSUME Inv, CutAnswer PROVE Inv'
<1>1. Up /\ conn # NoConn /\ ServerStep
  BY DEF CutAnswer, Up, NoConn, NewConn
<1>2. Good(conn) /\ IsConn(conn) /\ UNCHANGED <<call, pc, want>>
  BY <1>1, ServerSide
<1>3. CASE conn' = [conn EXCEPT !.asked = <<>>, !.sending = <<>>, !.state = "eof"]
  <2>1. IsConn(conn') /\ conn'.asked = <<>> /\ conn'.wire = conn.wire /\ conn'.sending = <<>>
    BY <1>2, <1>3, ConnEmptied
  <2> QED
    BY <1>1, <2>1, DropsKeep
<1>4. CASE conn' = [conn EXCEPT !.asked = <<>>, !.sending = <<>>, !.wire = <<>>, !.state = "reset"]
  <2>1. IsConn(conn') /\ conn'.asked = <<>> /\ conn'.wire = <<>> /\ conn'.sending = <<>>
    BY <1>2, <1>4, ConnEmptied
  <2> QED
    BY <1>1, <2>1, DropsKeep
<1>5. CASE /\ conn.asked # <<>> /\ conn.sending = <<>>
           /\ \E h \in CutHeads(Head(conn.asked), Response(Head(conn.asked))) :
                conn' = [conn EXCEPT !.asked = <<>>, !.wire = Append(@, h), !.state = "eof"]
  <2> DEFINE r == Response(call)
  <2>1. /\ Head(conn.asked) = call /\ pc \notin {"take", "acquire", "body", "copy"}
        /\ pc = "head" => conn.wire = <<>>
    BY <1>1, <1>5, RequestOnItsWay
  <2>2. PICK h \in CutHeads(call, r) :
          conn' = [conn EXCEPT !.asked = <<>>, !.wire = Append(@, h), !.state = "eof"]
    BY <1>5, <2>1
  <2>3. Len(r.body) \in Nat /\ (r.status = 200 => Fits(Len(r.body), call))
    BY ResponseFacts DEF Inv
  <2>4. h.to = call /\ (GoesOn(h) => Fits(h.x.len, call))
    <3>1. CASE \E st \in {r.status, 20, None} : h = Token(call, "head", [status |-> st, len |-> None])
      BY <3>1 DEF Token, GoesOn
    <3>2. CASE \E l \in (1..Len(r.body)) \cup {Len(r.body), NoNumber} :
                  h = Token(call, "head", [status |-> r.status, len |-> l])
      <4>1. PICK l \in (1..Len(r.body)) \cup {Len(r.body), NoNumber} :
              h = Token(call, "head", [status |-> r.status, len |-> l])
        BY <3>2
      <4>2. h.to = call /\ h.x.len = l /\ h.x.status = r.status
        BY <4>1 DEF Token
      <4>3. GoesOn(h) => r.status = 200 /\ l \in Nat /\ l <= Len(r.body)
        BY <2>3, <4>1, <4>2 DEF GoesOn
      <4> QED
        BY <2>3, <4>2, <4>3 DEF Fits
    <3> QED
      BY <2>2, <3>1, <3>2 DEF CutHeads
  <2> DEFINE wire == Append(conn.wire, h)
  <2>5. IsSeq(conn.wire) /\ IsSeq(conn.sending) /\ IsSeq(conn.asked)
    BY <1>2, ConnParts
  <2>6. /\ IsSeq(wire) /\ Len(wire) = Len(conn.wire) + 1 /\ Len(conn.wire) \in Nat
        /\ \A i \in 1..Len(conn.wire) : wire[i] = conn.wire[i]
        /\ wire[Len(conn.wire) + 1] = h
    BY <2>5, SeqAppend, SeqLen
  <2> HIDE DEF wire, r
  <2>7. IsConn(conn') /\ conn'.asked = <<>> /\ conn'.wire = wire /\ conn'.sending = <<>>
    <3>1. PICK T : conn \in Conns(T) /\ conn.asked \in Seq(T) /\ wire \in Seq(T)
                   /\ conn.sending \in Seq(T)
      BY <1>2, <2>5, <2>6, ConnWith
    <3> QED
      BY <1>5, <2>2, <3>1 DEF Conns, IsConn, wire
  <2>8. Addressed(conn)'
    <3>1. \A i \in 1..Len(wire) : wire[i].to = call
      BY <1>2, <2>4, <2>6 DEF Good, Addressed
    <3> QED
      BY <1>2, <2>7, <3>1 DEF Addressed
  <2>9. pc = "head" => AtHead(conn)'
    <3> SUFFICES ASSUME pc = "head" PROVE AtHead(conn)'
      OBVIOUS
    <3>1. wire[1] = h /\ Len(wire) = 1
      BY <2>1, <2>6
    <3>2. wire # <<>>
      BY <3>1
    <3>3. GoesOn(wire[1]) =>
            Fits(wire[1].x.len, call) /\ Len(wire) - 1 + Len(<<>>) <= wire[1].x.len
      BY <2>4, <3>1 DEF Fits
    <3> QED
      BY <1>2, <2>7, <3>2, <3>3 DEF AtHead
  <2>10. Good(conn)'
    BY <1>2, <2>1, <2>7, <2>8, <2>9 DEF Good
  <2> QED
    BY <1>1, <2>10, ServerSide
<1> QED
  BY <1>3, <1>4, <1>5 DEF CutAnswer

LEMMA RequestStep == ASSUME Inv, Request PROVE Inv'
<1>1. /\ pc = "acquire" /\ conn # NoConn /\ UNCHANGED <<remote, local, call, want>>
  BY DEF Request, TransportStep, remoteVars, diskVars
<1>2. Good(conn) /\ IsConn(conn) /\ Empty(conn)
  BY <1>1, ConnIsGood DEF Good
<1>3. CASE pc' = "failed" /\ conn' = conn
  BY <1>1, <1>2, <1>3, FailedKeeps
<1>4. CASE pc' = "head" /\ conn' = [conn EXCEPT !.asked = IF Up THEN Append(@, call) ELSE @]
  <2> DEFINE one == <<call>>
  <2>1. Append(<<>>, call) = one
    OBVIOUS
  <2>2. one \in Seq({call}) /\ Len(one) = 1 /\ one[1] = call
    OBVIOUS
  <2>3. IsSeq(one)
    BY <2>2 DEF IsSeq
  <2> HIDE DEF one
  <2> DEFINE asked == IF Up THEN one ELSE conn.asked
  <2>4. conn' = [conn EXCEPT !.asked = asked]
    BY <1>2, <1>4, <2>1 DEF Empty
  <2>5. IsSeq(conn.asked) /\ IsSeq(conn.wire) /\ IsSeq(asked)
    BY <1>2, <2>3, ConnParts
  <2> HIDE DEF asked
  <2>6. /\ IsConn(conn') /\ conn'.asked = asked /\ conn'.wire = conn.wire
        /\ conn'.sending = conn.sending
    <3>1. PICK T : conn \in Conns(T) /\ asked \in Seq(T) /\ conn.wire \in Seq(T)
                   /\ conn.asked \in Seq(T)
      BY <1>2, <2>5, ConnWith
    <3> QED
      BY <2>4, <3>1 DEF Conns, IsConn
  <2>7. asked = one \/ asked = <<>>
    BY <1>2 DEF asked, Empty
  <2>8. \A i \in 1..Len(asked) : asked[i] = call
    <3>1. CASE asked = one
      <4>1. \A i \in 1..1 : i = 1
        OBVIOUS
      <4>2. 1..Len(asked) = 1..1 /\ asked[1] = call
        BY <2>2, <3>1
      <4> QED
        BY <4>1, <4>2
    <3>2. CASE asked = <<>>
      BY <3>2
    <3> QED
      BY <2>7, <3>1, <3>2
  <2>9. Addressed(conn)'
    BY <1>1, <1>2, <2>6, <2>8 DEF Good, Addressed
  <2>10. AtHead(conn)'
    BY <1>1, <1>2, <2>6, <2>7 DEF AtHead, Empty, one
  <2>11. Good(conn)'
    BY <1>4, <2>6, <2>9, <2>10 DEF Good
  <2> QED
    BY <1>1, <1>4, <2>11, TypesKept DEF Inv, ConnInv
<1> QED
  BY <1>3, <1>4 DEF Request, Failed

\* The connection once its first bytes are taken.
LEMMA WireTaken ==
  ASSUME NEW c, IsConn(c), NEW w, IsSeq(w)
  PROVE  LET d == [c EXCEPT !.wire = w]
         IN IsConn(d) /\ d.asked = c.asked /\ d.wire = w /\ d.sending = c.sending
<1>1. IsSeq(c.asked)
  BY ConnParts
<1>2. PICK T : c \in Conns(T) /\ c.asked \in Seq(T) /\ w \in Seq(T)
  BY <1>1, ConnWith
<1> DEFINE d == [c EXCEPT !.wire = w]
<1>3. d \in Conns(T) /\ d.asked = c.asked /\ d.wire = w /\ d.sending = c.sending
  BY <1>2 DEF Conns
<1> HIDE DEF d
<1>4. IsConn(d)
  BY <1>3 DEF IsConn
<1> QED
  BY <1>3, <1>4 DEF d

\* A request that failed after a read of its connection.
LEMMA FailedReading ==
  ASSUME Inv, UNCHANGED <<remote, local, call>>, pc' = "failed", IsConn(conn'), Addressed(conn)'
  PROVE  Inv'
<1>1. ConnInv'
  BY DEF ConnInv, Good
<1> QED
  BY <1>1, TypesKept DEF Inv

LEMMA ReadHeadStep == ASSUME Inv, ReadHead PROVE Inv'
<1>1. /\ pc = "head" /\ UNCHANGED <<remote, local, call>>
  BY DEF ReadHead, remoteVars, diskVars
<1>2. Good(conn) /\ IsConn(conn)
  BY <1>1, ConnIsGood
<1>3. CASE conn' = conn /\ pc' = "failed"
  BY <1>1, <1>2, <1>3, FailedKeeps
<1>4. CASE /\ conn.wire # <<>> /\ conn' = [conn EXCEPT !.wire = Tail(@)]
           /\ pc' = "failed" \/ (GoesOn(conn.wire[1]) /\ want' = conn.wire[1].x.len /\ pc' = "body")
  <2>1. IsSeq(conn.wire) /\ IsSeq(conn.sending)
    BY <1>2, ConnParts
  <2>2. /\ IsSeq(Tail(conn.wire)) /\ Len(Tail(conn.wire)) = Len(conn.wire) - 1
        /\ \A i \in 1..Len(conn.wire) - 1 : Tail(conn.wire)[i] = conn.wire[i + 1]
    BY <1>4, <2>1, SeqTail
  <2>3. Len(conn.wire) \in Nat /\ Len(conn.wire) # 0 /\ Len(conn.sending) \in Nat
    BY <1>4, <2>1, SeqLen
  <2>4. /\ IsConn(conn') /\ conn'.asked = conn.asked /\ conn'.wire = Tail(conn.wire)
        /\ conn'.sending = conn.sending
    BY <1>2, <1>4, <2>2, WireTaken
  <2>5. Addressed(conn)'
    <3>1. \A i \in 1..Len(Tail(conn.wire)) : Tail(conn.wire)[i].to = call
      BY <1>2, <2>2, <2>3 DEF Good, Addressed
    <3> QED
      BY <1>1, <1>2, <2>4, <3>1 DEF Good, Addressed
  <2>6. CASE pc' = "failed"
    BY <1>1, <2>4, <2>5, <2>6, FailedReading
  <2>7. CASE GoesOn(conn.wire[1]) /\ want' = conn.wire[1].x.len /\ pc' = "body"
    <3>1. AtHead(conn)
      BY <1>1, <1>2 DEF Good
    <3>2. /\ conn.asked = <<>> /\ Fits(want', call)
          /\ Len(conn.wire) - 1 + Len(conn.sending) <= want'
      BY <1>4, <2>7, <3>1 DEF AtHead, Empty
    <3>3. 0 + Len(Tail(conn.wire)) + Len(conn.sending) <= want'
      BY <2>2, <2>3, <3>2, FirstTaken DEF Fits
    <3>4. Got' = 0
      BY <2>7 DEF Got
    <3>5. AtBody(conn)'
      BY <1>1, <2>4, <2>7, <3>2, <3>3, <3>4 DEF AtBody, Fits
    <3>6. Good(conn)'
      BY <2>4, <2>5, <2>7, <3>5 DEF Good
    <3> QED
      BY <1>1, <2>7, <3>6, TypesKept DEF Inv, ConnInv
  <2> QED
    BY <1>4, <2>6, <2>7
<1>5. \/ conn' = conn /\ pc' = "failed"
      \/ /\ conn.wire # <<>> /\ conn' = [conn EXCEPT !.wire = Tail(@)]
         /\ pc' = "failed" \/ (GoesOn(conn.wire[1]) /\ want' = conn.wire[1].x.len /\ pc' = "body")
  <2>1. conn.wire # <<>> => Head(conn.wire) = conn.wire[1]
    BY <1>2, ConnParts, SeqTail
  <2> QED
    BY <2>1 DEF ReadHead, Drained, Failed, GoesOn
<1> QED
  BY <1>3, <1>4, <1>5

LEMMA TakeListingStep == ASSUME Inv, TakeListing PROVE Inv'
<1>1. /\ pc = "body" /\ call.op = "list" /\ UNCHANGED <<remote, local, call, want>>
  BY DEF TakeListing, remoteVars, diskVars
<1>2. Good(conn) /\ IsConn(conn) /\ AtBody(conn)
  BY <1>1, ConnIsGood DEF Good
<1>3. CASE conn' = conn /\ pc' = "failed"
  BY <1>1, <1>2, <1>3, FailedKeeps
<1>4. CASE /\ conn.wire # <<>> /\ conn' = [conn EXCEPT !.wire = Tail(@)]
           /\ pc' \in {"take", "failed"}
  <2>1. IsSeq(conn.wire) /\ IsSeq(conn.sending)
    BY <1>2, ConnParts
  <2>2. IsSeq(Tail(conn.wire)) /\ Len(Tail(conn.wire)) = Len(conn.wire) - 1
    BY <1>4, <2>1, SeqTail
  <2>3. Len(conn.wire) \in Nat /\ Len(conn.wire) # 0 /\ Len(conn.sending) \in Nat
    BY <1>4, <2>1, SeqLen
  <2>4. /\ want \in Nat /\ want <= 1 /\ Got = 0 /\ conn.asked = <<>>
        /\ Got + Len(conn.wire) + Len(conn.sending) <= want
    BY <1>1, <1>2 DEF AtBody, Fits, Got
  <2>5. 0 + Len(conn.wire) + Len(conn.sending) <= want
    BY <2>4
  <2>6. Len(conn.wire) = 1 /\ Len(conn.sending) = 0
    BY <2>3, <2>4, <2>5, OnlyOne
  <2>7. Tail(conn.wire) = <<>> /\ conn.sending = <<>>
    <3>1. Len(Tail(conn.wire)) = 0
      BY <2>2, <2>6
    <3> QED
      BY <2>1, <2>2, <2>6, <3>1, SeqLen
  <2>8. /\ IsConn(conn') /\ conn'.asked = <<>> /\ conn'.wire = <<>> /\ conn'.sending = <<>>
    BY <1>2, <1>4, <2>2, <2>4, <2>7, WireTaken
  <2>9. Empty(conn') /\ Addressed(conn)'
    BY <2>8 DEF Empty, Addressed
  <2>10. Good(conn)'
    BY <1>4, <2>8, <2>9 DEF Good
  <2> QED
    BY <1>1, <1>4, <2>10, TypesKept DEF Inv, ConnInv
<1> QED
  BY <1>3, <1>4 DEF TakeListing, BodyFails, Failed, Drained

LEMMA TakeEntryStep == ASSUME Inv, TakeEntry PROVE Inv'
<1>1. pc = "take" /\ UNCHANGED <<remote, local, conn>>
  BY DEF TakeEntry, remoteVars, diskVars
<1>2. pc' \in {"acquire", "failed", "take"}
  BY <1>1 DEF TakeEntry, Begin, Failed, callVars
<1>3. conn # NoConn => Empty(conn) /\ IsConn(conn)
  BY <1>1, ConnIsGood DEF Good
<1>4. conn # NoConn => Good(conn)'
  BY <1>1, <1>2, <1>3 DEF Good, Addressed, Empty
<1> QED
  BY <1>1, <1>2, <1>4, TypesKept DEF Inv, ConnInv

LEMMA FileDoneStep == ASSUME Inv, FileDone PROVE Inv'
<1>1. pc = "copy" /\ Copied = want /\ UNCHANGED <<remote, local, call>>
  BY DEF FileDone, remoteVars, diskVars
<1>2. CASE pc' = "ended" /\ conn' = NoConn
  BY <1>1, <1>2, TypesKept, WithoutConn DEF Inv
<1>3. CASE pc' = "take" /\ conn' = conn
  <2>1. Good(conn) /\ IsConn(conn) /\ AtBody(conn)
    BY <1>1, ConnIsGood DEF Good
  <2>2. IsSeq(conn.wire) /\ IsSeq(conn.sending)
    BY <2>1, ConnParts
  <2>3. Len(conn.wire) \in Nat /\ Len(conn.sending) \in Nat
    BY <2>2, SeqLen
  <2>4. want \in Nat /\ Got = want /\ Got + Len(conn.wire) + Len(conn.sending) <= want
    BY <1>1, <2>1 DEF AtBody, Fits, Got, Copied
  <2>5. want + Len(conn.wire) + Len(conn.sending) <= want
    BY <2>4
  <2>6. Len(conn.wire) = 0 /\ Len(conn.sending) = 0
    BY <2>3, <2>4, <2>5, NoneLeft
  <2>7. Empty(conn)
    BY <2>1, <2>2, <2>6, SeqLen DEF AtBody, Empty
  <2>8. Good(conn)'
    BY <1>1, <1>3, <2>1, <2>7 DEF Good, Addressed, Empty
  <2> QED
    BY <1>1, <1>3, <2>8, TypesKept DEF Inv, ConnInv
<1> QED
  BY <1>2, <1>3 DEF FileDone

LEMMA CreateFileStep == ASSUME Inv, CreateFile PROVE Inv'
<1> DEFINE f == call.node
<1>1. /\ pc = "body" /\ call.op = "pull" /\ UNCHANGED <<remote, call, want>>
  BY DEF CreateFile, FileStep, remoteVars
<1>2. Good(conn) /\ IsConn(conn) /\ AtBody(conn)
  BY <1>1, ConnIsGood DEF Good
<1>3. CASE UNCHANGED <<local, conn>> /\ pc' = "failed"
  BY <1>1, <1>2, <1>3, FailedKeeps
<1>4. CASE /\ \E k \in 0..Len(conn.wire) :
                 /\ local' = [local EXCEPT ![f] = Bytes(SubSeq(conn.wire, 1, MinOf(k, want)))]
                 /\ conn' = [conn EXCEPT !.wire = SubSeq(@, k + 1, Len(@))]
           /\ pc' = "copy"
  <2>1. PICK k \in 0..Len(conn.wire) :
          /\ local' = [local EXCEPT ![f] = Bytes(SubSeq(conn.wire, 1, MinOf(k, want)))]
          /\ conn' = [conn EXCEPT !.wire = SubSeq(@, k + 1, Len(@))]
    BY <1>4
  <2>2. IsSeq(conn.wire) /\ IsSeq(conn.sending)
    BY <1>2, ConnParts
  <2>3. Len(conn.wire) \in Nat /\ Len(conn.sending) \in Nat /\ k \in Nat /\ k <= Len(conn.wire)
    BY <2>2, SeqLen
  <2>4. /\ want \in Nat /\ f \in Files /\ Got = 0 /\ conn.asked = <<>> /\ Fits(want, call)
        /\ Got + Len(conn.wire) + Len(conn.sending) <= want
    BY <1>1, <1>2 DEF AtBody, Fits, Got
  <2>5. 0 + Len(conn.wire) + Len(conn.sending) <= want
    BY <2>4
  <2>6. k <= want
    BY <2>3, <2>4, <2>5, TakenFits
  <2>7. MinOf(k, want) = k
    BY <2>3, <2>4, <2>6 DEF MinOf
  <2> DEFINE got == Bytes(SubSeq(conn.wire, 1, k))
             rest == SubSeq(conn.wire, k + 1, Len(conn.wire))
  <2>8. IsSeq(got) /\ Len(got) = k
    BY <2>2, SeqBytes
  <2>9. /\ IsSeq(rest) /\ Len(rest) = Len(conn.wire) - k
        /\ \A i \in 1..Len(conn.wire) - k : rest[i] = conn.wire[i + k]
    BY <2>2, SeqRest
  <2> HIDE DEF got, rest
  <2>10. local' = [local EXCEPT ![f] = got] /\ conn' = [conn EXCEPT !.wire = rest]
    BY <2>1, <2>7 DEF got, rest
  <2>11. /\ IsConn(conn') /\ conn'.asked = <<>> /\ conn'.wire = rest
         /\ conn'.sending = conn.sending
    BY <1>2, <2>4, <2>9, <2>10, WireTaken
  <2>12. Addressed(conn)'
    <3>1. \A i \in 1..Len(rest) : rest[i].to = call
      <4>1. \A i \in 1..Len(conn.wire) - k : i + k \in 1..Len(conn.wire)
        BY <2>3
      <4> QED
        BY <1>2, <2>9, <4>1 DEF Good, Addressed
    <3> QED
      BY <1>1, <1>2, <2>11, <3>1 DEF Good, Addressed
  <2>13. local'[f] = got /\ LocalTypes'
    BY <2>4, <2>8, <2>10 DEF Inv, LocalTypes
  <2>14. Got' = k
    BY <1>1, <1>4, <2>8, <2>13 DEF Got
  <2>15. k + Len(rest) + Len(conn.sending) <= want
    BY <2>3, <2>4, <2>5, <2>9, TakenFits
  <2>16. Got' + Len(conn'.wire) + Len(conn'.sending) <= want'
    BY <1>1, <2>11, <2>14, <2>15
  <2>17. IsSeq(local[call.node])'
    BY <1>1, <2>8, <2>13
  <2>18. AtBody(conn)'
    BY <1>1, <2>3, <2>4, <2>11, <2>14, <2>16, <2>17 DEF AtBody, Fits
  <2>19. Good(conn)'
    BY <1>4, <2>11, <2>12, <2>18 DEF Good
  <2>20. RemoteTypes'
    BY <1>1 DEF Inv, RemoteTypes
  <2> QED
    BY <1>4, <2>13, <2>19, <2>20 DEF Inv, ConnInv
<1> QED
  BY <1>3, <1>4 DEF CreateFile, Failed

LEMMA CopyReadStep == ASSUME Inv, CopyRead PROVE Inv'
<1> DEFINE f == call.node
<1>1. /\ pc = "copy" /\ UNCHANGED <<remote, call, want>>
  BY DEF CopyRead, FileStep, remoteVars
<1>2. Good(conn) /\ IsConn(conn) /\ AtBody(conn)
  BY <1>1, ConnIsGood DEF Good
<1>3. CASE UNCHANGED <<local, conn>> /\ pc' = "failed"
  BY <1>1, <1>2, <1>3, FailedKeeps
<1>4. CASE /\ \E n \in 1..MinOf(want - Copied, Len(conn.wire)) :
                 /\ local' = [local EXCEPT ![f] = @ \o Bytes(SubSeq(conn.wire, 1, n))]
                 /\ conn' = [conn EXCEPT !.wire = SubSeq(@, n + 1, Len(@))]
           /\ pc' = pc
  <2>1. PICK n \in 1..MinOf(want - Copied, Len(conn.wire)) :
          /\ local' = [local EXCEPT ![f] = @ \o Bytes(SubSeq(conn.wire, 1, n))]
          /\ conn' = [conn EXCEPT !.wire = SubSeq(@, n + 1, Len(@))]
    BY <1>4
  <2>2. IsSeq(conn.wire) /\ IsSeq(conn.sending)
    BY <1>2, ConnParts
  <2>3. Len(conn.wire) \in Nat /\ Len(conn.sending) \in Nat
    BY <2>2, SeqLen
  <2>4. /\ want \in Nat /\ f \in Files /\ conn.asked = <<>> /\ Fits(want, call)
        /\ Got = Len(local[f]) /\ Got \in Nat /\ IsSeq(local[f]) /\ call.op = "pull"
        /\ Got + Len(conn.wire) + Len(conn.sending) <= want
    BY <1>1, <1>2 DEF AtBody, Fits, Got
  <2>5. n \in 0..Len(conn.wire)
    <3>1. MinOf(want - Copied, Len(conn.wire)) \in Int
          /\ MinOf(want - Copied, Len(conn.wire)) <= Len(conn.wire)
      BY <2>3, <2>4 DEF MinOf, Copied
    <3> QED
      BY <2>3, <3>1
  <2> DEFINE more == Bytes(SubSeq(conn.wire, 1, n))
             rest == SubSeq(conn.wire, n + 1, Len(conn.wire))
  <2>6. IsSeq(more) /\ Len(more) = n
    BY <2>2, <2>5, SeqBytes
  <2>7. /\ IsSeq(rest) /\ Len(rest) = Len(conn.wire) - n
        /\ \A i \in 1..Len(conn.wire) - n : rest[i] = conn.wire[i + n]
    BY <2>2, <2>5, SeqRest
  <2> HIDE DEF more, rest
  <2>8. local' = [local EXCEPT ![f] = local[f] \o more] /\ conn' = [conn EXCEPT !.wire = rest]
    BY <2>1 DEF more, rest
  <2>9. /\ IsConn(conn') /\ conn'.asked = <<>> /\ conn'.wire = rest
        /\ conn'.sending = conn.sending
    BY <1>2, <2>4, <2>7, <2>8, WireTaken
  <2>10. Addressed(conn)'
    <3>1. \A i \in 1..Len(rest) : rest[i].to = call
      <4>1. n \in Nat /\ n <= Len(conn.wire)
        BY <2>3, <2>5
      <4>2. \A i \in 1..Len(conn.wire) - n : i + n \in 1..Len(conn.wire)
        BY <2>3, <4>1
      <4> QED
        BY <1>2, <2>7, <4>2 DEF Good, Addressed
    <3> QED
      BY <1>1, <1>2, <2>9, <3>1 DEF Good, Addressed
  <2>11. IsSeq(local[f] \o more) /\ Len(local[f] \o more) = Got + n
    BY <2>4, <2>6, SeqJoin
  <2>12. local'[f] = local[f] \o more /\ LocalTypes'
    BY <2>4, <2>8, <2>11 DEF Inv, LocalTypes
  <2>13. Got' = Got + n /\ Got' \in Nat
    <3>1. Got' = Len(local[f] \o more)
      BY <1>1, <1>4, <2>12 DEF Got
    <3>2. n \in Nat /\ Got \in Nat
      BY <2>4, <2>5
    <3> QED
      BY <2>11, <3>1, <3>2
  <2>14. Got + n + Len(rest) + Len(conn.sending) <= want
    BY <2>3, <2>4, <2>5, <2>7, MoreFits
  <2>15. Got' + Len(conn'.wire) + Len(conn'.sending) <= want'
    BY <1>1, <2>9, <2>13, <2>14
  <2>16. IsSeq(local[call.node])'
    BY <1>1, <2>11, <2>12
  <2>17. AtBody(conn)'
    BY <1>1, <2>4, <2>9, <2>13, <2>15, <2>16 DEF AtBody, Fits
  <2>18. Good(conn)'
    BY <1>1, <1>4, <2>9, <2>10, <2>17 DEF Good
  <2>19. RemoteTypes'
    BY <1>1 DEF Inv, RemoteTypes
  <2> QED
    BY <1>1, <1>4, <2>12, <2>18, <2>19 DEF Inv, ConnInv
<1> QED
  BY <1>3, <1>4 DEF CopyRead, BodyFails, Failed

-----------------------------------------------------------------------------
(* The invariant, and what it shows. *)

LEMMA InitInv == Init => Inv
<1> SUFFICES ASSUME Init PROVE Inv
  OBVIOUS
<1>1. RemoteTypes
  <2>1. (CHOOSE v \in Versions : TRUE) \in Versions
    BY SizeAssumption
  <2>2. \A f \in Files : f \notin Dirs
    BY TreeAssumption
  <2> QED
    BY <2>1, <2>2 DEF Init, RemoteTypes, Nodes
<1>2. LocalTypes
  <2> DEFINE own == OwnBytes
  <2>1. own \in Seq({<<"own", 0, 1>>})
    BY DEF OwnBytes
  <2> HIDE DEF own
  <2>2. IsSeq(own)
    BY <2>1 DEF IsSeq
  <2>3. local \in [Files -> {None, own}]
    BY DEF Init, own
  <2> QED
    BY <2>2, <2>3 DEF LocalTypes
<1>3. ConnInv
  BY DEF Init, ConnInv
<1> QED
  BY <1>1, <1>2, <1>3 DEF Inv

LEMMA NextInv == Inv /\ [Next]_vars => Inv'
<1> SUFFICES ASSUME Inv, [Next]_vars PROVE Inv'
  OBVIOUS
<1>1. CASE Run \/ Connect \/ Request \/ ReadHead \/ Retry
  BY <1>1, RunStep, ConnectStep, RequestStep, ReadHeadStep, RetryStep
<1>2. CASE TakeListing \/ TakeEntry \/ PullEnds
  BY <1>2, TakeListingStep, TakeEntryStep, PullEndsStep
<1>3. CASE CreateFile \/ CopyRead \/ FileDone \/ Discard \/ GiveUp
  BY <1>3, CreateFileStep, CopyReadStep, FileDoneStep, DiscardStep, GiveUpStep
<1>4. CASE RemoteChanges \/ Answer \/ SendByte \/ CloseIdle
  BY <1>4, RemoteChangesStep, AnswerStep, SendByteStep, CloseIdleStep
<1>5. CASE CutAnswer \/ TimePasses \/ WriteFails \/ Kill
  BY <1>5, CutAnswerStep, TimePassesStep, WriteFailsStep, KillStep
<1>6. CASE UNCHANGED vars
  <2>1. UNCHANGED <<remote, local, conn, call, pc, want>>
    BY <1>6 DEF vars, remoteVars, diskVars, callVars
  <2> QED
    BY <2>1, TypesKept, ClientKept DEF Inv
<1> QED
  BY <1>1, <1>2, <1>3, <1>4, <1>5, <1>6 DEF Next, Client, Environment

LEMMA InvGivesFraming == Inv => Framing
<1> SUFFICES ASSUME Inv, conn # NoConn
             PROVE  /\ \A i \in DOMAIN conn.wire : conn.wire[i].to = call
                    /\ \A i \in DOMAIN conn.sending : conn.sending[i].to = call
                    /\ pc \in {"take", "acquire"} =>
                         conn.wire = <<>> /\ conn.sending = <<>> /\ conn.asked = <<>>
  BY DEF Framing
<1>1. Good(conn) /\ IsSeq(conn.wire) /\ IsSeq(conn.sending)
  BY ConnIsGood, ConnParts
<1>2. DOMAIN conn.wire = 1..Len(conn.wire) /\ DOMAIN conn.sending = 1..Len(conn.sending)
  BY <1>1 DEF IsSeq
<1> QED
  BY <1>1, <1>2 DEF Good, Addressed, Empty

\* Every byte on its way to the client answers the request it is making, and a connection that
\* waits in the pool carries nothing, whatever the tree, the sizes of its files, the number of
\* faults and of runs: the answer to a request that was given up is never read as the answer to
\* the next one (Pool and http_get, src/pull/src/http.rs).
THEOREM AnswersMatchRequests == Spec => []Framing
<1>1. Init => Inv
  BY InitInv
<1>2. Inv /\ [Next]_vars => Inv'
  BY NextInv
<1>3. Inv => Framing
  BY InvGivesFraming
<1> QED
  BY <1>1, <1>2, <1>3, PTL DEF Spec

-----------------------------------------------------------------------------
(* Why a request fails. *)

\* The request that is made: a tree asks for a directory as a listing and for a file as a pull,
\* and only a target may turn out to be something else.
CallTypes ==
  /\ pc \notin {"off", "ended"} =>
       \/ call.op = "list" /\ (call.top \/ call.node \in Dirs)
       \/ call.op = "pull" /\ (call.top \/ call.node \in Files)
  /\ pc = "failed" => err = [what |-> err.what, from |-> err.from]

\* What was asked for may be missing, and what is missing stays so.
NotThere == call.top \/ remote[call.node] = None

\* A head that n bytes follow says so.
Truthful(h, n) ==
  /\ h.k = "head" /\ h.x.status \in {200, 404} /\ h.x.len \in Nat
  /\ h.x.status = 404 => NotThere
  /\ h.x.status = 200 => n = h.x.len /\ (call.op = "list" => n = 1)

\* Nothing is amiss with a connection: one that is not from the pool is new until the head of its
\* answer is there, an answer that has begun comes whole, and a connection is closed only when
\* nothing is left to come.
CleanAcquire(c) == ~reused /\ c # NoConn => Up /\ ~c.used
CleanHead(c) ==
  /\ c.wire # <<>> => Up /\ Truthful(c.wire[1], Len(c.wire) - 1 + Len(c.sending))
  /\ ~reused => Up /\ (c.used => c.wire # <<>>)
CleanBody(c) ==
  /\ Up \/ Got = want
  /\ Got + Len(c.wire) + Len(c.sending) = want
  /\ call.op = "list" => want = 1
Clean(c) ==
  /\ pc = "acquire" => CleanAcquire(c)
  /\ pc = "head" => CleanHead(c)
  /\ pc \in {"body", "copy"} => CleanBody(c)

Excused ==
  \/ err.what = "Timeout"
  \/ err.what = "404" /\ NotThere
  \/ call.node \in Files /\ perm[call.node] # "rw"
  \/ err.from = "discarded"

\* The inductive invariant: without a fault of server, network or disk, connections are clean and
\* a failure is excused or about to be retried.
Blameless ==
  ~cause =>
    /\ Clean(conn)
    /\ pc = "failed" => Excused \/ MayRetry

BlameInv == Inv /\ CallTypes /\ Blameless

LEMMA CallTypesStep == ASSUME CallTypes, [Next]_vars PROVE CallTypes'
<1>1. CASE Run
  BY <1>1 DEF Run, Begin, CallTypes
<1>2. CASE TakeEntry
  <2>1. CASE pc' = "acquire" /\ err' = None
    BY <1>2, <2>1 DEF TakeEntry, Begin, Failed, CallTypes, callVars
  <2>2. CASE pc' = "failed"
    BY <1>2, <2>2 DEF TakeEntry, Begin, Failed, CallTypes, callVars
  <2>3. CASE UNCHANGED callVars
    BY <1>2, <2>3 DEF TakeEntry, CallTypes, callVars
  <2> QED
    BY <1>2, <2>1, <2>2, <2>3 DEF TakeEntry, Begin, Failed
<1>3. CASE GiveUp
  BY <1>3 DEF GiveUp, LeaveRequest, Begin, CallTypes
<1>4. CASE Connect \/ Request \/ ReadHead
  <2>1. UNCHANGED call /\ pc \notin {"off", "ended"}
    BY <1>4 DEF Connect, Request, ReadHead, TransportStep
  <2>2. pc' = "failed" => err' = [what |-> err'.what, from |-> err'.from]
    BY <1>4 DEF Connect, Request, ReadHead, Failed, CallTypes
  <2> QED
    BY <2>1, <2>2 DEF CallTypes
<1>5. CASE TakeListing \/ CreateFile \/ CopyRead \/ WriteFails
  <2>1. UNCHANGED call /\ pc \notin {"off", "ended"}
    BY <1>5 DEF TakeListing, CreateFile, CopyRead, WriteFails, FileStep
  <2>2. pc' = "failed" => err' = [what |-> err'.what, from |-> err'.from]
    <3>1. pc' \in {"take", "copy"} \/ \E e, from : Failed(e, from)
      BY <1>5 DEF TakeListing, CreateFile, CopyRead, WriteFails, BodyFails
    <3> QED
      BY <3>1 DEF Failed
  <2> QED
    BY <2>1, <2>2 DEF CallTypes
<1>6. CASE Retry \/ FileDone \/ PullEnds \/ Kill
  BY <1>6 DEF Retry, FileDone, PullEnds, Kill, TransportStep, CallTypes
<1>7. CASE Discard
  BY <1>7 DEF Discard, FileStep, CallTypes
<1>8. CASE RemoteChanges \/ Answer \/ SendByte \/ CloseIdle \/ CutAnswer \/ TimePasses
           \/ UNCHANGED vars
  <2>1. UNCHANGED callVars
    BY <1>8 DEF RemoteChanges, Answer, SendByte, CloseIdle, CutAnswer, TimePasses, ServerStep, vars
  <2> QED
    BY <2>1 DEF CallTypes, callVars
<1> QED
  BY <1>1, <1>2, <1>3, <1>4, <1>5, <1>6, <1>7, <1>8 DEF Next, Client, Environment


\* What is missing stays missing.
LEMMA NotThereStays ==
  ASSUME CallTypes, pc = "failed" \/ pc = "head", UNCHANGED call, NotThere,
         UNCHANGED remote \/ RemoteChanges
  PROVE  NotThere'
<1>1. CASE UNCHANGED remote \/ call.top
  BY <1>1 DEF NotThere
<1>2. CASE RemoteChanges /\ ~call.top
  <2>1. call.node \in Nodes /\ remote[call.node] = None
    BY <1>2 DEF NotThere, CallTypes, Nodes
  <2>2. \A f \in Files : \A v : remote[f] # None /\ remote' = [remote EXCEPT ![f] = v] =>
                                remote'[call.node] = None
    BY <2>1
  <2>3. \A d \in Leaves :
          remote' = [n \in Nodes |-> IF n = d \/ n \in Tree[d] THEN None ELSE remote[n]]
            => remote'[call.node] = None
    BY <2>1
  <2>4. remote'[call.node] = None
    BY <1>2, <2>2, <2>3 DEF RemoteChanges
  <2> QED
    BY <2>4 DEF NotThere
<1> QED
  BY <1>1, <1>2

\* No request is under way, or none that has a connection.
LEMMA NothingUnderWay ==
  ASSUME pc' \notin {"head", "body", "copy", "failed"}, pc' = "acquire" => reused' \/ conn' = NoConn
  PROVE  Blameless'
BY DEF Blameless, Clean, CleanAcquire

\* A fault is to blame.
LEMMA Faulty ==
  ASSUME Fault
  PROVE  Blameless'
BY DEF Fault, Blameless

\* The request goes on where it was, the connection as clean.
LEMMA StaysClean ==
  ASSUME CallTypes, Blameless, UNCHANGED <<pc, call, reused, err, cause>>,
         ~cause => Clean(conn)', UNCHANGED perm, UNCHANGED remote \/ RemoteChanges
  PROVE  Blameless'
<1> SUFFICES ASSUME ~cause, pc = "failed"
             PROVE  Excused' \/ MayRetry'
  BY DEF Blameless
<1>1. Excused \/ MayRetry
  BY DEF Blameless
<1>2. CASE MayRetry
  BY <1>2 DEF MayRetry
<1>3. CASE Excused
  <2>1. NotThere => NotThere'
    BY NotThereStays
  <2> QED
    BY <1>3, <2>1 DEF Excused
<1> QED
  BY <1>1, <1>2, <1>3

\* A request fails that nothing was wrong with.
LEMMA FailsClean ==
  ASSUME NEW e, NEW from, Failed(e, from), UNCHANGED <<remote, call, perm, reused>>,
         ~cause' => \/ e = "Timeout"
                    \/ from = "http" /\ reused
                    \/ e = "404" /\ NotThere
                    \/ call.node \in Files /\ perm[call.node] # "rw"
  PROVE  Blameless'
<1>1. pc' = "failed" /\ err'.what = e /\ err'.from = from
  BY DEF Failed
<1>2. Clean(conn)'
  BY <1>1 DEF Clean
<1>3. ~cause' => Excused' \/ MayRetry'
  BY <1>1 DEF Excused, MayRetry, NotThere
<1> QED
  BY <1>1, <1>2, <1>3 DEF Blameless

LEMMA RunBlameless == ASSUME Run PROVE Blameless'
<1>1. pc' = "acquire" /\ conn' = NoConn
  BY DEF Run, Begin
<1> QED
  BY <1>1, NothingUnderWay

LEMMA TruthKept ==
  ASSUME UNCHANGED call, NotThere => NotThere', NEW h, NEW n, Truthful(h, n)
  PROVE  Truthful(h, n)'
BY DEF Truthful

LEMMA TruthOf ==
  ASSUME NEW h, NEW n, Truthful(h, n)', conn'.wire[1] = h,
         Len(conn'.wire) - 1 + Len(conn'.sending) = n
  PROVE  Truthful(conn.wire[1], Len(conn.wire) - 1 + Len(conn.sending))'
<1>1. /\ h.k = "head" /\ h.x.status \in {200, 404} /\ h.x.len \in Nat
      /\ h.x.status = 404 => NotThere'
      /\ h.x.status = 200 => n = h.x.len /\ (call'.op = "list" => n = 1)
  BY DEF Truthful
<1>2. /\ conn'.wire[1].k = h.k /\ conn'.wire[1].x = h.x
      /\ Len(conn'.wire) - 1 + Len(conn'.sending) = n
  OBVIOUS
<1>3. /\ conn'.wire[1].k = "head" /\ conn'.wire[1].x.status \in {200, 404}
      /\ conn'.wire[1].x.len \in Nat
      /\ conn'.wire[1].x.status = 404 => NotThere'
  BY <1>1, <1>2
<1>4. conn'.wire[1].x.status = 200 =>
        /\ Len(conn'.wire) - 1 + Len(conn'.sending) = conn'.wire[1].x.len
        /\ call'.op = "list" => Len(conn'.wire) - 1 + Len(conn'.sending) = 1
  BY <1>1, <1>2, Zenon
<1> QED
  BY <1>3, <1>4, Zenon DEF Truthful

\* Nothing of the client and of its connection changes.
LEMMA CleanKept ==
  ASSUME UNCHANGED <<local, conn, pc, call, reused, want>>, Clean(conn),
         pc = "head" /\ NotThere => NotThere'
  PROVE  Clean(conn)'
<1>1. pc = "head" => CleanHead(conn)'
  <2> SUFFICES ASSUME pc = "head" PROVE CleanHead(conn)'
    OBVIOUS
  <2>1. PICK h, n : h = conn.wire[1] /\ n = Len(conn.wire) - 1 + Len(conn.sending)
    OBVIOUS
  <2>2. /\ conn.wire # <<>> => Up /\ Truthful(h, n)
        /\ ~reused => Up /\ (conn.used => conn.wire # <<>>)
    BY <2>1 DEF Clean, CleanHead
  <2>3. Truthful(h, n) => Truthful(h, n)'
    BY TruthKept
  <2>4. /\ (conn.wire # <<>> => Up /\ Truthful(h, n))'
        /\ (~reused => Up /\ (conn.used => conn.wire # <<>>))'
    BY <2>2, <2>3 DEF Up
  <2>5. conn'.wire[1] = h /\ Len(conn'.wire) - 1 + Len(conn'.sending) = n
    BY <2>1
  <2>6. conn'.wire # <<>> => Truthful(conn.wire[1], Len(conn.wire) - 1 + Len(conn.sending))'
    BY <2>4, <2>5, TruthOf
  <2> QED
    BY <2>4, <2>6 DEF CleanHead
<1>2. pc = "acquire" => CleanAcquire(conn)'
  BY DEF Clean, CleanAcquire, Up
<1>3. pc \in {"body", "copy"} => CleanBody(conn)'
  BY DEF Clean, CleanBody, Up, Got
<1> QED
  BY <1>1, <1>2, <1>3 DEF Clean

LEMMA RemoteChangesBlameless == ASSUME BlameInv, RemoteChanges PROVE Blameless'
<1>1. UNCHANGED <<pc, call, reused, want, err, cause, conn, perm, local>>
  BY DEF RemoteChanges, callVars, diskVars
<1>2. pc = "head" /\ NotThere => NotThere'
  BY <1>1, NotThereStays DEF BlameInv
<1>3. ~cause => Clean(conn)'
  BY <1>1, <1>2, CleanKept DEF BlameInv, Blameless
<1> QED
  BY <1>1, <1>3, StaysClean DEF BlameInv

LEMMA ConnectBlameless == ASSUME BlameInv, Connect PROVE Blameless'
<1>1. CASE Fault
  BY <1>1, Faulty
<1>2. CASE conn' = NewConn /\ pc' = pc
  <2>1. pc' = "acquire" /\ Up' /\ ~conn'.used
    BY <1>2 DEF Connect, NewConn, Up
  <2> QED
    BY <2>1 DEF Blameless, Clean, CleanAcquire
<1> QED
  BY <1>1, <1>2 DEF Connect

LEMMA RetryBlameless == ASSUME Retry PROVE Blameless'
<1>1. pc' = "acquire" /\ conn' = NoConn
  BY DEF Retry
<1> QED
  BY <1>1, NothingUnderWay

LEMMA PullEndsBlameless == ASSUME PullEnds PROVE Blameless'
<1>1. pc' = "ended"
  BY DEF PullEnds
<1> QED
  BY <1>1, NothingUnderWay

LEMMA FileDoneBlameless == ASSUME FileDone PROVE Blameless'
<1>1. pc' \in {"ended", "take"}
  BY DEF FileDone
<1> QED
  BY <1>1, NothingUnderWay

LEMMA KillBlameless == ASSUME Kill PROVE Blameless'
<1>1. pc' = "off"
  BY DEF Kill
<1> QED
  BY <1>1, NothingUnderWay

LEMMA GiveUpBlameless == ASSUME GiveUp PROVE Blameless'
<1>1. pc' \in {"take", "acquire", "ended"} /\ conn' = NoConn
  BY DEF GiveUp, LeaveRequest, Begin
<1> QED
  BY <1>1, NothingUnderWay

LEMMA TakeEntryBlameless == ASSUME BlameInv, TakeEntry PROVE Blameless'
<1>1. CASE Fault
  BY <1>1, Faulty
<1>2. CASE /\ pc' = "acquire" /\ reused' = (conn # NoConn) /\ conn' = conn
  BY <1>2, NothingUnderWay
<1>3. CASE pc' = "take"
  BY <1>3, NothingUnderWay
<1>4. pc = "take" /\ conn' = conn
  BY DEF TakeEntry
<1> QED
  BY <1>1, <1>2, <1>3, <1>4 DEF TakeEntry, Begin, callVars

LEMMA DiscardBlameless == ASSUME BlameInv, Discard PROVE Blameless'
<1>1. /\ pc' = "failed" /\ err' = [err EXCEPT !.from = "discarded"]
      /\ err = [what |-> err.what, from |-> err.from]
  BY DEF Discard, BlameInv, CallTypes
<1>2. err'.from = "discarded"
  BY <1>1
<1> QED
  BY <1>1, <1>2 DEF Blameless, Clean, Excused

LEMMA WriteFailsBlameless == ASSUME WriteFails PROVE Blameless'
BY Faulty DEF WriteFails

LEMMA CutAnswerBlameless == ASSUME CutAnswer PROVE Blameless'
BY Faulty DEF CutAnswer


\* What a step changes of a connection, and what it leaves.
LEMMA ConnSame ==
  ASSUME NEW c, IsConn(c), NEW a, NEW w, NEW s, NEW st
  PROVE  /\ LET d == [c EXCEPT !.asked = a]
            IN d.wire = c.wire /\ d.sending = c.sending /\ d.state = c.state /\ d.used = c.used
         /\ LET d == [c EXCEPT !.wire = w]
            IN d.wire = w /\ d.sending = c.sending /\ d.state = c.state /\ d.used = c.used
         /\ LET d == [c EXCEPT !.wire = w, !.sending = s]
            IN d.wire = w /\ d.sending = s /\ d.state = c.state /\ d.used = c.used
         /\ LET d == [c EXCEPT !.state = st, !.asked = a]
            IN d.wire = c.wire /\ d.sending = c.sending /\ d.state = st /\ d.used = c.used
         /\ LET d == [c EXCEPT !.state = st]
            IN d.wire = c.wire /\ d.sending = c.sending /\ d.state = st /\ d.used = c.used
         /\ LET d == [c EXCEPT !.asked = a, !.used = TRUE, !.wire = w, !.sending = s]
            IN d.wire = w /\ d.sending = s /\ d.state = c.state /\ d.used = TRUE
<1>1. PICK T : c \in Conns(T)
  BY DEF IsConn
<1>2. c = [asked |-> c.asked, wire |-> c.wire, sending |-> c.sending,
           state |-> c.state, used |-> c.used]
  BY <1>1 DEF Conns
<1> QED
  BY <1>2

\* A step of the server or of the network that is no fault.
LEMMA ServerClean ==
  ASSUME BlameInv, ServerStep, UNCHANGED cause, ~cause => Clean(conn)'
  PROVE  Blameless'
<1>1. UNCHANGED <<remote, local, perm, pc, call, reused, want, err>>
  BY DEF ServerStep, remoteVars, diskVars, callVars
<1> QED
  BY <1>1, StaysClean DEF BlameInv

LEMMA TimePassesBlameless == ASSUME BlameInv, TimePasses PROVE Blameless'
<1>1. ServerStep /\ UNCHANGED cause /\ conn.state = "open" /\ Up
  BY DEF TimePasses, Up
<1>2. IsConn(conn) /\ conn' = [conn EXCEPT !.state = "slow"]
  BY <1>1, ServerSide DEF BlameInv, TimePasses
<1>3. /\ conn'.wire = conn.wire /\ conn'.sending = conn.sending
      /\ conn'.state = "slow" /\ conn'.used = conn.used
  BY <1>2, ConnSame
<1>4. /\ Up' /\ conn # NoConn
      /\ UNCHANGED <<remote, local, pc, call, reused, want>>
  BY <1>1, <1>3 DEF Up, NoConn, NewConn, ServerStep, remoteVars, diskVars, callVars
<1>5. ~cause => Clean(conn)'
  <2> SUFFICES ASSUME Clean(conn) PROVE Clean(conn)'
    BY DEF BlameInv, Blameless
  <2>1. pc = "acquire" => CleanAcquire(conn)'
    BY <1>3, <1>4 DEF Clean, CleanAcquire
  <2>2. pc = "head" => CleanHead(conn)'
    <3> SUFFICES ASSUME pc = "head" PROVE CleanHead(conn)'
      OBVIOUS
    <3>1. CleanHead(conn)
      BY DEF Clean
    <3>2. PICK h, n : h = conn.wire[1] /\ n = Len(conn.wire) - 1 + Len(conn.sending)
      OBVIOUS
    <3>3. conn.wire # <<>> => Truthful(h, n)
      BY <3>1, <3>2 DEF CleanHead
    <3>4. conn.wire # <<>> => Truthful(h, n)'
      BY <1>4, <3>3, TruthKept DEF NotThere
    <3>5. conn'.wire[1] = h /\ Len(conn'.wire) - 1 + Len(conn'.sending) = n
      BY <1>3, <3>2
    <3>6. conn'.wire # <<>> => Truthful(conn.wire[1], Len(conn.wire) - 1 + Len(conn.sending))'
      BY <1>3, <3>4, <3>5, TruthOf
    <3> QED
      BY <1>3, <1>4, <3>1, <3>6 DEF CleanHead
  <2>3. pc \in {"body", "copy"} => CleanBody(conn)'
    BY <1>3, <1>4 DEF Clean, CleanBody, Got
  <2> QED
    BY <1>4, <2>1, <2>2, <2>3 DEF Clean
<1> QED
  BY <1>1, <1>5, ServerClean

LEMMA CloseIdleBlameless == ASSUME BlameInv, CloseIdle PROVE Blameless'
<1>1. /\ ServerStep /\ UNCHANGED cause /\ Up /\ conn.used
      /\ conn.sending = <<>> /\ conn.wire = <<>> /\ conn # NoConn
  BY DEF CloseIdle, Up, NoConn, NewConn
<1>2. IsConn(conn)
  BY <1>1, ServerSide DEF BlameInv
<1>3. /\ conn'.wire = conn.wire /\ conn'.sending = conn.sending
  <2>1. PICK st \in {"eof", "reset"} : conn' = [conn EXCEPT !.state = st, !.asked = <<>>]
    BY DEF CloseIdle
  <2> QED
    BY <1>2, <2>1, ConnSame
<1>4. UNCHANGED <<remote, local, pc, call, reused, want>>
  BY <1>1 DEF ServerStep, remoteVars, diskVars, callVars
<1>5. ~cause => Clean(conn)'
  <2> SUFFICES ASSUME Clean(conn) PROVE Clean(conn)'
    BY DEF BlameInv, Blameless
  <2>1. pc = "acquire" => CleanAcquire(conn)'
    BY <1>1, <1>4 DEF Clean, CleanAcquire
  <2>2. pc = "head" => CleanHead(conn)'
    BY <1>1, <1>3, <1>4 DEF Clean, CleanHead
  <2>3. pc \in {"body", "copy"} => CleanBody(conn)'
    <3> SUFFICES ASSUME pc \in {"body", "copy"} PROVE CleanBody(conn)'
      OBVIOUS
    <3>1. CleanBody(conn) /\ AtBody(conn)
      BY <1>1, ServerSide DEF Clean, BlameInv, Good
    <3>2. Len(conn.wire) = 0 /\ Len(conn.sending) = 0 /\ Got \in Nat
      BY <1>1, <3>1 DEF AtBody
    <3>3. Got = want
      BY <3>1, <3>2 DEF CleanBody
    <3> QED
      BY <1>3, <1>4, <3>1, <3>3 DEF CleanBody, Got
  <2> QED
    BY <1>4, <2>1, <2>2, <2>3 DEF Clean
<1> QED
  BY <1>1, <1>5, ServerClean

LEMMA RequestBlameless == ASSUME BlameInv, Request PROVE Blameless'
<1>1. /\ pc = "acquire" /\ conn # NoConn /\ UNCHANGED <<remote, local, perm, call, want, reused, cause>>
  BY DEF Request, TransportStep, remoteVars, diskVars
<1>2. IsConn(conn) /\ Empty(conn)
  BY <1>1, ConnIsGood DEF Good, BlameInv
<1>3. ~cause /\ ~reused => Up /\ ~conn.used
  BY <1>1 DEF BlameInv, Blameless, Clean, CleanAcquire
<1>4. CASE conn.state \in {"eof", "reset"} /\ Failed("Io", "http")
  BY <1>1, <1>3, <1>4, FailsClean DEF Up
<1>5. CASE pc' = "head" /\ conn' = [conn EXCEPT !.asked = IF Up THEN Append(@, call) ELSE @]
  <2>1. conn'.wire = <<>> /\ conn'.state = conn.state /\ conn'.used = conn.used
    BY <1>2, <1>5, ConnSame DEF Empty
  <2>2. ~cause => CleanHead(conn)'
    BY <1>1, <1>3, <2>1 DEF CleanHead, Up
  <2> QED
    BY <1>1, <1>5, <2>2 DEF Blameless, Clean
<1> QED
  BY <1>4, <1>5 DEF Request


\* What the server answers the request the client makes.
LEMMA ResponseIsTrue ==
  ASSUME Inv, CallTypes, pc = "head"
  PROVE  LET r == Response(call)
         IN /\ r.status \in {200, 404} /\ Len(r.body) \in Nat /\ IsSeq(r.body)
            /\ r.status = 404 => NotThere
            /\ r.status = 200 /\ call.op = "list" => Len(r.body) = 1
<1> DEFINE r == Response(call)
<1>1. IsSeq(r.body) /\ Len(r.body) \in Nat
  BY ResponseFacts DEF Inv
<1>2. r.status \in {200, 404}
  BY DEF Response
<1>3. r.status = 404 => NotThere
  BY DEF Response, NotThere, CallTypes
<1>4. r.status = 200 /\ call.op = "list" => r.body = <<Listing(call.node)>>
  BY DEF Response
<1>5. \A x : Len(<<x>>) = 1
  OBVIOUS
<1> HIDE DEF r
<1> QED
  BY <1>1, <1>2, <1>3, <1>4, <1>5 DEF r

LEMMA AnswerBlameless == ASSUME BlameInv, Answer PROVE Blameless'
<1> DEFINE r == Response(call)
           wire == Append(conn.wire, WholeHead(call, r))
           sending == [i \in DOMAIN r.body |-> Token(call, "data", r.body[i])]
<1>1. /\ Up /\ conn # NoConn /\ conn.asked # <<>> /\ ServerStep /\ UNCHANGED cause
  BY DEF Answer, Up, NoConn, NewConn
<1>2. IsConn(conn) /\ Inv
  BY <1>1, ServerSide DEF BlameInv
<1>3. /\ Head(conn.asked) = call /\ pc \notin {"take", "acquire", "body", "copy"}
      /\ pc = "head" => conn.wire = <<>>
  BY <1>1, <1>2, RequestOnItsWay
<1>4. UNCHANGED <<remote, pc, call, reused>>
  BY <1>1 DEF ServerStep, remoteVars, callVars
<1>5. conn' = [conn EXCEPT !.asked = Tail(@), !.used = TRUE, !.wire = wire, !.sending = sending]
  BY <1>3 DEF Answer
<1>6. pc = "head" => CleanHead(conn)'
  <2> SUFFICES ASSUME pc = "head" PROVE CleanHead(conn)'
    OBVIOUS
  <2>1. /\ r.status \in {200, 404} /\ Len(r.body) \in Nat /\ IsSeq(r.body)
        /\ r.status = 404 => NotThere
        /\ r.status = 200 /\ call.op = "list" => Len(r.body) = 1
    BY <1>2, ResponseIsTrue DEF BlameInv
  <2>2. Len(sending) = Len(r.body)
    <3>1. DOMAIN r.body = 1..Len(r.body)
      BY <2>1 DEF IsSeq
    <3>2. sending = [i \in 1..Len(r.body) |-> Token(call, "data", r.body[i])]
      BY <3>1
    <3> HIDE DEF r
    <3> QED
      BY <2>1, <3>2
  <2>3. wire = <<WholeHead(call, r)>>
    <3>1. \A x : Append(<<>>, x) = <<x>>
      OBVIOUS
    <3> HIDE DEF r
    <3> QED
      BY <1>3, <3>1
  <2>4. wire # <<>> /\ Len(wire) = 1 /\ wire[1] = WholeHead(call, r)
    <3> HIDE DEF r
    <3> QED
      BY <2>3
  <2> HIDE DEF wire, sending, r
  <2>5. /\ conn'.wire = wire /\ conn'.sending = sending /\ conn'.state = conn.state
    BY <1>2, <1>5, ConnSame
  <2>6. Up'
    BY <1>1, <2>5 DEF Up
  <2>7. Len(conn'.wire) - 1 + Len(conn'.sending) = Len(r.body)
    <3>1. Len(conn'.wire) = 1 /\ conn'.sending = sending /\ Len(sending) \in Nat
      BY <2>1, <2>2, <2>4, <2>5
    <3>2. 1 - 1 + Len(sending) = Len(sending)
      BY <3>1, OnlyHead
    <3> QED
      BY <2>2, <3>1, <3>2
  <2>8. /\ wire[1].k = "head" /\ wire[1].x.status = r.status /\ wire[1].x.len = Len(r.body)
    BY <2>4 DEF WholeHead, Token
  <2>9. Truthful(conn.wire[1], Len(conn.wire) - 1 + Len(conn.sending))'
    <3>1. PICK h, n : h = wire[1] /\ n = Len(r.body)
      OBVIOUS
    <3>2. Truthful(h, n)'
      BY <1>4, <2>1, <2>8, <3>1 DEF Truthful, NotThere
    <3>3. conn'.wire[1] = h /\ Len(conn'.wire) - 1 + Len(conn'.sending) = n
      BY <2>5, <2>7, <3>1
    <3> QED
      BY <3>2, <3>3, TruthOf
  <2> QED
    BY <2>4, <2>5, <2>6, <2>9 DEF CleanHead
<1>7. Clean(conn)'
  BY <1>3, <1>4, <1>6 DEF Clean
<1> QED
  BY <1>1, <1>7, ServerClean

LEMMA SendByteBlameless == ASSUME BlameInv, SendByte PROVE Blameless'
<1> DEFINE wire == Append(conn.wire, Head(conn.sending))
           sending == Tail(conn.sending)
<1>1. /\ Up /\ conn # NoConn /\ conn.sending # <<>> /\ ServerStep /\ UNCHANGED cause
      /\ conn' = [conn EXCEPT !.wire = wire, !.sending = sending]
  BY DEF SendByte, Up, NoConn, NewConn
<1>2. Good(conn) /\ IsConn(conn) /\ UNCHANGED Got
  BY <1>1, ServerSide DEF BlameInv
<1>3. IsSeq(conn.wire) /\ IsSeq(conn.sending)
  BY <1>2, ConnParts
<1>4. Len(conn.wire) \in Nat /\ Len(conn.sending) \in Nat
  BY <1>3, SeqLen
<1>5. /\ IsSeq(wire) /\ Len(wire) = Len(conn.wire) + 1 /\ Len(sending) = Len(conn.sending) - 1
      /\ \A i \in 1..Len(conn.wire) : wire[i] = conn.wire[i]
  BY <1>1, <1>3, SeqAppend, SeqTail
<1> HIDE DEF wire, sending
<1>6. /\ conn'.wire = wire /\ conn'.sending = sending /\ conn'.state = conn.state
      /\ conn'.used = conn.used
  BY <1>1, <1>2, ConnSame
<1>7. UNCHANGED <<remote, pc, call, reused, want>> /\ Up'
  BY <1>1, <1>6 DEF ServerStep, remoteVars, callVars, Up
<1>8. ~cause => Clean(conn)'
  <2> SUFFICES ASSUME Clean(conn) PROVE Clean(conn)'
    BY DEF BlameInv, Blameless
  <2>1. pc # "acquire"
    BY <1>1, <1>2 DEF Good, Empty
  <2>2. pc = "head" => CleanHead(conn)'
    <3> SUFFICES ASSUME pc = "head" PROVE CleanHead(conn)'
      OBVIOUS
    <3>1. conn.wire # <<>>
      BY <1>1, <1>2 DEF Good, AtHead, Empty
    <3>2. Len(conn.wire) # 0
      BY <1>3, <3>1, SeqLen
    <3>3. wire # <<>> /\ wire[1] = conn.wire[1]
      BY <1>4, <1>5, <3>2, SeqLen
    <3>4. Len(wire) - 1 + Len(sending) = Len(conn.wire) - 1 + Len(conn.sending)
      BY <1>4, <1>5
    <3>5. PICK h, n : h = conn.wire[1] /\ n = Len(conn.wire) - 1 + Len(conn.sending)
      OBVIOUS
    <3>6. Truthful(h, n)
      BY <3>1, <3>5 DEF Clean, CleanHead
    <3>7. Truthful(h, n)'
      BY <1>7, <3>6, TruthKept DEF NotThere
    <3>8. conn'.wire[1] = h /\ Len(conn'.wire) - 1 + Len(conn'.sending) = n
      BY <1>6, <3>3, <3>4, <3>5
    <3>9. Truthful(conn.wire[1], Len(conn.wire) - 1 + Len(conn.sending))'
      BY <3>7, <3>8, TruthOf
    <3> QED
      BY <1>6, <1>7, <3>3, <3>9 DEF CleanHead
  <2>3. pc \in {"body", "copy"} => CleanBody(conn)'
    <3> SUFFICES ASSUME pc \in {"body", "copy"} PROVE CleanBody(conn)'
      OBVIOUS
    <3>1. CleanBody(conn) /\ Got \in Nat
      BY <1>2 DEF Clean, Good, AtBody
    <3>2. Got + Len(wire) + Len(sending) = want
      <4>1. Got + Len(conn.wire) + Len(conn.sending) = want
        BY <3>1 DEF CleanBody
      <4>2. Got + (Len(conn.wire) + 1) + (Len(conn.sending) - 1) = want
        <5>1. PICK g \in Nat, m \in Nat, n \in Nat :
                g = Got /\ m = Len(conn.wire) /\ n = Len(conn.sending)
          BY <1>4, <3>1
        <5>2. g + (m + 1) + (n - 1) = g + m + n
          BY SumKept
        <5> QED
          BY <4>1, <5>1, <5>2
      <4> QED
        BY <1>5, <4>2
    <3> QED
      BY <1>2, <1>6, <1>7, <3>1, <3>2 DEF CleanBody
  <2> QED
    BY <1>7, <2>1, <2>2, <2>3 DEF Clean
<1> QED
  BY <1>1, <1>8, ServerClean

LEMMA ReadHeadBlameless == ASSUME BlameInv, ReadHead PROVE Blameless'
<1>1. /\ pc = "head" /\ UNCHANGED <<remote, local, perm, call, reused, cause>>
  BY DEF ReadHead, remoteVars, diskVars
<1>2. Good(conn) /\ IsConn(conn)
  BY <1>1, ConnIsGood DEF BlameInv
<1>3. ~cause => CleanHead(conn)
  BY <1>1 DEF BlameInv, Blameless, Clean
<1>4. CASE conn.wire = <<>> /\ ~Up /\ \E e : Failed(e, "http")
  BY <1>1, <1>3, <1>4, FailsClean DEF CleanHead
<1>5. CASE Failed("Timeout", "http")
  BY <1>1, <1>5, FailsClean
<1>6. CASE conn.wire # <<>>
  <2> DEFINE t == conn.wire[1]
  <2>1. IsSeq(conn.wire) /\ IsSeq(conn.sending)
    BY <1>2, ConnParts
  <2>2. /\ Head(conn.wire) = t /\ Len(Tail(conn.wire)) = Len(conn.wire) - 1
        /\ Len(conn.wire) \in Nat /\ Len(conn.sending) \in Nat
    BY <1>6, <2>1, SeqTail, SeqLen
  <2>3. ~cause => Up /\ Truthful(t, Len(conn.wire) - 1 + Len(conn.sending))
    BY <1>3, <1>6 DEF CleanHead
  <2>4. ~cause => /\ t.k = "head" /\ t.x.status # None /\ t.x.len # NoNumber /\ t.x.len # None
                  /\ t.x.status # 200 => t.x.status = 404 /\ NotThere
    BY <2>3, SizeAssumption DEF Truthful, NoNumber
  <2>5. /\ conn' = [conn EXCEPT !.wire = Tail(@)]
        /\ \/ /\ t.x.status # 200
              /\ Failed(IF t.x.status = 404 THEN "404" ELSE "Http", "status")
           \/ /\ \E from : Failed("Malformed", from)
              /\ t.k # "head" \/ t.x.status = None \/ t.x.len = NoNumber \/ t.x.len = None
           \/ /\ t.x.status = 200 /\ pc' = "body" /\ want' = t.x.len
    BY <1>6, <2>2 DEF ReadHead, Drained, Expires
  <2>6. CASE t.x.status # 200 /\ Failed(IF t.x.status = 404 THEN "404" ELSE "Http", "status")
    BY <1>1, <2>4, <2>6, FailsClean
  <2>7. CASE /\ \E from : Failed("Malformed", from)
             /\ t.k # "head" \/ t.x.status = None \/ t.x.len = NoNumber \/ t.x.len = None
    BY <1>1, <2>4, <2>7, FailsClean
  <2>8. CASE t.x.status = 200 /\ pc' = "body" /\ want' = t.x.len
    <3>1. /\ conn'.wire = Tail(conn.wire) /\ conn'.sending = conn.sending
          /\ conn'.state = conn.state
      BY <1>2, <2>5, ConnSame
    <3>2. Got' = 0
      BY <2>8 DEF Got
    <3>3. ~cause => Got' + Len(conn'.wire) + Len(conn'.sending) = want'
      <4>1. ~cause => t.x.len = Len(conn.wire) - 1 + Len(conn.sending)
        BY <2>3, <2>8 DEF Truthful
      <4>2. ~cause => 0 + Len(Tail(conn.wire)) + Len(conn.sending) = t.x.len
        <5>1. PICK m \in Nat, n \in Nat, k \in Int :
                m = Len(conn.wire) /\ n = Len(conn.sending) /\ k = Len(Tail(conn.wire)) /\ k = m - 1
          BY <2>2
        <5>2. 0 + k + n = m - 1 + n
          BY <5>1, HeadGone
        <5> QED
          BY <4>1, <5>1, <5>2
      <4> QED
        BY <2>8, <3>1, <3>2, <4>2
    <3>4. ~cause => (call'.op = "list" => want' = 1)
      BY <1>1, <2>3, <2>8 DEF Truthful
    <3>5. ~cause => CleanBody(conn)'
      BY <2>3, <3>1, <3>3, <3>4 DEF CleanBody, Up
    <3> QED
      BY <1>1, <2>8, <3>5 DEF Blameless, Clean
  <2> QED
    BY <2>5, <2>6, <2>7, <2>8
<1> QED
  BY <1>4, <1>5, <1>6 DEF ReadHead, Drained


LEMMA TakeListingBlameless == ASSUME BlameInv, TakeListing PROVE Blameless'
<1>1. /\ pc = "body" /\ call.op = "list" /\ UNCHANGED <<remote, perm, call, reused>>
  BY DEF TakeListing, remoteVars, diskVars
<1>2. Good(conn) /\ AtBody(conn)
  BY <1>1, ConnIsGood DEF BlameInv, Good
<1>3. CASE pc' = "take"
  BY <1>3, NothingUnderWay
<1>4. CASE Fault
  BY <1>4, Faulty
<1>5. CASE BodyFails("list") /\ UNCHANGED cause
  <2>1. CASE Failed("Timeout", "list")
    BY <1>1, <2>1, FailsClean
  <2>2. CASE ~Up /\ conn.wire = <<>> /\ \E e : Failed(e, "list")
    <3>1. conn.asked = <<>> /\ Got = 0 /\ Len(conn.wire) = 0 /\ IsSeq(conn.sending)
      BY <1>1, <1>2, <2>2, ConnParts DEF AtBody, Good, Got
    <3>2. ~cause => (Up \/ Got = want) /\ want = 1
      BY <1>1 DEF BlameInv, Blameless, Clean, CleanBody
    <3>3. cause
      BY <2>2, <3>1, <3>2
    <3> QED
      BY <1>1, <1>5, <2>2, <3>3, FailsClean
  <2> QED
    BY <1>5, <2>1, <2>2 DEF BodyFails, Drained
<1> QED
  BY <1>3, <1>4, <1>5 DEF TakeListing

LEMMA CreateFileBlameless == ASSUME BlameInv, CreateFile PROVE Blameless'
<1> DEFINE f == call.node
<1>1. /\ pc = "body" /\ call.op = "pull"
      /\ UNCHANGED <<remote, perm, call, want, reused, cause>>
  BY DEF CreateFile, FileStep, remoteVars
<1>2. Good(conn) /\ IsConn(conn) /\ AtBody(conn)
  BY <1>1, ConnIsGood DEF BlameInv, Good
<1>3. want \in Nat /\ f \in Files /\ Got = 0
  BY <1>1, <1>2 DEF AtBody, Fits, Got
<1>4. CASE perm[f] # "rw" /\ Failed("Io", "create")
  BY <1>1, <1>3, <1>4, FailsClean
<1>5. CASE /\ \E k \in 0..Len(conn.wire) :
                 /\ local' = [local EXCEPT ![f] = Bytes(SubSeq(conn.wire, 1, MinOf(k, want)))]
                 /\ conn' = [conn EXCEPT !.wire = SubSeq(@, k + 1, Len(@))]
           /\ pc' = "copy"
  <2>1. PICK k \in 0..Len(conn.wire) :
          /\ local' = [local EXCEPT ![f] = Bytes(SubSeq(conn.wire, 1, MinOf(k, want)))]
          /\ conn' = [conn EXCEPT !.wire = SubSeq(@, k + 1, Len(@))]
    BY <1>5
  <2>2. IsSeq(conn.wire) /\ IsSeq(conn.sending)
    BY <1>2, ConnParts
  <2>3. Len(conn.wire) \in Nat /\ Len(conn.sending) \in Nat /\ k \in Nat /\ k <= Len(conn.wire)
    BY <2>2, SeqLen
  <2>4. 0 + Len(conn.wire) + Len(conn.sending) <= want
    BY <1>2, <1>3 DEF AtBody
  <2>5. k <= want
    BY <1>3, <2>3, <2>4, TakenFits
  <2>6. MinOf(k, want) = k
    BY <1>3, <2>3, <2>5 DEF MinOf
  <2>7. Got' = k
    <3>1. Len(Bytes(SubSeq(conn.wire, 1, k))) = k
      BY <2>2, SeqBytes
    <3>2. local'[f] = Bytes(SubSeq(conn.wire, 1, k))
      BY <1>3, <2>1, <2>6 DEF BlameInv, Inv, LocalTypes
    <3> QED
      BY <1>1, <1>5, <3>1, <3>2 DEF Got
  <2> DEFINE rest == SubSeq(conn.wire, k + 1, Len(conn.wire))
  <2>8. Len(rest) = Len(conn.wire) - k
    BY <2>2, SeqRest
  <2>11. conn' = [conn EXCEPT !.wire = rest]
    BY <2>1
  <2> HIDE DEF rest
  <2>9. conn'.wire = rest /\ conn'.sending = conn.sending /\ conn'.state = conn.state
    BY <1>2, <2>11, ConnSame
  <2>10. ~cause => CleanBody(conn)'
    <3> SUFFICES ASSUME ~cause PROVE CleanBody(conn)'
      OBVIOUS
    <3>1. CleanBody(conn)
      BY <1>1 DEF BlameInv, Blameless, Clean
    <3>2. 0 + Len(conn.wire) + Len(conn.sending) = want
      BY <1>3, <3>1 DEF CleanBody
    <3>3. k + (Len(conn.wire) - k) + Len(conn.sending) = want
      <4>1. PICK m \in Nat, n \in Nat : m = Len(conn.wire) /\ n = Len(conn.sending)
        BY <2>3
      <4>2. k + (m - k) + n = 0 + m + n
        BY <2>3
      <4> QED
        BY <3>2, <4>1, <4>2
    <3>4. (Got + Len(conn.wire) + Len(conn.sending) = want)'
      BY <1>1, <2>7, <2>8, <2>9, <3>3
    <3>5. Up' \/ Got' = want'
      <4>1. CASE Up
        BY <2>9, <4>1 DEF Up
      <4>2. CASE Got = want
        <5>1. want = 0 /\ k = 0
          BY <1>3, <2>3, <2>5, <4>2
        <5> QED
          BY <1>1, <2>7, <5>1
      <4> QED
        BY <3>1, <4>1, <4>2 DEF CleanBody
    <3> QED
      BY <1>1, <3>4, <3>5, <3>1 DEF CleanBody
  <2> QED
    BY <1>1, <1>5, <2>10 DEF Blameless, Clean
<1> QED
  BY <1>4, <1>5 DEF CreateFile

LEMMA CopyReadBlameless == ASSUME BlameInv, CopyRead PROVE Blameless'
<1> DEFINE f == call.node
<1>1. /\ pc = "copy" /\ Copied < want
      /\ UNCHANGED <<remote, perm, call, want, reused, cause>>
  BY DEF CopyRead, FileStep, remoteVars
<1>2. Good(conn) /\ IsConn(conn) /\ AtBody(conn)
  BY <1>1, ConnIsGood DEF BlameInv, Good
<1>3. /\ want \in Nat /\ f \in Files /\ IsSeq(local[f]) /\ call.op = "pull"
      /\ Got = Len(local[f]) /\ Got = Copied /\ Got \in Nat
  BY <1>1, <1>2 DEF AtBody, Fits, Got, Copied
<1>4. ~cause => CleanBody(conn) /\ Up
  <2>1. Got # want
    BY <1>1, <1>3
  <2> QED
    BY <1>1, <2>1 DEF BlameInv, Blameless, Clean, CleanBody
<1>5. CASE BodyFails("copy")
  <2>1. CASE Failed("Timeout", "copy")
    BY <1>1, <2>1, FailsClean
  <2>2. CASE ~Up /\ \E e : Failed(e, "copy")
    BY <1>1, <1>4, <2>2, FailsClean
  <2> QED
    BY <1>5, <2>1, <2>2 DEF BodyFails
<1>6. CASE /\ \E n \in 1..MinOf(want - Copied, Len(conn.wire)) :
                 /\ local' = [local EXCEPT ![f] = @ \o Bytes(SubSeq(conn.wire, 1, n))]
                 /\ conn' = [conn EXCEPT !.wire = SubSeq(@, n + 1, Len(@))]
           /\ pc' = pc
  <2>1. PICK n \in 1..MinOf(want - Copied, Len(conn.wire)) :
          /\ local' = [local EXCEPT ![f] = @ \o Bytes(SubSeq(conn.wire, 1, n))]
          /\ conn' = [conn EXCEPT !.wire = SubSeq(@, n + 1, Len(@))]
    BY <1>6
  <2>2. IsSeq(conn.wire) /\ IsSeq(conn.sending)
    BY <1>2, ConnParts
  <2>3. Len(conn.wire) \in Nat /\ Len(conn.sending) \in Nat
    BY <2>2, SeqLen
  <2>4. n \in 0..Len(conn.wire) /\ n \in Nat
    <3>1. MinOf(want - Copied, Len(conn.wire)) \in Int
          /\ MinOf(want - Copied, Len(conn.wire)) <= Len(conn.wire)
      BY <1>3, <2>3 DEF MinOf
    <3> QED
      BY <2>3, <3>1
  <2>5. Got' = Got + n
    <3> DEFINE more == Bytes(SubSeq(conn.wire, 1, n))
    <3>1. IsSeq(more) /\ Len(more) = n
      BY <2>2, <2>4, SeqBytes
    <3>2. local'[f] = local[f] \o more
      BY <1>3, <2>1 DEF BlameInv, Inv, LocalTypes
    <3> HIDE DEF more
    <3>3. Len(local[f] \o more) = Got + n
      BY <1>3, <3>1, SeqJoin
    <3> QED
      BY <1>1, <1>6, <3>2, <3>3 DEF Got
  <2> DEFINE rest == SubSeq(conn.wire, n + 1, Len(conn.wire))
  <2>6. Len(rest) = Len(conn.wire) - n
    BY <2>2, <2>4, SeqRest
  <2>9. conn' = [conn EXCEPT !.wire = rest]
    BY <2>1
  <2> HIDE DEF rest
  <2>7. conn'.wire = rest /\ conn'.sending = conn.sending /\ conn'.state = conn.state
    BY <1>2, <2>9, ConnSame
  <2>8. ~cause => CleanBody(conn)'
    <3> SUFFICES ASSUME ~cause PROVE CleanBody(conn)'
      OBVIOUS
    <3>1. Got + Len(conn.wire) + Len(conn.sending) = want
      BY <1>4 DEF CleanBody
    <3>2. Got + n + (Len(conn.wire) - n) + Len(conn.sending) = want
      <4>1. PICK g \in Nat, i \in Nat, j \in Nat :
              g = Got /\ i = Len(conn.wire) /\ j = Len(conn.sending)
        BY <1>3, <2>3
      <4>2. g + n + (i - n) + j = g + i + j
        BY <2>4
      <4> QED
        BY <3>1, <4>1, <4>2
    <3>3. (Got + Len(conn.wire) + Len(conn.sending) = want)'
      BY <1>1, <2>5, <2>6, <2>7, <3>2
    <3>4. Up'
      BY <1>4, <2>7 DEF Up
    <3> QED
      BY <1>1, <1>3, <3>3, <3>4 DEF CleanBody
  <2> QED
    BY <1>1, <1>6, <2>8 DEF Blameless, Clean
<1> QED
  BY <1>5, <1>6 DEF CopyRead

LEMMA BlameInit == Init => BlameInv
<1> SUFFICES ASSUME Init PROVE BlameInv
  OBVIOUS
<1>1. pc = "off"
  BY DEF Init
<1> QED
  BY <1>1, InitInv DEF BlameInv, CallTypes, Blameless, Clean

LEMMA BlameNext == BlameInv /\ [Next]_vars => BlameInv'
<1> SUFFICES ASSUME BlameInv, [Next]_vars PROVE Blameless'
  BY NextInv, CallTypesStep DEF BlameInv
<1>1. CASE Run \/ Connect \/ Request \/ ReadHead \/ Retry
  BY <1>1, RunBlameless, ConnectBlameless, RequestBlameless, ReadHeadBlameless, RetryBlameless
<1>2. CASE TakeListing \/ TakeEntry \/ PullEnds
  BY <1>2, TakeListingBlameless, TakeEntryBlameless, PullEndsBlameless
<1>3. CASE CreateFile \/ CopyRead \/ FileDone \/ Discard \/ GiveUp
  BY <1>3, CreateFileBlameless, CopyReadBlameless, FileDoneBlameless, DiscardBlameless,
     GiveUpBlameless
<1>4. CASE RemoteChanges \/ Answer \/ SendByte \/ CloseIdle
  BY <1>4, RemoteChangesBlameless, AnswerBlameless, SendByteBlameless, CloseIdleBlameless
<1>5. CASE CutAnswer \/ TimePasses \/ WriteFails \/ Kill
  BY <1>5, CutAnswerBlameless, TimePassesBlameless, WriteFailsBlameless, KillBlameless
<1>6. CASE UNCHANGED vars
  <2>1. UNCHANGED <<remote, local, perm, conn, pc, call, reused, want, err, cause>>
    BY <1>6 DEF vars, remoteVars, diskVars, callVars
  <2>2. NotThere => NotThere'
    BY <2>1 DEF NotThere
  <2>3. ~cause => Clean(conn)'
    BY <2>1, <2>2, CleanKept DEF BlameInv, Blameless
  <2> QED
    BY <2>1, <2>3, StaysClean DEF BlameInv
<1> QED
  BY <1>1, <1>2, <1>3, <1>4, <1>5, <1>6 DEF Next, Client, Environment

\* A request fails only for a cause: a fault of server, network or disk during it, a wait that
\* was too long, a node that is not there, or a file the disk does not let be written.  A
\* connection that the server closes between two requests costs none, whatever the order in which
\* the close, the request and its retry meet (http_get, src/pull/src/http.rs).
THEOREM FailuresHaveCauses == Spec => []FailsOnlyForCause
<1>1. Init => BlameInv
  BY BlameInit
<1>2. BlameInv /\ [Next]_vars => BlameInv'
  BY BlameNext
<1>3. BlameInv => FailsOnlyForCause
  BY DEF BlameInv, Blameless, Excused, NotThere, FailsOnlyForCause
<1> QED
  BY <1>1, <1>2, <1>3, PTL DEF Spec

-----------------------------------------------------------------------------
(* What a file being fetched holds. *)

Offered(f) == seen[f] \ {None}

\* Of w, the bytes from place g on of version v of file f.
Pieces(w, f, v, g) == \A i \in 1..Len(w) : w[i].x = <<f, v, g + i>>

\* After g bytes of a version, w is on the wire and s to come, of len bytes said: all of the
\* version, or too little to reach that length.
Comes(w, s, f, v, g, len) ==
  /\ len = Size[v] \/ g + Len(w) + Len(s) < len
  /\ Pieces(w, f, v, g) /\ Pieces(s, f, v, g + Len(w))

\* A file of which the beginning of a version has been written.
Part(s, f, v) == IsSeq(s) /\ \A i \in 1..Len(s) : s[i] = <<f, v, i>>

HeadContent ==
  conn.wire # <<>> /\ GoesOn(conn.wire[1]) =>
    \E v \in Offered(call.node) :
      Comes(Tail(conn.wire), conn.sending, call.node, v, 0, conn.wire[1].x.len)

BodyContent ==
  \E v \in Offered(call.node) :
    /\ Comes(conn.wire, conn.sending, call.node, v, Got, want)
    /\ pc = "copy" => Part(local[call.node], call.node, v)

LeftContent ==
  /\ call.op = "pull" /\ call.node \in Files
  /\ \E v \in Offered(call.node) : Part(local[call.node], call.node, v)

\* The inductive invariant: what was asked for as a file comes as one version that the remote has
\* had since the run began, and what has been written of it is its beginning.
Content ==
  /\ pc = "head" /\ call.op = "pull" => HeadContent
  /\ pc \in {"body", "copy"} /\ call.op = "pull" => BodyContent
  /\ pc = "failed" /\ err.from = "copy" => LeftContent

SeenTypes ==
  /\ \A f \in Files : remote[f] \in seen[f] /\ seen[f] \subseteq Versions \cup {None}
  /\ perm = [f \in Files |-> perm[f]]

ContentInv == Inv /\ CallTypes /\ SeenTypes /\ Content

LEMMA SeenTypesStep == ASSUME Inv, Inv', SeenTypes, [Next]_vars PROVE SeenTypes'
<1>1. CASE Run
  <2>1. seen' = [n \in Nodes |-> {remote[n]}] /\ remote' = remote /\ perm' = perm
    BY <1>1 DEF Run, diskVars
  <2> QED
    BY <2>1 DEF SeenTypes, Inv, RemoteTypes, Nodes
<1>2. CASE RemoteChanges
  <2>1. seen' = [n \in Nodes |-> seen[n] \cup {remote'[n]}] /\ perm' = perm
    BY <1>2 DEF RemoteChanges, diskVars
  <2> QED
    BY <2>1 DEF SeenTypes, Inv, RemoteTypes, Nodes
<1>3. CASE Discard
  <2>1. UNCHANGED <<remote, seen>> /\ (perm' = perm \/ perm' = [perm EXCEPT ![call.node] = "rw"])
    BY <1>3 DEF Discard, FileStep, remoteVars, diskVars
  <2> QED
    BY <2>1 DEF SeenTypes
<1>4. CASE UNCHANGED <<remote, seen, perm>>
  BY <1>4 DEF SeenTypes
<1>5. CASE Answer \/ SendByte \/ CloseIdle \/ CutAnswer \/ TimePasses \/ UNCHANGED vars
  BY <1>4, <1>5 DEF Answer, SendByte, CloseIdle, CutAnswer, TimePasses, ServerStep, vars,
                    remoteVars, diskVars
<1>6. CASE Connect \/ Request \/ ReadHead \/ Retry \/ TakeListing \/ TakeEntry \/ PullEnds
  BY <1>4, <1>6 DEF Connect, Request, ReadHead, Retry, TakeListing, TakeEntry, PullEnds,
                    TransportStep, remoteVars, diskVars
<1>7. CASE CreateFile \/ CopyRead \/ FileDone \/ GiveUp \/ WriteFails \/ Kill
  BY <1>4, <1>7 DEF CreateFile, CopyRead, FileDone, GiveUp, LeaveRequest, WriteFails, Kill,
                    FileStep, remoteVars, diskVars
<1> QED
  BY <1>1, <1>2, <1>3, <1>5, <1>6, <1>7 DEF Next, Client, Environment

\* A byte goes from what is to come to the wire.
LEMMA ByteSent ==
  ASSUME NEW w, IsSeq(w), NEW s, IsSeq(s), s # <<>>, NEW f, NEW v, NEW g \in Nat, NEW len \in Nat,
         Comes(w, s, f, v, g, len)
  PROVE  Comes(Append(w, Head(s)), Tail(s), f, v, g, len)
<1> DEFINE w1 == Append(w, Head(s))
           s1 == Tail(s)
<1>1. Len(w) \in Nat /\ Len(s) \in Nat
  BY SeqLen
<1>2. /\ Len(w1) = Len(w) + 1 /\ w1[Len(w) + 1] = s[1]
      /\ \A i \in 1..Len(w) : w1[i] = w[i]
  BY SeqAppend, SeqTail
<1>3. Len(s1) = Len(s) - 1 /\ \A i \in 1..Len(s) - 1 : s1[i] = s[i + 1]
  BY SeqTail
<1>4. Len(s) # 0
  BY SeqLen
<1> HIDE DEF w1, s1
<1>5. /\ len = Size[v] \/ g + Len(w) + Len(s) < len
      /\ \A i \in 1..Len(w) : w[i].x = <<f, v, g + i>>
      /\ \A i \in 1..Len(s) : s[i].x = <<f, v, g + Len(w) + i>>
  BY DEF Comes, Pieces
<1>6. len = Size[v] \/ g + Len(w1) + Len(s1) < len
  BY <1>1, <1>2, <1>3, <1>5
<1>7. \A i \in 1..Len(w1) : w1[i].x = <<f, v, g + i>>
  <2> SUFFICES ASSUME NEW i \in 1..Len(w1) PROVE w1[i].x = <<f, v, g + i>>
    OBVIOUS
  <2>1. i \in 1..Len(w) \/ i = Len(w) + 1
    BY <1>1, <1>2
  <2>2. CASE i \in 1..Len(w)
    BY <1>2, <1>5, <2>2
  <2>3. CASE i = Len(w) + 1
    <3>1. 1 \in 1..Len(s) /\ g + Len(w) + 1 = g + i
      BY <1>1, <1>4, <2>3
    <3>2. s[1].x = <<f, v, g + Len(w) + 1>>
      BY <1>5, <3>1
    <3> QED
      BY <1>2, <2>3, <3>1, <3>2
  <2> QED
    BY <2>1, <2>2, <2>3
<1>8. \A i \in 1..Len(s1) : s1[i].x = <<f, v, g + Len(w1) + i>>
  <2> SUFFICES ASSUME NEW i \in 1..Len(s1) PROVE s1[i].x = <<f, v, g + Len(w1) + i>>
    OBVIOUS
  <2>1. i \in 1..Len(s) - 1 /\ i + 1 \in 1..Len(s)
    BY <1>1, <1>3
  <2>2. g + Len(w) + (i + 1) = g + Len(w1) + i
    BY <1>1, <1>2, <2>1
  <2> QED
    BY <1>3, <1>5, <2>1, <2>2
<1> QED
  BY <1>6, <1>7, <1>8 DEF Comes, Pieces, w1, s1

\* What is dropped leaves less.
LEMMA LessComes ==
  ASSUME NEW w, IsSeq(w), NEW s, IsSeq(s), NEW f, NEW v, NEW g \in Nat, NEW len \in Nat,
         Comes(w, s, f, v, g, len)
  PROVE  Comes(w, <<>>, f, v, g, len) /\ Comes(<<>>, <<>>, f, v, g, len)
<1>1. Len(w) \in Nat /\ Len(s) \in Nat
  BY SeqLen
<1>2. len = Size[v] \/ (g + Len(w) + 0 < len /\ g + 0 + 0 < len)
  BY <1>1 DEF Comes
<1>3. Len(<<>>) = 0
  OBVIOUS
<1>4. \A h : Pieces(<<>>, f, v, h)
  BY DEF Pieces
<1> QED
  BY <1>2, <1>3, <1>4 DEF Comes

\* The first k bytes are taken off the wire.
LEMMA BytesTaken ==
  ASSUME NEW w, IsSeq(w), NEW s, IsSeq(s), NEW f, NEW v, NEW g \in Nat, NEW len \in Nat,
         Comes(w, s, f, v, g, len), NEW k \in 0..Len(w)
  PROVE  Comes(SubSeq(w, k + 1, Len(w)), s, f, v, g + k, len)
<1> DEFINE rest == SubSeq(w, k + 1, Len(w))
<1>1. Len(w) \in Nat /\ Len(s) \in Nat /\ k \in Nat /\ k <= Len(w)
  BY SeqLen
<1>2. Len(rest) = Len(w) - k /\ \A i \in 1..Len(w) - k : rest[i] = w[i + k]
  BY SeqRest
<1> HIDE DEF rest
<1>3. /\ len = Size[v] \/ g + Len(w) + Len(s) < len
      /\ \A i \in 1..Len(w) : w[i].x = <<f, v, g + i>>
      /\ \A i \in 1..Len(s) : s[i].x = <<f, v, g + Len(w) + i>>
  BY DEF Comes, Pieces
<1>4. len = Size[v] \/ (g + k) + Len(rest) + Len(s) < len
  BY <1>1, <1>2, <1>3
<1>5. \A i \in 1..Len(rest) : rest[i].x = <<f, v, (g + k) + i>>
  <2> SUFFICES ASSUME NEW i \in 1..Len(rest) PROVE rest[i].x = <<f, v, (g + k) + i>>
    OBVIOUS
  <2>1. i \in 1..Len(w) - k /\ i + k \in 1..Len(w) /\ g + (i + k) = (g + k) + i
    BY <1>1, <1>2
  <2> QED
    BY <1>2, <1>3, <2>1
<1>6. (g + k) + Len(rest) = g + Len(w)
  BY <1>1, <1>2
<1> QED
  BY <1>3, <1>4, <1>5, <1>6 DEF Comes, Pieces, rest


\* What is written of the bytes taken off the wire.
LEMMA BytesAre ==
  ASSUME NEW w, IsSeq(w), NEW k \in 0..Len(w)
  PROVE  /\ IsSeq(Bytes(SubSeq(w, 1, k))) /\ Len(Bytes(SubSeq(w, 1, k))) = k
         /\ \A i \in 1..k : Bytes(SubSeq(w, 1, k))[i] = w[i].x
<1>1. PICK S : w \in Seq(S)
  BY DEF IsSeq
<1> DEFINE front == SubSeq(w, 1, k)
<1>2. front \in Seq(S) /\ Len(front) = k /\ k \in Nat /\ \A i \in 1..k : front[i] = w[i]
  BY <1>1
<1> HIDE DEF front
<1>3. \A i \in 1..k : Bytes(front)[i] = w[i].x
  BY <1>2 DEF Bytes
<1> QED
  BY <1>3, SeqBytes DEF front

LEMMA PartGrows ==
  ASSUME NEW f, NEW v, NEW s, Part(s, f, v), NEW t, IsSeq(t),
         \A i \in 1..Len(t) : t[i] = <<f, v, Len(s) + i>>
  PROVE  Part(s \o t, f, v)
<1>1. IsSeq(s \o t) /\ Len(s \o t) = Len(s) + Len(t) /\ Len(s) \in Nat /\ Len(t) \in Nat
  BY SeqJoin, SeqLen DEF Part
<1>2. ASSUME NEW i \in 1..Len(s \o t)
      PROVE  (s \o t)[i] = <<f, v, i>>
  <2>1. PICK S : s \in Seq(S)
    BY DEF Part, IsSeq
  <2>2. PICK T : t \in Seq(T)
    BY DEF IsSeq
  <2>3. i \in Nat /\ i >= 1 /\ i <= Len(s) + Len(t)
    BY <1>1
  <2>4. CASE i <= Len(s)
    <3>1. i \in 1..Len(s) /\ s[i] = <<f, v, i>>
      BY <1>1, <2>3, <2>4 DEF Part
    <3>2. (s \o t)[i] = s[i]
      BY <2>1, <2>2, <2>3, <2>4
    <3> QED
      BY <3>1, <3>2
  <2>5. CASE i > Len(s)
    <3>1. i - Len(s) \in 1..Len(t) /\ Len(s) + (i - Len(s)) = i
      BY <1>1, <2>3, <2>5
    <3>2. (s \o t)[i] = t[i - Len(s)]
      BY <2>1, <2>2, <2>3, <2>5
    <3> QED
      BY <3>1, <3>2
  <2> QED
    BY <1>1, <2>3, <2>4, <2>5
<1> QED
  BY <1>1, <1>2 DEF Part

\* Nothing is being fetched, or it failed before anything was written.
LEMMA NothingFetched ==
  ASSUME pc' \notin {"head", "body", "copy"}, pc' = "failed" => err'.from # "copy"
  PROVE  Content'
BY DEF Content

\* Where the client and its connection stay, and the versions offered stay offered.
LEMMA ContentKept ==
  ASSUME Inv, Content, UNCHANGED <<pc, call, local, want, err, conn>>,
         \A f \in Files : Offered(f) \subseteq Offered(f)'
  PROVE  Content'
<1>1. pc = "head" /\ call.op = "pull" => HeadContent'
  <2> SUFFICES ASSUME pc = "head", call.op = "pull", conn.wire # <<>>, GoesOn(conn.wire[1])
               PROVE  HeadContent'
    BY DEF HeadContent, GoesOn
  <2>1. call.node \in Files
    <3>1. AtHead(conn)
      BY ConnIsGood DEF Good
    <3> QED
      BY <3>1 DEF AtHead, Empty, Fits
  <2>2. PICK v \in Offered(call.node) :
          Comes(Tail(conn.wire), conn.sending, call.node, v, 0, conn.wire[1].x.len)
    BY DEF Content, HeadContent
  <2>3. v \in Offered(call.node)'
    BY <2>1, <2>2
  <2> QED
    BY <2>2, <2>3 DEF HeadContent
<1>2. pc \in {"body", "copy"} /\ call.op = "pull" => BodyContent'
  <2> SUFFICES ASSUME pc \in {"body", "copy"}, call.op = "pull" PROVE BodyContent'
    OBVIOUS
  <2>1. call.node \in Files
    BY ConnIsGood DEF Good, AtBody, Fits
  <2>2. PICK v \in Offered(call.node) :
          /\ Comes(conn.wire, conn.sending, call.node, v, Got, want)
          /\ pc = "copy" => Part(local[call.node], call.node, v)
    BY DEF Content, BodyContent
  <2>3. v \in Offered(call.node)' /\ Got' = Got
    BY <2>1, <2>2 DEF Got
  <2> QED
    BY <2>2, <2>3 DEF BodyContent
<1>3. pc = "failed" /\ err.from = "copy" => LeftContent'
  BY DEF Content, LeftContent
<1> QED
  BY <1>1, <1>2, <1>3 DEF Content

\* A step of the server or of the network.
LEMMA ServerContent ==
  ASSUME Content, ServerStep,
         pc = "head" /\ call.op = "pull" => HeadContent',
         pc \in {"body", "copy"} /\ call.op = "pull" => BodyContent'
  PROVE  Content'
<1>1. UNCHANGED <<seen, local, pc, call, err>>
  BY DEF ServerStep, remoteVars, diskVars, callVars
<1>2. LeftContent => LeftContent'
  BY <1>1 DEF LeftContent, Offered
<1> QED
  BY <1>1, <1>2 DEF Content

\* The facts about a step of the server that the next lemmas start from.
LEMMA ServerFacts ==
  ASSUME ContentInv, Up, ServerStep
  PROVE  /\ Good(conn) /\ IsConn(conn) /\ IsSeq(conn.wire) /\ IsSeq(conn.sending)
         /\ UNCHANGED <<local, seen, pc, call, want, Got>>
         /\ pc \in {"body", "copy"} => Got \in Nat /\ want \in Nat
         /\ pc = "head" /\ conn.wire # <<>> /\ GoesOn(conn.wire[1]) =>
              conn.wire[1].x.len \in Nat /\ IsSeq(Tail(conn.wire))
<1>1. /\ Good(conn) /\ IsConn(conn) /\ IsSeq(conn.wire) /\ IsSeq(conn.sending)
      /\ UNCHANGED <<local, seen, pc, call, want, Got>>
  BY ServerSide, ConnParts DEF ContentInv, ServerStep, remoteVars, diskVars
<1>2. pc \in {"body", "copy"} => Got \in Nat /\ want \in Nat
  BY <1>1 DEF Good, AtBody, Fits
<1>3. pc = "head" /\ conn.wire # <<>> /\ GoesOn(conn.wire[1]) =>
        conn.wire[1].x.len \in Nat /\ IsSeq(Tail(conn.wire))
  BY <1>1, SeqTail DEF Good, AtHead, Empty, Fits
<1> QED
  BY <1>1, <1>2, <1>3

\* A connection of which something is dropped, or only the state changes.
LEMMA DropsContent ==
  ASSUME ContentInv, Up, ServerStep,
         \/ conn'.wire = conn.wire /\ conn'.sending = conn.sending
         \/ conn'.wire = conn.wire /\ conn'.sending = <<>>
         \/ conn'.wire = <<>> /\ conn'.sending = <<>>
  PROVE  Content'
<1>1. /\ Good(conn) /\ IsConn(conn) /\ IsSeq(conn.wire) /\ IsSeq(conn.sending)
      /\ UNCHANGED <<local, seen, pc, call, want, Got>>
  BY ServerFacts
<1>2. pc = "head" /\ call.op = "pull" => HeadContent'
  <2> SUFFICES ASSUME pc = "head", call.op = "pull", conn'.wire # <<>>, GoesOn(conn'.wire[1])
               PROVE  \E v \in Offered(call.node) :
                        Comes(Tail(conn'.wire), conn'.sending, call.node, v, 0, conn'.wire[1].x.len)
    BY <1>1 DEF HeadContent, GoesOn, Offered
  <2>1. conn'.wire = conn.wire /\ (conn'.sending = conn.sending \/ conn'.sending = <<>>)
    OBVIOUS
  <2>2. conn.wire # <<>> /\ GoesOn(conn.wire[1])
    BY <2>1
  <2>3. PICK v \in Offered(call.node) :
          Comes(Tail(conn.wire), conn.sending, call.node, v, 0, conn.wire[1].x.len)
    BY <2>2 DEF ContentInv, Content, HeadContent
  <2>4. conn.wire[1].x.len \in Nat /\ IsSeq(Tail(conn.wire))
    BY <2>2, ServerFacts
  <2>5. Comes(Tail(conn.wire), <<>>, call.node, v, 0, conn.wire[1].x.len)
    BY <1>1, <2>3, <2>4, LessComes
  <2> QED
    BY <2>1, <2>3, <2>5
<1>3. pc \in {"body", "copy"} /\ call.op = "pull" => BodyContent'
  <2> SUFFICES ASSUME pc \in {"body", "copy"}, call.op = "pull" PROVE BodyContent'
    OBVIOUS
  <2>1. PICK v \in Offered(call.node) :
          /\ Comes(conn.wire, conn.sending, call.node, v, Got, want)
          /\ pc = "copy" => Part(local[call.node], call.node, v)
    BY DEF ContentInv, Content, BodyContent
  <2>2. /\ Comes(conn.wire, <<>>, call.node, v, Got, want)
        /\ Comes(<<>>, <<>>, call.node, v, Got, want)
    BY <1>1, <2>1, ServerFacts, LessComes
  <2>3. Comes(conn'.wire, conn'.sending, call.node, v, Got, want)
    BY <2>1, <2>2
  <2> QED
    BY <1>1, <2>1, <2>3 DEF BodyContent, Offered
<1> QED
  BY <1>2, <1>3, ServerContent DEF ContentInv

LEMMA CloseIdleContent == ASSUME ContentInv, CloseIdle PROVE Content'
<1>1. Up /\ ServerStep
  BY DEF CloseIdle
<1>2. conn'.wire = conn.wire /\ conn'.sending = conn.sending
  <2>1. PICK st \in {"eof", "reset"} : conn' = [conn EXCEPT !.state = st, !.asked = <<>>]
    BY DEF CloseIdle
  <2> QED
    BY <1>1, <2>1, ServerFacts, ConnSame
<1> QED
  BY <1>1, <1>2, DropsContent

LEMMA TimePassesContent == ASSUME ContentInv, TimePasses PROVE Content'
<1>1. Up /\ ServerStep /\ conn' = [conn EXCEPT !.state = "slow"]
  BY DEF TimePasses, Up
<1>2. conn'.wire = conn.wire /\ conn'.sending = conn.sending
  BY <1>1, ServerFacts, ConnSame
<1> QED
  BY <1>1, <1>2, DropsContent

LEMMA SendByteContent == ASSUME ContentInv, SendByte PROVE Content'
<1> DEFINE wire == Append(conn.wire, Head(conn.sending))
           sending == Tail(conn.sending)
<1>1. Up /\ ServerStep /\ conn.sending # <<>>
      /\ conn' = [conn EXCEPT !.wire = wire, !.sending = sending]
  BY DEF SendByte
<1>2. /\ Good(conn) /\ IsConn(conn) /\ IsSeq(conn.wire) /\ IsSeq(conn.sending)
      /\ UNCHANGED <<local, seen, pc, call, want, Got>>
  BY <1>1, ServerFacts
<1>3. conn'.wire = wire /\ conn'.sending = sending
  BY <1>1, <1>2, ConnSame
<1>4. pc = "head" /\ call.op = "pull" => HeadContent'
  <2> SUFFICES ASSUME pc = "head", call.op = "pull", GoesOn(wire[1])
               PROVE  \E v \in Offered(call.node) :
                        Comes(Tail(wire), sending, call.node, v, 0, wire[1].x.len)
    BY <1>2, <1>3 DEF HeadContent, GoesOn, Offered
  <2>1. conn.wire # <<>>
    BY <1>1, <1>2 DEF Good, AtHead, Empty
  <2>2. wire[1] = conn.wire[1] /\ Tail(wire) = Append(Tail(conn.wire), Head(conn.sending))
    <3>1. PICK S : conn.wire \in Seq(S)
      BY <1>2 DEF IsSeq
    <3>2. PICK x : x = Head(conn.sending)
      OBVIOUS
    <3>3. conn.wire \in Seq(S \cup {x}) /\ x \in S \cup {x}
      BY <3>1, SeqGrows
    <3>4. Append(conn.wire, x)[1] = conn.wire[1]
          /\ Tail(Append(conn.wire, x)) = Append(Tail(conn.wire), x)
      BY <2>1, <3>3
    <3> QED
      BY <3>2, <3>4
  <2> HIDE DEF wire
  <2>3. PICK v \in Offered(call.node) :
          Comes(Tail(conn.wire), conn.sending, call.node, v, 0, conn.wire[1].x.len)
    BY <2>1, <2>2 DEF ContentInv, Content, HeadContent
  <2>4. conn.wire[1].x.len \in Nat /\ IsSeq(Tail(conn.wire))
    BY <1>1, <2>1, <2>2, ServerFacts
  <2>5. Comes(Append(Tail(conn.wire), Head(conn.sending)), sending, call.node, v, 0,
              conn.wire[1].x.len)
    BY <1>1, <1>2, <2>3, <2>4, ByteSent
  <2> QED
    BY <2>2, <2>3, <2>5
<1>5. pc \in {"body", "copy"} /\ call.op = "pull" => BodyContent'
  <2> SUFFICES ASSUME pc \in {"body", "copy"}, call.op = "pull" PROVE BodyContent'
    OBVIOUS
  <2>1. PICK v \in Offered(call.node) :
          /\ Comes(conn.wire, conn.sending, call.node, v, Got, want)
          /\ pc = "copy" => Part(local[call.node], call.node, v)
    BY DEF ContentInv, Content, BodyContent
  <2>2. Got \in Nat /\ want \in Nat
    BY <1>1, ServerFacts
  <2>3. Comes(wire, sending, call.node, v, Got, want)
    BY <1>1, <1>2, <2>1, <2>2, ByteSent
  <2> HIDE DEF wire, sending
  <2> QED
    BY <1>2, <1>3, <2>1, <2>3 DEF BodyContent, Offered
<1> QED
  BY <1>1, <1>4, <1>5, ServerContent DEF ContentInv


\* The body of an answer that the client goes on with is a version the remote file has.
LEMMA BodyIsOffered ==
  ASSUME Inv, SeenTypes, call.op = "pull", Response(call).status = 200
  PROVE  \E v \in Offered(call.node) :
           LET b == Response(call).body
           IN /\ Size[v] \in Nat /\ Len(b) = Size[v]
              /\ \A i \in 1..Len(b) : b[i] = <<call.node, v, i>>
<1> DEFINE v == remote[call.node]
<1>1. call.node \in Files /\ v # None /\ Response(call).body = Body(call.node, v)
  BY DEF Response
<1>2. v \in Offered(call.node) /\ Size[v] \in Nat
  BY <1>1, SizeAssumption DEF Offered, SeenTypes, Inv, RemoteTypes
<1> HIDE DEF v
<1>3. /\ Len(Body(call.node, v)) = Size[v]
      /\ \A i \in 1..Size[v] : Body(call.node, v)[i] = <<call.node, v, i>>
  BY <1>2 DEF Body
<1> QED
  BY <1>1, <1>2, <1>3

LEMMA AnswerContent == ASSUME ContentInv, Answer PROVE Content'
<1> DEFINE r == Response(call)
           wire == Append(conn.wire, WholeHead(call, r))
           sending == [i \in DOMAIN r.body |-> Token(call, "data", r.body[i])]
<1>1. /\ Up /\ conn # NoConn /\ conn.asked # <<>> /\ ServerStep
  BY DEF Answer, Up, NoConn, NewConn
<1>2. /\ IsConn(conn) /\ UNCHANGED <<seen, pc, call>>
  BY <1>1, ServerFacts
<1>3. /\ Head(conn.asked) = call /\ pc \notin {"take", "acquire", "body", "copy"}
      /\ pc = "head" => conn.wire = <<>>
  BY <1>1, RequestOnItsWay DEF ContentInv
<1>4. conn' = [conn EXCEPT !.asked = Tail(@), !.used = TRUE, !.wire = wire, !.sending = sending]
  BY <1>3 DEF Answer
<1>5. pc = "head" /\ call.op = "pull" => HeadContent'
  <2> SUFFICES ASSUME pc = "head", call.op = "pull" PROVE HeadContent'
    OBVIOUS
  <2>1. IsSeq(r.body) /\ Len(r.body) \in Nat
    BY ResponseFacts DEF ContentInv, Inv
  <2>2. \A x : Append(<<>>, x)[1] = x /\ Tail(Append(<<>>, x)) = <<>>
    OBVIOUS
  <2>3. wire[1] = WholeHead(call, r) /\ Tail(wire) = <<>>
    <3> HIDE DEF r
    <3> QED
      BY <1>3, <2>2
  <2>4. wire[1].x.status = r.status /\ wire[1].x.len = Len(r.body)
    BY <2>3 DEF WholeHead, Token
  <2>5. r.status = 200 =>
          \E v \in Offered(call.node) : Comes(<<>>, sending, call.node, v, 0, Len(r.body))
    <3> SUFFICES ASSUME r.status = 200
                 PROVE \E v \in Offered(call.node) :
                         Comes(<<>>, sending, call.node, v, 0, Len(r.body))
      OBVIOUS
    <3>1. PICK v \in Offered(call.node) :
            /\ Size[v] \in Nat /\ Len(r.body) = Size[v]
            /\ \A i \in 1..Len(r.body) : r.body[i] = <<call.node, v, i>>
      BY BodyIsOffered DEF ContentInv
    <3>2. DOMAIN r.body = 1..Len(r.body)
      BY <2>1 DEF IsSeq
    <3>3. sending = [i \in 1..Len(r.body) |-> Token(call, "data", r.body[i])]
      BY <3>2
    <3> HIDE DEF r, sending
    <3>4. Len(sending) = Len(r.body)
      BY <2>1, <3>3
    <3>5. \A i \in 1..Len(r.body) : sending[i].x = r.body[i]
      BY <3>3 DEF Token
    <3>6. \A i \in 1..Len(r.body) : 0 + Len(<<>>) + i = i
      OBVIOUS
    <3>7. Pieces(sending, call.node, v, 0 + Len(<<>>)) /\ Pieces(<<>>, call.node, v, 0)
      BY <3>1, <3>4, <3>5, <3>6 DEF Pieces
    <3> QED
      BY <3>1, <3>7 DEF Comes
  <2> HIDE DEF r, wire, sending
  <2>6. conn'.wire = wire /\ conn'.sending = sending
    BY <1>2, <1>4, ConnSame
  <2>7. GoesOn(wire[1]) => r.status = 200
    BY <2>4 DEF GoesOn
  <2>8. GoesOn(wire[1]) =>
          \E v \in Offered(call.node) :
            Comes(Tail(wire), sending, call.node, v, 0, wire[1].x.len)
    BY <2>3, <2>4, <2>5, <2>7
  <2> QED
    BY <1>2, <2>6, <2>8 DEF HeadContent, GoesOn, Offered
<1> QED
  BY <1>1, <1>3, <1>5, ServerContent DEF ContentInv

LEMMA CutAnswerContent == ASSUME ContentInv, CutAnswer PROVE Content'
<1>1. Up /\ conn # NoConn /\ ServerStep
  BY DEF CutAnswer, Up, NoConn, NewConn
<1>2. Good(conn) /\ IsConn(conn) /\ UNCHANGED <<seen, pc, call>>
  BY <1>1, ServerFacts
<1>3. CASE conn' = [conn EXCEPT !.asked = <<>>, !.sending = <<>>, !.state = "eof"]
  <2>1. conn'.wire = conn.wire /\ conn'.sending = <<>>
    BY <1>2, <1>3, ConnEmptied
  <2> QED
    BY <1>1, <2>1, DropsContent
<1>4. CASE conn' = [conn EXCEPT !.asked = <<>>, !.sending = <<>>, !.wire = <<>>, !.state = "reset"]
  <2>1. conn'.wire = <<>> /\ conn'.sending = <<>>
    BY <1>2, <1>4, ConnEmptied
  <2> QED
    BY <1>1, <2>1, DropsContent
<1>5. CASE /\ conn.asked # <<>> /\ conn.sending = <<>>
           /\ \E h \in CutHeads(Head(conn.asked), Response(Head(conn.asked))) :
                conn' = [conn EXCEPT !.asked = <<>>, !.wire = Append(@, h), !.state = "eof"]
  <2> DEFINE r == Response(call)
  <2>1. /\ Head(conn.asked) = call /\ pc \notin {"take", "acquire", "body", "copy"}
        /\ pc = "head" => conn.wire = <<>>
    BY <1>1, <1>5, RequestOnItsWay DEF ContentInv
  <2>2. PICK h \in CutHeads(call, r) :
          conn' = [conn EXCEPT !.asked = <<>>, !.wire = Append(@, h), !.state = "eof"]
    BY <1>5, <2>1
  <2>3. conn'.wire = Append(conn.wire, h) /\ conn'.sending = <<>>
    <3>1. PICK T : conn \in Conns(T)
      BY <1>2 DEF IsConn
    <3> QED
      BY <1>5, <2>2, <3>1 DEF Conns
  <2>4. Len(r.body) \in Nat
    BY ResponseFacts DEF ContentInv, Inv
  <2>5. GoesOn(h) => r.status = 200 /\ h.x.len \in (1..Len(r.body)) \cup {Len(r.body)}
    <3>1. CASE \E st \in {r.status, 20, None} : h = Token(call, "head", [status |-> st, len |-> None])
      BY <3>1 DEF Token, GoesOn
    <3>2. CASE \E l \in (1..Len(r.body)) \cup {Len(r.body), NoNumber} :
                  h = Token(call, "head", [status |-> r.status, len |-> l])
      BY <3>2 DEF Token, GoesOn
    <3> QED
      BY <2>2, <3>1, <3>2 DEF CutHeads
  <2>6. pc = "head" /\ call.op = "pull" => HeadContent'
    <3> SUFFICES ASSUME pc = "head", call.op = "pull", GoesOn(h) PROVE HeadContent'
      <4>1. \A x : Append(<<>>, x)[1] = x
        OBVIOUS
      <4> QED
        BY <1>2, <2>1, <2>3, <4>1 DEF HeadContent, GoesOn
    <3>1. \A x : Append(<<>>, x)[1] = x /\ Tail(Append(<<>>, x)) = <<>>
      OBVIOUS
    <3>2. conn'.wire[1] = h /\ Tail(conn'.wire) = <<>>
      BY <2>1, <2>3, <3>1
    <3>3. PICK v \in Offered(call.node) : Size[v] \in Nat /\ Len(r.body) = Size[v]
      BY <2>5, BodyIsOffered DEF ContentInv
    <3>4. h.x.len = Size[v] \/ 0 + Len(<<>>) + Len(<<>>) < h.x.len
      <4>1. CASE h.x.len = Len(r.body)
        BY <3>3, <4>1
      <4>2. CASE h.x.len \in 1..Len(r.body)
        BY <2>4, <4>2
      <4> QED
        BY <2>5, <4>1, <4>2
    <3>5. \A g : Pieces(<<>>, call.node, v, g)
      BY DEF Pieces
    <3>6. Comes(<<>>, <<>>, call.node, v, 0, h.x.len)
      BY <3>4, <3>5 DEF Comes
    <3> QED
      BY <1>2, <2>3, <3>2, <3>6 DEF HeadContent, Offered
  <2> QED
    BY <1>1, <2>1, <2>6, ServerContent DEF ContentInv
<1> QED
  BY <1>3, <1>4, <1>5 DEF CutAnswer

LEMMA RequestContent == ASSUME ContentInv, Request PROVE Content'
<1>1. /\ pc = "acquire" /\ conn # NoConn
  BY DEF Request
<1>2. IsConn(conn) /\ Empty(conn)
  BY <1>1, ConnIsGood DEF Good, ContentInv
<1>3. CASE Failed("Io", "http")
  <2>1. pc' = "failed" /\ err'.from = "http"
    BY <1>3 DEF Failed
  <2> QED
    BY <2>1, NothingFetched
<1>4. CASE pc' = "head" /\ conn' = [conn EXCEPT !.asked = IF Up THEN Append(@, call) ELSE @]
  <2>1. conn'.wire = <<>>
    BY <1>2, <1>4, ConnSame DEF Empty
  <2> QED
    BY <1>4, <2>1 DEF Content, HeadContent
<1> QED
  BY <1>3, <1>4 DEF Request

LEMMA ReadHeadContent == ASSUME ContentInv, ReadHead PROVE Content'
<1>1. /\ pc = "head" /\ UNCHANGED <<seen, call>>
  BY DEF ReadHead, remoteVars
<1>2. Good(conn) /\ IsConn(conn)
  BY <1>1, ConnIsGood DEF ContentInv
<1>3. CASE \E e : \E from \in {"http", "status", "length"} : Failed(e, from)
  <2>1. pc' = "failed" /\ err'.from # "copy"
    BY <1>3 DEF Failed
  <2> QED
    BY <2>1, NothingFetched
<1>4. CASE /\ conn.wire # <<>> /\ conn' = [conn EXCEPT !.wire = Tail(@)]
           /\ GoesOn(conn.wire[1]) /\ want' = conn.wire[1].x.len /\ pc' = "body"
  <2>1. conn'.wire = Tail(conn.wire) /\ conn'.sending = conn.sending
    BY <1>2, <1>4, ConnSame
  <2>2. Got' = 0
    BY <1>4 DEF Got
  <2>3. call.op = "pull" => BodyContent'
    BY <1>1, <1>4, <2>1, <2>2 DEF ContentInv, Content, HeadContent, BodyContent, Offered
  <2> QED
    BY <1>1, <1>4, <2>3 DEF Content
<1>5. conn.wire # <<>> => Head(conn.wire) = conn.wire[1]
  BY <1>2, ConnParts, SeqTail
<1> QED
  BY <1>3, <1>4, <1>5 DEF ReadHead, Drained, Expires, GoesOn

LEMMA TakeListingContent == ASSUME TakeListing PROVE Content'
<1>1. pc' = "take" \/ \E e : \E from \in {"list", "mkdir"} : Failed(e, from)
  BY DEF TakeListing, BodyFails
<1> QED
  BY <1>1, NothingFetched DEF Failed


LEMMA CreateFileContent == ASSUME ContentInv, CreateFile PROVE Content'
<1> DEFINE f == call.node
<1>1. /\ pc = "body" /\ call.op = "pull" /\ UNCHANGED <<seen, call, want>>
  BY DEF CreateFile, FileStep, remoteVars
<1>2. Good(conn) /\ IsConn(conn) /\ AtBody(conn)
  BY <1>1, ConnIsGood DEF ContentInv, Good
<1>3. want \in Nat /\ f \in Files /\ Got = 0
  BY <1>1, <1>2 DEF AtBody, Fits, Got
<1>4. CASE Failed("Io", "create")
  <2>1. pc' = "failed" /\ err'.from # "copy"
    BY <1>4 DEF Failed
  <2> QED
    BY <2>1, NothingFetched
<1>5. CASE /\ \E k \in 0..Len(conn.wire) :
                 /\ local' = [local EXCEPT ![f] = Bytes(SubSeq(conn.wire, 1, MinOf(k, want)))]
                 /\ conn' = [conn EXCEPT !.wire = SubSeq(@, k + 1, Len(@))]
           /\ pc' = "copy"
  <2>1. PICK k \in 0..Len(conn.wire) :
          /\ local' = [local EXCEPT ![f] = Bytes(SubSeq(conn.wire, 1, MinOf(k, want)))]
          /\ conn' = [conn EXCEPT !.wire = SubSeq(@, k + 1, Len(@))]
    BY <1>5
  <2>2. IsSeq(conn.wire) /\ IsSeq(conn.sending)
    BY <1>2, ConnParts
  <2>3. Len(conn.wire) \in Nat /\ Len(conn.sending) \in Nat /\ k \in Nat /\ k <= Len(conn.wire)
    BY <2>2, SeqLen
  <2>4. 0 + Len(conn.wire) + Len(conn.sending) <= want
    BY <1>2, <1>3 DEF AtBody
  <2>5. k <= want
    BY <1>3, <2>3, <2>4, TakenFits
  <2>6. MinOf(k, want) = k
    BY <1>3, <2>3, <2>5 DEF MinOf
  <2> DEFINE got == Bytes(SubSeq(conn.wire, 1, k))
             rest == SubSeq(conn.wire, k + 1, Len(conn.wire))
  <2>7. IsSeq(got) /\ Len(got) = k /\ \A i \in 1..k : got[i] = conn.wire[i].x
    BY <2>2, BytesAre
  <2>8. local'[f] = got
    BY <1>3, <2>1, <2>6 DEF ContentInv, Inv, LocalTypes
  <2>9. conn' = [conn EXCEPT !.wire = rest]
    BY <2>1
  <2>10. PICK v \in Offered(f) : Comes(conn.wire, conn.sending, f, v, Got, want)
    BY <1>1 DEF ContentInv, Content, BodyContent
  <2>11. Comes(rest, conn.sending, f, v, 0 + k, want)
    BY <1>3, <2>2, <2>10, BytesTaken
  <2> HIDE DEF got, rest
  <2>12. conn'.wire = rest /\ conn'.sending = conn.sending
    BY <1>2, <2>9, ConnSame
  <2>13. Got' = k /\ 0 + k = k
    BY <1>1, <1>5, <2>3, <2>7, <2>8 DEF Got
  <2>14. Part(got, f, v)
    <3>1. \A i \in 1..k : i \in 1..Len(conn.wire) /\ 0 + i = i
      BY <2>3
    <3>2. \A i \in 1..Len(conn.wire) : conn.wire[i].x = <<f, v, 0 + i>>
      BY <1>3, <2>10 DEF Comes, Pieces
    <3> QED
      BY <2>7, <3>1, <3>2 DEF Part
  <2>15. Comes(conn'.wire, conn'.sending, f, v, Got', want')
    BY <1>1, <2>11, <2>12, <2>13
  <2>16. BodyContent'
    BY <1>1, <2>8, <2>10, <2>14, <2>15 DEF BodyContent, Offered
  <2> QED
    BY <1>5, <2>16 DEF Content
<1> QED
  BY <1>4, <1>5 DEF CreateFile

LEMMA CopyFails ==
  ASSUME ContentInv, pc = "copy", pc' = "failed", UNCHANGED <<seen, local, call>>
  PROVE  Content'
<1>1. call.op = "pull" /\ call.node \in Files
  BY ConnIsGood DEF ContentInv, Good, AtBody, Fits
<1>2. \E v \in Offered(call.node) : Part(local[call.node], call.node, v)
  BY <1>1 DEF ContentInv, Content, BodyContent
<1> QED
  BY <1>1, <1>2 DEF Content, LeftContent, Offered

LEMMA WriteFailsContent == ASSUME ContentInv, WriteFails PROVE Content'
<1>1. pc = "copy" /\ pc' = "failed" /\ UNCHANGED <<seen, local, call>>
  BY DEF WriteFails, Failed, FileStep, remoteVars, diskVars
<1> QED
  BY <1>1, CopyFails

LEMMA CopyReadContent == ASSUME ContentInv, CopyRead PROVE Content'
<1> DEFINE f == call.node
<1>1. /\ pc = "copy" /\ UNCHANGED <<seen, call, want>>
  BY DEF CopyRead, FileStep, remoteVars
<1>2. Good(conn) /\ IsConn(conn) /\ AtBody(conn)
  BY <1>1, ConnIsGood DEF ContentInv, Good
<1>3. /\ want \in Nat /\ f \in Files /\ IsSeq(local[f]) /\ call.op = "pull"
      /\ Got = Len(local[f]) /\ Got = Copied /\ Got \in Nat
  BY <1>1, <1>2 DEF AtBody, Fits, Got, Copied
<1>4. CASE BodyFails("copy") /\ local' = local
  <2>1. pc' = "failed"
    BY <1>4 DEF BodyFails, Failed
  <2> QED
    BY <1>1, <1>4, <2>1, CopyFails
<1>5. CASE /\ \E n \in 1..MinOf(want - Copied, Len(conn.wire)) :
                 /\ local' = [local EXCEPT ![f] = @ \o Bytes(SubSeq(conn.wire, 1, n))]
                 /\ conn' = [conn EXCEPT !.wire = SubSeq(@, n + 1, Len(@))]
           /\ pc' = pc
  <2>1. PICK n \in 1..MinOf(want - Copied, Len(conn.wire)) :
          /\ local' = [local EXCEPT ![f] = @ \o Bytes(SubSeq(conn.wire, 1, n))]
          /\ conn' = [conn EXCEPT !.wire = SubSeq(@, n + 1, Len(@))]
    BY <1>5
  <2>2. IsSeq(conn.wire) /\ IsSeq(conn.sending)
    BY <1>2, ConnParts
  <2>3. Len(conn.wire) \in Nat /\ Len(conn.sending) \in Nat
    BY <2>2, SeqLen
  <2>4. n \in 0..Len(conn.wire) /\ n \in Nat
    <3>1. MinOf(want - Copied, Len(conn.wire)) \in Int
          /\ MinOf(want - Copied, Len(conn.wire)) <= Len(conn.wire)
      BY <1>3, <2>3 DEF MinOf
    <3> QED
      BY <2>3, <3>1
  <2> DEFINE more == Bytes(SubSeq(conn.wire, 1, n))
             rest == SubSeq(conn.wire, n + 1, Len(conn.wire))
  <2>5. IsSeq(more) /\ Len(more) = n /\ \A i \in 1..n : more[i] = conn.wire[i].x
    BY <2>2, <2>4, BytesAre
  <2>6. local'[f] = local[f] \o more
    BY <1>3, <2>1 DEF ContentInv, Inv, LocalTypes
  <2>7. conn' = [conn EXCEPT !.wire = rest]
    BY <2>1
  <2>8. PICK v \in Offered(f) :
          Comes(conn.wire, conn.sending, f, v, Got, want) /\ Part(local[f], f, v)
    BY <1>1, <1>3 DEF ContentInv, Content, BodyContent
  <2>9. Comes(rest, conn.sending, f, v, Got + n, want)
    BY <1>3, <2>2, <2>4, <2>8, BytesTaken
  <2> HIDE DEF more, rest
  <2>10. conn'.wire = rest /\ conn'.sending = conn.sending
    BY <1>2, <2>7, ConnSame
  <2>11. Got' = Got + n
    <3>1. Len(local[f] \o more) = Got + n
      BY <1>3, <2>5, SeqJoin
    <3> QED
      BY <1>1, <1>5, <2>6, <3>1 DEF Got
  <2>12. Part(local[f] \o more, f, v)
    <3>1. \A i \in 1..n : i \in 1..Len(conn.wire)
      BY <2>3, <2>4
    <3>2. \A i \in 1..Len(conn.wire) : conn.wire[i].x = <<f, v, Got + i>>
      BY <2>8 DEF Comes, Pieces
    <3>3. \A i \in 1..Len(more) : more[i] = <<f, v, Len(local[f]) + i>>
      BY <1>3, <2>5, <3>1, <3>2
    <3> QED
      BY <2>5, <2>8, <3>3, PartGrows
  <2>13. Comes(conn'.wire, conn'.sending, f, v, Got', want')
    BY <1>1, <2>9, <2>10, <2>11
  <2>14. BodyContent'
    BY <1>1, <2>6, <2>8, <2>12, <2>13 DEF BodyContent, Offered
  <2> QED
    BY <1>1, <1>5, <2>14 DEF Content
<1> QED
  BY <1>4, <1>5 DEF CopyRead

LEMMA DiscardContent == ASSUME ContentInv, Discard PROVE Content'
<1>1. pc' = "failed" /\ err' = [err EXCEPT !.from = "discarded"]
      /\ err = [what |-> err.what, from |-> err.from]
  BY DEF Discard, ContentInv, CallTypes
<1>2. err'.from = "discarded"
  BY <1>1
<1> QED
  BY <1>1, <1>2, NothingFetched

LEMMA RemoteChangesContent == ASSUME ContentInv, RemoteChanges PROVE Content'
<1>1. UNCHANGED <<pc, call, local, want, err, conn>>
  BY DEF RemoteChanges, callVars, diskVars
<1>2. seen' = [n \in Nodes |-> seen[n] \cup {remote'[n]}]
  BY DEF RemoteChanges
<1>3. \A f \in Files : Offered(f) \subseteq Offered(f)'
  BY <1>2 DEF Offered, Nodes
<1> QED
  BY <1>1, <1>3, ContentKept DEF ContentInv

\* The steps that have no file in hand when they are done.
LEMMA OtherContent ==
  ASSUME Run \/ Connect \/ Retry \/ TakeEntry \/ PullEnds \/ FileDone \/ GiveUp \/ Kill
  PROVE  Content'
<1>1. CASE Run \/ Retry \/ PullEnds \/ FileDone \/ GiveUp \/ Kill
  <2>1. pc' \in {"off", "acquire", "take", "ended"}
    BY <1>1 DEF Run, Retry, PullEnds, FileDone, GiveUp, LeaveRequest, Kill, Begin
  <2> QED
    BY <2>1, NothingFetched
<1>2. CASE Connect \/ TakeEntry
  <2>1. pc' \in {"acquire", "take"} \/ \E e : \E from \in {"connect", "mkdir"} : Failed(e, from)
    BY <1>2 DEF Connect, TakeEntry, Begin, callVars
  <2> QED
    BY <2>1, NothingFetched DEF Failed
<1> QED
  BY <1>1, <1>2

LEMMA ContentInit == Init => ContentInv
<1> SUFFICES ASSUME Init PROVE ContentInv
  OBVIOUS
<1>1. Inv /\ pc = "off"
  BY InitInv DEF Init
<1>2. SeenTypes
  <2>1. seen = [n \in Nodes |-> {remote[n]}] /\ perm \in [Files -> Perms]
    BY DEF Init
  <2> QED
    BY <1>1, <2>1 DEF SeenTypes, Inv, RemoteTypes, Nodes
<1> QED
  BY <1>1, <1>2 DEF ContentInv, CallTypes, Content

LEMMA ContentNext == ContentInv /\ [Next]_vars => ContentInv'
<1> SUFFICES ASSUME ContentInv, [Next]_vars PROVE Content'
  BY NextInv, CallTypesStep, SeenTypesStep DEF ContentInv
<1>1. CASE Run \/ Connect \/ Retry \/ TakeEntry \/ PullEnds \/ FileDone \/ GiveUp \/ Kill
  BY <1>1, OtherContent
<1>2. CASE Request \/ ReadHead \/ TakeListing \/ RemoteChanges
  BY <1>2, RequestContent, ReadHeadContent, TakeListingContent, RemoteChangesContent
<1>3. CASE CreateFile \/ CopyRead \/ WriteFails \/ Discard
  BY <1>3, CreateFileContent, CopyReadContent, WriteFailsContent, DiscardContent
<1>4. CASE Answer \/ SendByte \/ CloseIdle \/ CutAnswer \/ TimePasses
  BY <1>4, AnswerContent, SendByteContent, CloseIdleContent, CutAnswerContent, TimePassesContent
<1>5. CASE UNCHANGED vars
  <2>1. UNCHANGED <<pc, call, local, want, err, conn, seen>>
    BY <1>5 DEF vars, remoteVars, diskVars, callVars
  <2>2. \A f \in Files : Offered(f) \subseteq Offered(f)'
    BY <2>1 DEF Offered
  <2> QED
    BY <2>1, <2>2, ContentKept DEF ContentInv
<1> QED
  BY <1>1, <1>2, <1>3, <1>4, <1>5 DEF Next, Client, Environment


-----------------------------------------------------------------------------
(* A pull keeps the promise of Mirror. *)

CopyNow == [f \in Files |-> CopyOf(f)]
OfferedNow == [f \in Files |-> seen[f] \ {None}]
StuckNow == {f \in Files : perm[f] = "stuck"}
NoBytes == {v \in Versions : Size[v] = 0}

\* A file is being written, or its discard is yet to come.
Busy == pc = "copy" \/ (pc = "failed" /\ err.from = "copy")

\* What a file that is not being written is to a reader.
Reads(s, f) ==
  IF s = None THEN "absent"
  ELSE IF s = OwnBytes THEN "own"
  ELSE IF \E v \in Versions : s = Body(f, v) THEN CHOOSE v \in Versions : s = Body(f, v)
  ELSE "torn"

LEMMA CopyReads ==
  ASSUME NEW f
  PROVE  /\ Writing(f) <=> Busy /\ call.node = f /\ call.op = "pull"
         /\ CopyOf(f) = IF Writing(f) THEN "absent" ELSE Reads(local[f], f)
BY DEF Writing, Busy, CopyOf, Reads

LEMMA CopyReadsThen ==
  ASSUME NEW f
  PROVE  /\ Writing(f)' <=> Busy' /\ call'.node = f /\ call'.op = "pull"
         /\ CopyOf(f)' = IF Writing(f)' THEN "absent" ELSE Reads(local'[f], f)
BY DEF Writing, Busy, CopyOf, Reads


LEMMA SameSeq ==
  ASSUME NEW S, NEW s \in Seq(S), NEW t \in Seq(S), Len(s) = Len(t),
         \A i \in 1..Len(s) : s[i] = t[i]
  PROVE  s = t
<1>1. s = [i \in 1..Len(s) |-> s[i]]
  OBVIOUS
<1>2. t = [i \in 1..Len(t) |-> t[i]]
  OBVIOUS
<1>3. [i \in 1..Len(s) |-> s[i]] = [i \in 1..Len(t) |-> t[i]]
  OBVIOUS
<1> QED
  BY <1>1, <1>2, <1>3

\* The beginning of a version reads as that version when it is whole, and otherwise as torn or,
\* when it is of no bytes, as the version of none.
LEMMA PartReads ==
  ASSUME NEW f \in Files, NEW v \in Versions, NEW s, Part(s, f, v)
  PROVE  /\ Reads(s, f) \in {v, "torn"} \cup NoBytes
         /\ Len(s) = Size[v] => Reads(s, f) = v
<1> DEFINE Content3 == Files \X Versions \X Nat
<1>1. /\ IsSeq(s) /\ Len(s) \in Nat /\ \A i \in 1..Len(s) : s[i] = <<f, v, i>>
  BY SeqLen DEF Part
<1>2. s \in Seq(Content3)
  <2>1. PICK S : s \in Seq(S)
    BY <1>1 DEF IsSeq
  <2>2. \A i \in 1..Len(s) : <<f, v, i>> \in Content3
    OBVIOUS
  <2>3. \A i \in 1..Len(s) : s[i] \in Content3
    BY <1>1, <2>2
  <2> HIDE DEF Content3
  <2> QED
    BY <1>1, <2>1, <2>3
<1>3. s # None
  BY <1>2, ContentAssumption
<1>4. s # OwnBytes
  <2> SUFFICES ASSUME s = OwnBytes PROVE FALSE
    OBVIOUS
  <2>1. Len(s) = 1 /\ s[1] = <<"own", 0, 1>>
    BY DEF OwnBytes
  <2>2. s[1] = <<f, v, 1>>
    BY <1>1, <2>1
  <2> QED
    BY <2>1, <2>2, ContentAssumption
<1>5. \A w \in Versions : /\ Size[w] \in Nat /\ Body(f, w) \in Seq(Content3)
                          /\ Len(Body(f, w)) = Size[w]
                          /\ \A i \in 1..Size[w] : Body(f, w)[i] = <<f, w, i>>
  <2> TAKE w \in Versions
  <2>1. Size[w] \in Nat
    BY SizeAssumption
  <2>2. \A i \in 1..Size[w] : <<f, w, i>> \in Content3
    BY <2>1
  <2> HIDE DEF Content3
  <2> QED
    BY <2>1, <2>2 DEF Body
<1>6. ASSUME NEW w \in Versions, s = Body(f, w)
      PROVE  Len(s) = Size[w] /\ (w = v \/ w \in NoBytes)
  <2>1. Len(s) = Size[w]
    BY <1>5, <1>6
  <2>2. CASE Size[w] # 0
    <3>1. 1 \in 1..Size[w]
      BY <1>5, <2>2
    <3>2. s[1] = <<f, w, 1>> /\ s[1] = <<f, v, 1>>
      BY <1>1, <1>5, <1>6, <2>1, <3>1
    <3> QED
      BY <2>1, <3>2
  <2> QED
    BY <2>1, <2>2 DEF NoBytes
<1>7. Len(s) = Size[v] => s = Body(f, v)
  <2> SUFFICES ASSUME Len(s) = Size[v] PROVE s = Body(f, v)
    OBVIOUS
  <2>1. \A i \in 1..Len(s) : s[i] = Body(f, v)[i]
    BY <1>1, <1>5
  <2> HIDE DEF Content3
  <2> QED
    BY <1>2, <1>5, <2>1, SameSeq
<1>8. CASE \E w \in Versions : s = Body(f, w)
  <2> DEFINE w == CHOOSE w \in Versions : s = Body(f, w)
  <2>1. w \in Versions /\ s = Body(f, w)
    BY <1>8
  <2>2. Reads(s, f) = w
    BY <1>3, <1>4, <1>8 DEF Reads
  <2> HIDE DEF w
  <2>3. Len(s) = Size[w] /\ (w = v \/ w \in NoBytes)
    BY <1>6, <2>1
  <2>4. Len(s) = Size[v] => w = v
    BY <2>1, <2>3, ContentAssumption DEF NoBytes
  <2> QED
    BY <2>2, <2>3, <2>4
<1>9. CASE ~\E w \in Versions : s = Body(f, w)
  BY <1>3, <1>4, <1>7, <1>9 DEF Reads
<1> QED
  BY <1>8, <1>9

LEMMA OfferedIs ==
  ASSUME SeenTypes, NEW f \in Files, NEW v \in Offered(f)
  PROVE  v \in Versions /\ v \in OfferedNow[f]
BY DEF SeenTypes, Offered, OfferedNow

\* A step that changes one file for its reader.
LEMMA OneFile ==
  ASSUME NEW f \in Files, NEW x, CopyOf(f)' = x,
         \A g \in Files : g # f => CopyOf(g)' = CopyOf(g)
  PROVE  CopyNow' = [CopyNow EXCEPT ![f] = x]
BY DEF CopyNow

\* A step of which a reader of the files notices nothing.
LEMMA Unnoticed ==
  ASSUME UNCHANGED <<seen, perm, kills, local, call>>, Busy' <=> Busy
  PROVE  UNCHANGED Promise!vars
<1>1. \A f \in Files : CopyOf(f)' = CopyOf(f)
  BY CopyReads, CopyReadsThen
<1>2. CopyNow' = CopyNow /\ OfferedNow' = OfferedNow /\ StuckNow' = StuckNow /\ kills' = kills
  BY <1>1 DEF CopyNow, OfferedNow, StuckNow
<1> QED
  BY <1>2 DEF Promise!vars, CopyNow, OfferedNow, StuckNow

LEMMA UnnoticedIdle ==
  ASSUME UNCHANGED <<seen, perm, kills, local>>, ~Busy, ~Busy'
  PROVE  UNCHANGED Promise!vars
<1>1. \A f \in Files : CopyOf(f)' = CopyOf(f)
  BY CopyReads, CopyReadsThen
<1>2. CopyNow' = CopyNow /\ OfferedNow' = OfferedNow /\ StuckNow' = StuckNow /\ kills' = kills
  BY <1>1 DEF CopyNow, OfferedNow, StuckNow
<1> QED
  BY <1>2 DEF Promise!vars, CopyNow, OfferedNow, StuckNow

\* What the actions of Mirror say in terms of the client.
LEMMA PromiseActions ==
  ASSUME NEW f \in Files
  PROVE  /\ Promise!Install(f) <=>
              /\ \E v \in OfferedNow[f] : CopyNow' = [CopyNow EXCEPT ![f] = v]
              /\ kills' = kills /\ StuckNow' = StuckNow /\ OfferedNow' = OfferedNow
         /\ Promise!Remove(f) <=>
              /\ CopyNow' = [CopyNow EXCEPT ![f] = "absent"]
              /\ kills' = kills /\ StuckNow' = StuckNow /\ OfferedNow' = OfferedNow
         /\ Promise!Tear(f) <=>
              /\ kills' = kills + 1 \/ (f \in StuckNow /\ kills' = kills)
              /\ \E c \in NoBytes \cup {"torn"} : CopyNow' = [CopyNow EXCEPT ![f] = c]
              /\ StuckNow' = StuckNow /\ OfferedNow' = OfferedNow
BY DEF Promise!Install, Promise!Remove, Promise!Tear, CopyNow, OfferedNow, StuckNow, NoBytes

LEMMA PromiseNext ==
  /\ \A f \in Files : Promise!Install(f) \/ Promise!Remove(f) \/ Promise!Tear(f) => Promise!Next
  /\ (/\ kills' = kills + 1
      /\ \/ CopyNow' = CopyNow
         \/ \E f \in Files, v \in Versions :
              v \in OfferedNow[f] /\ CopyNow' = [CopyNow EXCEPT ![f] = v]
      /\ StuckNow' = StuckNow /\ OfferedNow' = OfferedNow) => Promise!Next
  /\ (/\ OfferedNow' \in [Files -> SUBSET Versions]
      /\ CopyNow' = CopyNow /\ kills' = kills /\ StuckNow' = StuckNow) => Promise!Next
BY DEF Promise!Next, Promise!Killed, Promise!Offer, CopyNow, OfferedNow, StuckNow


\* The steps of the server and of time, and those in which no file is in hand.
LEMMA QuietSteps ==
  ASSUME \/ Connect \/ Request \/ ReadHead \/ Retry \/ TakeListing \/ TakeEntry \/ PullEnds \/ GiveUp
         \/ Answer \/ SendByte \/ CloseIdle \/ CutAnswer \/ TimePasses \/ UNCHANGED vars
  PROVE  UNCHANGED Promise!vars
<1>1. CASE Answer \/ SendByte \/ CloseIdle \/ CutAnswer \/ TimePasses \/ UNCHANGED vars
  <2>1. UNCHANGED <<seen, perm, kills, local, call, pc, err>>
    BY <1>1 DEF Answer, SendByte, CloseIdle, CutAnswer, TimePasses, ServerStep, remoteVars, diskVars,
                planVars, callVars, vars
  <2> QED
    BY <2>1, Unnoticed DEF Busy
<1>2. CASE Connect \/ Request \/ ReadHead \/ Retry
  <2>1. UNCHANGED <<seen, perm, kills, local>>
    BY <1>2 DEF Connect, Request, ReadHead, Retry, TransportStep, remoteVars, diskVars, planVars
  <2>2. ~Busy
    BY <1>2 DEF Connect, Request, ReadHead, Retry, MayRetry, Busy
  <2>3. ~Busy'
    <3>1. CASE Connect
      BY <3>1 DEF Connect, Failed, Busy
    <3>2. CASE Request
      BY <3>2 DEF Request, Failed, Busy
    <3>3. CASE ReadHead
      BY <3>3 DEF ReadHead, Failed, Busy
    <3>4. CASE Retry
      BY <3>4 DEF Retry, Busy
    <3> QED
      BY <1>2, <3>1, <3>2, <3>3, <3>4
  <2> QED
    BY <2>1, <2>2, <2>3, UnnoticedIdle
<1>3. CASE TakeListing \/ TakeEntry \/ PullEnds \/ GiveUp
  <2>1. UNCHANGED <<seen, perm, kills, local>>
    BY <1>3 DEF TakeListing, TakeEntry, PullEnds, GiveUp, LeaveRequest, remoteVars, diskVars
  <2>2. ~Busy
    BY <1>3 DEF TakeListing, TakeEntry, PullEnds, GiveUp, LeaveRequest, Busy
  <2>3. ~Busy'
    <3>1. CASE TakeListing
      BY <3>1 DEF TakeListing, BodyFails, Failed, Busy
    <3>2. CASE TakeEntry
      BY <3>2 DEF TakeEntry, Begin, Failed, callVars, Busy
    <3>3. CASE PullEnds \/ GiveUp
      BY <3>3 DEF PullEnds, GiveUp, LeaveRequest, Begin, Busy
    <3> QED
      BY <1>3, <3>1, <3>2, <3>3
  <2> QED
    BY <2>1, <2>2, <2>3, UnnoticedIdle
<1> QED
  BY <1>1, <1>2, <1>3

\* What the client holds of the file in hand.
LEMMA InHand ==
  ASSUME ContentInv, Busy
  PROVE  /\ call.op = "pull" /\ call.node \in Files /\ Writing(call.node)
         /\ CopyOf(call.node) = "absent"
         /\ \E v \in Offered(call.node) : Part(local[call.node], call.node, v)
<1>1. call.op = "pull" /\ call.node \in Files
  BY ConnIsGood DEF ContentInv, Content, LeftContent, Busy, Good, AtBody, Fits
<1>2. \E v \in Offered(call.node) : Part(local[call.node], call.node, v)
  BY <1>1 DEF ContentInv, Content, LeftContent, BodyContent, Busy
<1>3. Writing(call.node)
  BY <1>1, CopyReads
<1> QED
  BY <1>1, <1>2, <1>3, CopyReads

\* A step that ends with no file in hand changes, for a reader, that file alone.
LEMMA FileEnds ==
  ASSUME ContentInv, Busy, ~Busy', local' = local
  PROVE  CopyNow' = [CopyNow EXCEPT ![call.node] = Reads(local[call.node], call.node)]
<1>1. call.node \in Files
  BY InHand
<1>2. \A g \in Files : ~Writing(g)' /\ CopyOf(g)' = Reads(local[g], g)
  BY CopyReadsThen
<1>3. \A g \in Files : g # call.node => CopyOf(g)' = CopyOf(g)
  BY <1>2, CopyReads
<1> QED
  BY <1>1, <1>2, <1>3, OneFile

\* A copy that goes on, fails to, or cannot begin.
LEMMA CopyReadPromise == ASSUME ContentInv, CopyRead PROVE UNCHANGED Promise!vars
<1> DEFINE f == call.node
<1>1. /\ pc = "copy" /\ UNCHANGED <<seen, perm, kills, call>>
  BY DEF CopyRead, FileStep, remoteVars, planVars
<1>2. Busy'
  <2>1. CASE UNCHANGED <<pc, err>>
    BY <1>1, <2>1 DEF Busy
  <2>2. CASE BodyFails("copy")
    <3>1. \E e : Failed(e, "copy")
      BY <2>2 DEF BodyFails
    <3> QED
      BY <3>1 DEF Failed, Busy
  <2> QED
    BY <2>1, <2>2 DEF CopyRead
<1>3. Busy /\ call.op = "pull" /\ f \in Files
  BY <1>1, InHand DEF Busy
<1>4. \A g \in Files : g # f => local'[g] = local[g]
  BY <1>3 DEF CopyRead, ContentInv, Inv, LocalTypes
<1>5. \A g \in Files : CopyOf(g)' = CopyOf(g)
  <2> TAKE g \in Files
  <2>1. CASE g = f
    BY <1>1, <1>2, <1>3, <2>1, CopyReads, CopyReadsThen
  <2>2. CASE g # f
    BY <1>1, <1>4, <2>2, CopyReads, CopyReadsThen
  <2> QED
    BY <2>1, <2>2
<1> QED
  BY <1>1, <1>5 DEF Promise!vars

\* The file is created, or emptied: from here on it is promised to be nothing.
LEMMA CreateFilePromise == ASSUME ContentInv, CreateFile PROVE [Promise!Next]_(Promise!vars)
<1> DEFINE f == call.node
<1>1. /\ pc = "body" /\ call.op = "pull" /\ UNCHANGED <<seen, perm, kills, call>>
  BY DEF CreateFile, FileStep, remoteVars, planVars
<1>2. ~Busy
  BY <1>1 DEF Busy
<1>3. f \in Files
  BY <1>1, ConnIsGood DEF ContentInv, Good, AtBody, Fits
<1>4. CASE Failed("Io", "create") /\ local' = local
  <2>1. ~Busy'
    BY <1>4 DEF Failed, Busy
  <2> QED
    BY <1>1, <1>2, <1>4, <2>1, UnnoticedIdle
<1>5. CASE pc' = "copy" /\ \E x : local' = [local EXCEPT ![f] = x]
  <2>1. Busy' /\ Writing(f)'
    BY <1>1, <1>5, CopyReadsThen DEF Busy
  <2>2. \A g \in Files : g # f => local'[g] = local[g]
    BY <1>5 DEF ContentInv, Inv, LocalTypes
  <2>3. \A g \in Files : g # f => CopyOf(g)' = CopyOf(g)
    BY <1>1, <1>2, <2>2, CopyReads, CopyReadsThen
  <2>4. PICK h \in Files : h = f
    BY <1>3
  <2>5. CopyNow' = [CopyNow EXCEPT ![f] = "absent"]
    <3>1. Writing(h)'
      BY <1>1, <2>1, <2>4, CopyReadsThen
    <3>2. CopyOf(h)' = "absent"
      BY <3>1, CopyReadsThen
    <3>3. \A g \in Files : g # h => CopyOf(g)' = CopyOf(g)
      BY <2>3, <2>4
    <3>4. CopyNow' = [CopyNow EXCEPT ![h] = "absent"]
      BY <3>2, <3>3, OneFile
    <3> QED
      BY <2>4, <3>4
  <2>6. kills' = kills /\ StuckNow' = StuckNow /\ OfferedNow' = OfferedNow
    BY <1>1 DEF StuckNow, OfferedNow
  <2> QED
    BY <1>3, <2>5, <2>6, PromiseActions, PromiseNext
<1> QED
  BY <1>4, <1>5 DEF CreateFile

LEMMA WriteFailsPromise == ASSUME WriteFails PROVE UNCHANGED Promise!vars
<1>1. UNCHANGED <<seen, perm, kills, local, call>> /\ Busy /\ Busy'
  BY DEF WriteFails, FileStep, remoteVars, planVars, diskVars, Failed, Busy
<1> QED
  BY <1>1, Unnoticed

\* The length is reached: the file is the version that was sent.
LEMMA FileDonePromise == ASSUME ContentInv, FileDone PROVE [Promise!Next]_(Promise!vars)
<1> DEFINE f == call.node
<1>1. /\ pc = "copy" /\ Copied = want /\ UNCHANGED <<seen, perm, kills, call, local>>
  BY DEF FileDone, remoteVars, diskVars
<1>2. Busy /\ ~Busy'
  BY DEF FileDone, Busy
<1>3. f \in Files /\ call.op = "pull"
  BY <1>2, InHand
<1>4. Good(conn) /\ AtBody(conn) /\ IsConn(conn)
  BY <1>1, ConnIsGood DEF ContentInv, Good
<1>5. PICK v \in Offered(f) :
        Comes(conn.wire, conn.sending, f, v, Got, want) /\ Part(local[f], f, v)
  BY <1>1, <1>3 DEF ContentInv, Content, BodyContent
<1>6. want = Size[v] /\ Len(local[f]) = want
  <2>1. IsSeq(conn.wire) /\ IsSeq(conn.sending)
    BY <1>4, ConnParts
  <2>2. Len(conn.wire) \in Nat /\ Len(conn.sending) \in Nat
    BY <2>1, SeqLen
  <2>3. Got = want /\ Got \in Nat /\ Len(local[f]) = want
    BY <1>1, <1>4 DEF Got, Copied, AtBody
  <2>4. ~(Got + Len(conn.wire) + Len(conn.sending) < want)
    <3>1. \A x, y, z \in Nat : ~(x + y + z < x)
      OBVIOUS
    <3>2. ~(Got + Len(conn.wire) + Len(conn.sending) < Got)
      BY <2>2, <2>3, <3>1
    <3> QED
      BY <2>3, <3>2
  <2> QED
    BY <1>5, <2>3, <2>4 DEF Comes
<1>7. v \in Versions /\ v \in OfferedNow[f]
  BY <1>3, <1>5, OfferedIs DEF ContentInv
<1>8. Reads(local[f], f) = v
  BY <1>3, <1>5, <1>6, <1>7, PartReads
<1>9. CopyNow' = [CopyNow EXCEPT ![f] = v]
  BY <1>1, <1>2, <1>8, FileEnds
<1>10. kills' = kills /\ StuckNow' = StuckNow /\ OfferedNow' = OfferedNow
  BY <1>1 DEF StuckNow, OfferedNow
<1> HIDE DEF f
<1> QED
  BY <1>3, <1>7, <1>9, <1>10, PromiseActions, PromiseNext

\* What is given up is removed, or left as it is where nothing can be removed.
LEMMA DiscardPromise == ASSUME ContentInv, Discard PROVE [Promise!Next]_(Promise!vars)
<1> DEFINE f == call.node
<1>1. /\ pc = "failed" /\ pc' = "failed" /\ err.from \in {"create", "copy"}
      /\ UNCHANGED <<seen, kills, call>>
  BY DEF Discard, FileStep, remoteVars, planVars
<1>2. ~Busy'
  <2>1. err = [what |-> err.what, from |-> err.from] /\ err' = [err EXCEPT !.from = "discarded"]
    BY <1>1 DEF Discard, ContentInv, CallTypes
  <2>2. err'.from = "discarded"
    BY <2>1
  <2> QED
    BY <1>1, <2>2 DEF Busy
<1>3. CASE UNCHANGED diskVars /\ ~Busy
  BY <1>1, <1>2, <1>3, UnnoticedIdle DEF diskVars
<1>4. CASE UNCHANGED diskVars /\ perm[f] = "stuck" /\ Busy
  <2>1. f \in Files /\ f \in StuckNow
    BY <1>4, InHand DEF StuckNow
  <2>2. PICK v \in Offered(f) : Part(local[f], f, v)
    BY <1>4, InHand
  <2>3. v \in Versions /\ v \in OfferedNow[f]
    BY <2>1, <2>2, OfferedIs DEF ContentInv
  <2>4. Reads(local[f], f) \in {v, "torn"} \cup NoBytes
    BY <2>1, <2>2, <2>3, PartReads
  <2>5. CopyNow' = [CopyNow EXCEPT ![f] = Reads(local[f], f)]
    BY <1>2, <1>4, FileEnds DEF diskVars
  <2>6. kills' = kills /\ StuckNow' = StuckNow /\ OfferedNow' = OfferedNow
    BY <1>1, <1>4 DEF StuckNow, OfferedNow, diskVars
  <2> DEFINE c == Reads(local[f], f)
  <2> HIDE DEF f, c
  <2>7. CASE c = v
    BY <2>1, <2>3, <2>5, <2>6, <2>7, PromiseActions, PromiseNext DEF c
  <2>8. CASE c \in NoBytes \cup {"torn"}
    BY <2>1, <2>5, <2>6, <2>8, PromiseActions, PromiseNext DEF c
  <2> QED
    BY <2>4, <2>7, <2>8 DEF c
<1>5. CASE local' = [local EXCEPT ![f] = None] /\ perm' = [perm EXCEPT ![f] = "rw"]
           /\ perm[f] # "stuck" /\ f \in Files
  <2>1. \A g \in Files : g # f => local'[g] = local[g] /\ perm'[g] = perm[g]
    BY <1>5 DEF ContentInv, Inv, LocalTypes, SeenTypes
  <2>2. local'[f] = None /\ perm'[f] = "rw"
    BY <1>5 DEF ContentInv, Inv, LocalTypes, SeenTypes
  <2>3. PICK h \in Files : h = f
    BY <1>5
  <2>4. \A g \in Files : g # f => CopyOf(g)' = CopyOf(g)
    <3> TAKE g \in Files
    <3> HAVE g # f
    <3>1. ~Writing(g) /\ ~Writing(g)'
      BY <1>2, CopyReads, CopyReadsThen
    <3> QED
      BY <2>1, <3>1, CopyReads, CopyReadsThen
  <2>5. StuckNow' = StuckNow
    BY <1>5, <2>1, <2>2 DEF StuckNow
  <2>6. kills' = kills /\ OfferedNow' = OfferedNow
    BY <1>1 DEF OfferedNow
  <2>7. CopyNow' = [CopyNow EXCEPT ![f] = "absent"]
    <3>1. local'[h] = None
      BY <2>2, <2>3
    <3>2. CopyOf(h)' = "absent"
      BY <3>1, CopyReadsThen DEF Reads
    <3>3. \A g \in Files : g # h => CopyOf(g)' = CopyOf(g)
      BY <2>3, <2>4
    <3>4. CopyNow' = [CopyNow EXCEPT ![h] = "absent"]
      BY <3>2, <3>3, OneFile
    <3> QED
      BY <2>3, <3>4
  <2> HIDE DEF f
  <2> QED
    BY <1>5, <2>5, <2>6, <2>7, PromiseActions, PromiseNext
<1>6. CASE local' = [local EXCEPT ![f] = None] /\ perm' = [perm EXCEPT ![f] = "rw"] /\ f \notin Files
  <2>1. UNCHANGED diskVars
    BY <1>6 DEF ContentInv, Inv, LocalTypes, SeenTypes, diskVars
  <2>2. ~Busy
    BY <1>6, InHand
  <2> QED
    BY <1>3, <2>1, <2>2
<1>7. \/ UNCHANGED diskVars /\ perm[f] = "stuck"
      \/ /\ local' = [local EXCEPT ![f] = None] /\ perm' = [perm EXCEPT ![f] = "rw"]
         /\ perm[f] # "stuck"
  BY DEF Discard
<1> QED
  BY <1>3, <1>4, <1>5, <1>6, <1>7

\* A kill leaves what has been written of the file in hand.
LEMMA KillPromise == ASSUME ContentInv, Kill PROVE [Promise!Next]_(Promise!vars)
<1> DEFINE f == call.node
<1>1. kills' = kills + 1 /\ pc' = "off" /\ UNCHANGED <<seen, perm, local, call>>
  BY DEF Kill, remoteVars, diskVars
<1>2. ~Busy' /\ StuckNow' = StuckNow /\ OfferedNow' = OfferedNow
  BY <1>1 DEF Busy, StuckNow, OfferedNow
<1>3. CASE Busy
  <2>1. f \in Files
    BY <1>3, InHand
  <2>2. PICK v \in Offered(f) : Part(local[f], f, v)
    BY <1>3, InHand
  <2>3. v \in Versions /\ v \in OfferedNow[f]
    BY <2>1, <2>2, OfferedIs DEF ContentInv
  <2>4. Reads(local[f], f) \in {v, "torn"} \cup NoBytes
    BY <2>1, <2>2, <2>3, PartReads
  <2>5. CopyNow' = [CopyNow EXCEPT ![f] = Reads(local[f], f)]
    BY <1>1, <1>2, <1>3, FileEnds
  <2> DEFINE c == Reads(local[f], f)
  <2> HIDE DEF f, c
  <2>6. CASE c = v
    BY <1>1, <1>2, <2>1, <2>3, <2>5, <2>6, PromiseNext DEF c
  <2>7. CASE c \in NoBytes \cup {"torn"}
    BY <1>1, <1>2, <2>1, <2>5, <2>7, PromiseActions, PromiseNext DEF c
  <2> QED
    BY <2>4, <2>6, <2>7 DEF c
<1>4. CASE ~Busy
  <2>1. \A g \in Files : CopyOf(g)' = CopyOf(g)
    BY <1>1, <1>2, <1>4, CopyReads, CopyReadsThen
  <2>2. CopyNow' = CopyNow
    BY <2>1 DEF CopyNow
  <2> QED
    BY <1>1, <1>2, <2>2, PromiseNext
<1> QED
  BY <1>3, <1>4

\* What is offered is what the remote has had since a run began.
LEMMA OfferPromise ==
  ASSUME ContentInv, SeenTypes', Run \/ RemoteChanges
  PROVE  [Promise!Next]_(Promise!vars)
<1>1. kills' = kills /\ UNCHANGED <<perm, local>>
  BY DEF Run, RemoteChanges, diskVars, planVars
<1>2. \A f \in Files : CopyOf(f)' = CopyOf(f)
  <2>1. CASE Run
    <3>1. ~Busy /\ ~Busy'
      BY <2>1 DEF Run, Begin, Busy
    <3> QED
      BY <1>1, <3>1, CopyReads, CopyReadsThen
  <2>2. CASE RemoteChanges
    <3>1. UNCHANGED <<pc, err, call>>
      BY <2>2 DEF RemoteChanges, callVars
    <3> QED
      BY <1>1, <3>1, CopyReads, CopyReadsThen DEF Busy
  <2> QED
    BY <2>1, <2>2
<1>3. CopyNow' = CopyNow /\ StuckNow' = StuckNow
  BY <1>1, <1>2 DEF CopyNow, StuckNow
<1>4. OfferedNow' \in [Files -> SUBSET Versions]
  BY DEF OfferedNow, SeenTypes
<1> QED
  BY <1>1, <1>3, <1>4, PromiseNext

LEMMA PromiseStep == ContentInv /\ ContentInv' /\ [Next]_vars => [Promise!Next]_(Promise!vars)
<1> SUFFICES ASSUME ContentInv, ContentInv', [Next]_vars PROVE [Promise!Next]_(Promise!vars)
  OBVIOUS
<1>1. CASE \/ Connect \/ Request \/ ReadHead \/ Retry \/ TakeListing \/ TakeEntry \/ PullEnds
           \/ GiveUp \/ Answer \/ SendByte \/ CloseIdle \/ CutAnswer \/ TimePasses \/ UNCHANGED vars
  BY <1>1, QuietSteps
<1>2. CASE CopyRead \/ WriteFails
  BY <1>2, CopyReadPromise, WriteFailsPromise
<1>3. CASE CreateFile \/ FileDone \/ Discard \/ Kill
  BY <1>3, CreateFilePromise, FileDonePromise, DiscardPromise, KillPromise
<1>4. CASE Run \/ RemoteChanges
  BY <1>4, OfferPromise DEF ContentInv
<1> QED
  BY <1>1, <1>2, <1>3, <1>4 DEF Next, Client, Environment

LEMMA PromiseInit == Init => Promise!Init
<1> SUFFICES ASSUME Init PROVE Promise!Init
  OBVIOUS
<1>1. OfferedNow \in [Files -> SUBSET Versions]
  <2>1. SeenTypes
    BY ContentInit DEF ContentInv
  <2> QED
    BY <2>1 DEF OfferedNow, SeenTypes
<1>2. CopyNow \in [Files -> {"absent", "own"}]
  <2>1. ~Busy /\ \A f \in Files : local[f] \in {None, OwnBytes}
    BY DEF Init, Busy
  <2>2. \A f \in Files : CopyOf(f) \in {"absent", "own"}
    BY <2>1, CopyReads DEF Reads
  <2> QED
    BY <2>2 DEF CopyNow
<1>3. StuckNow \in SUBSET Files /\ kills = 0
  BY DEF StuckNow, Init
<1> QED
  BY <1>1, <1>2, <1>3 DEF Promise!Init, OfferedNow, CopyNow, StuckNow

\* A pull leaves each file as it is, removes it, or makes it one whole version that the remote has
\* had since the pull began; only a kill, or a directory that lets nothing be removed, leaves a
\* part of a version (src/README.md, the guarantees of the client; fetch_file and discard).
THEOREM PullKeepsItsPromise == Spec => KeepsPromise
<1>1. Spec => []ContentInv
  BY ContentInit, ContentNext, PTL DEF Spec
<1> QED
  BY <1>1, PromiseInit, PromiseStep, PTL DEF Spec, KeepsPromise, Promise!Spec

-----------------------------------------------------------------------------
(* What a pull of a tree brings. *)

\* A listing of a directory tells of whatever has been there all along, and of a file the size of a
\* version that it has had.
Tells(x, d, sn) ==
  /\ IsSeq(x)
  /\ \A n \in Tree[d] :
       \/ None \in sn[n]
       \/ \E i \in 1..Len(x) :
            /\ x[i].node = n
            /\ n \in Files => \E v \in sn[n] \ {None} : x[i].size = Size[v]
AllTell(s, d, sn) == \A i \in 1..Len(s) : Tells(s[i].x, d, sn)

SeenAll ==
  /\ \A n \in Nodes : remote[n] \in seen[n]
  /\ \A d \in Dirs : None \in seen[d] => d \in Leaves

HeadListed ==
  conn.wire # <<>> /\ GoesOn(conn.wire[1]) =>
    /\ call.node \in Dirs
    /\ AllTell(Tail(conn.wire), call.node, seen) /\ AllTell(conn.sending, call.node, seen)

BodyListed ==
  call.node \in Dirs /\ AllTell(conn.wire, call.node, seen) /\ AllTell(conn.sending, call.node, seen)

\* What comes in answer to a listing's request is a listing.
Listed == call.op = "list" => (pc = "head" => HeadListed) /\ (pc = "body" => BodyListed)

\* What a file below the target is to the pull: not its concern, there, in the entries to come or
\* below one, or what the request is for.
Exempt(f) == f \in warned \/ None \in seen[f] \/ \E d \in Leaves : None \in seen[d]
Done(f) == local[f] # None /\ \E v \in Offered(f) : Len(local[f]) = Size[v]
Leads(e, f, sn) ==
  \/ e.node = f /\ \E v \in sn[f] \ {None} : e.size = Size[v]
  \/ e.node \in Dirs /\ f \in Below(e.node)
Ahead(f) == pc # "ended" /\ \E i \in 1..Len(todo) : Leads(todo[i], f, seen)
Asked(f) ==
  /\ pc \notin {"take", "ended"}
  /\ \/ call.op = "pull" /\ call.node = f
     \/ call.op = "list" /\ f \in Below(call.node)

\* A pull of a tree that may still end well.
OfTree ==
  /\ pc # "off" /\ ~(call.top /\ call.op = "pull")
  /\ pc = "ended" => code = "ok"
  /\ pc = "failed" => err.from # "mkdir"

\* The inductive invariant: as long as the pull may end well, no file below the target is lost
\* sight of.
Covered ==
  OfTree => \A f \in Below(target) : Exempt(f) \/ Done(f) \/ Ahead(f) \/ Asked(f)

\* Entries are taken of a tree, and only what is pulled is created.
Stages ==
  /\ pc = "take" => ~(call.top /\ call.op = "pull")
  /\ pc = "failed" /\ err.from = "create" => call.op = "pull"

DeliveryInv == ContentInv /\ SeenAll /\ Listed /\ Stages /\ IsSeq(todo) /\ Covered

\* Every element of a finite set is in its sequence.
LEMMA SetSeq ==
  ASSUME NEW S, IsFiniteSet(S)
  PROVE  SetToSeq(S) \in Seq(S) /\ \A n \in S : \E i \in 1..Len(SetToSeq(S)) : SetToSeq(S)[i] = n
<1> DEFINE m == Cardinality(S)
<1>1. m \in Nat /\ ExistsBijection(1..m, S)
  BY FS_CardinalityType
<1>2. PICK g : g \in Bijection(1..m, S)
  BY <1>1 DEF ExistsBijection
<1>3. g \in [1..m -> S] /\ IsInjective(g)
  BY <1>2 DEF Bijection, Injection, Surjection, IsInjective
<1>4. PICK s : s = SetToSeq(S)
  OBVIOUS
<1>5. s \in [1..m -> S] /\ IsInjective(s)
  BY <1>3, <1>4 DEF SetToSeq
<1>6. s \in Injection(1..m, S)
  BY <1>5 DEF Injection, IsInjective
<1>7. IsFiniteSet(1..m) /\ Cardinality(1..m) = m
  BY <1>1, FS_Interval
<1>8. s \in Surjection(1..m, S)
  BY <1>6, <1>7, FS_Injection
<1>9. s \in Seq(S) /\ Len(s) = m
  BY <1>1, <1>5
<1> QED
  BY <1>4, <1>8, <1>9 DEF Surjection

\* A listing tells of the directory it is of.
LEMMA ListingTells ==
  ASSUME SeenAll, NEW d \in Dirs
  PROVE  Tells(Listing(d), d, seen)
<1> DEFINE S == {n \in Tree[d] : remote[n] # None}
           Row(n) == [node |-> n, size |-> IF n \in Dirs THEN None ELSE Size[remote[n]]]
<1>1. Tree[d] \subseteq Nodes /\ IsFiniteSet(Tree[d])
  BY TreeAssumption
<1>2. IsFiniteSet(S)
  BY <1>1, FS_Subset
<1>3. PICK s : s = SetToSeq(S)
  OBVIOUS
<1>4. s \in Seq(S) /\ \A n \in S : \E i \in 1..Len(s) : s[i] = n
  BY <1>2, <1>3, SetSeq
<1>5. PICK x : x = Listing(d)
  OBVIOUS
<1>6. x = [i \in 1..Len(s) |-> Row(s[i])]
  BY <1>3, <1>4, <1>5 DEF Listing
<1>7. x \in Seq({Row(n) : n \in S}) /\ Len(x) = Len(s)
  BY <1>4, <1>6
<1>8. IsSeq(x)
  BY <1>7 DEF IsSeq
<1>9. ASSUME NEW n \in Tree[d], None \notin seen[n]
      PROVE  \E i \in 1..Len(x) :
               /\ x[i].node = n
               /\ n \in Files => \E v \in seen[n] \ {None} : x[i].size = Size[v]
  <2>1. remote[n] \in seen[n] /\ remote[n] # None
    BY <1>1, <1>9 DEF SeenAll
  <2>2. PICK i \in 1..Len(s) : s[i] = n
    BY <1>4, <2>1
  <2>3. x[i] = Row(n)
    BY <1>6, <2>2
  <2>4. x[i].node = n
    BY <2>3
  <2>5. n \in Files => x[i].size = Size[remote[n]]
    BY <2>3, TreeAssumption
  <2> QED
    BY <1>7, <2>1, <2>2, <2>4, <2>5
<1> QED
  BY <1>5, <1>8, <1>9 DEF Tells

\* A listing that told what was seen tells it still.
LEMMA TellsStill ==
  ASSUME NEW sn, NEW tn, \A n \in Nodes : sn[n] \subseteq tn[n], NEW d \in Dirs,
         NEW s, AllTell(s, d, sn)
  PROVE  AllTell(s, d, tn)
<1>1. Tree[d] \subseteq Nodes
  BY TreeAssumption
<1> SUFFICES ASSUME NEW x, Tells(x, d, sn) PROVE Tells(x, d, tn)
  BY DEF AllTell
<1>2. ASSUME NEW n \in Tree[d], None \notin tn[n]
      PROVE  \E i \in 1..Len(x) :
               /\ x[i].node = n
               /\ n \in Files => \E v \in tn[n] \ {None} : x[i].size = Size[v]
  <2>1. sn[n] \subseteq tn[n]
    BY <1>1
  <2>2. PICK i \in 1..Len(x) :
          /\ x[i].node = n
          /\ n \in Files => \E v \in sn[n] \ {None} : x[i].size = Size[v]
    BY <1>2, <2>1 DEF Tells
  <2> QED
    BY <2>1, <2>2
<1> QED
  BY <1>2 DEF Tells

\* What is below a directory is in it or below a directory in it.
LEMMA BelowFirst ==
  ASSUME NEW d \in Dirs, NEW f \in Below(d)
  PROVE  f \in Files /\ \E n \in Tree[d] : n = f \/ (n \in Dirs /\ f \in Below(n))
<1>1. PICK under \in [Dirs -> SUBSET Files] :
        /\ f \in under[d]
        /\ \A e \in Dirs : \A g \in under[e] :
             \E n \in Tree[e] : n = g \/ (n \in Dirs /\ g \in under[n])
  BY DEF Below
<1>2. f \in Files
  BY DEF Below
<1>3. PICK n \in Tree[d] : n = f \/ (n \in Dirs /\ f \in under[n])
  BY <1>1
<1>4. n \in Dirs /\ f \in under[n] => f \in Below(n)
  BY <1>1, <1>2 DEF Below
<1> QED
  BY <1>2, <1>3, <1>4

\* What was seen stays seen, but for a new run, which sees what there is.
LEMMA SeenGrows ==
  ASSUME SeenAll, RemoteTypes, Client \/ Environment \/ UNCHANGED vars
  PROVE  SeenAll' /\ \A n \in Nodes : seen[n] \subseteq seen'[n]
<1>1. CASE UNCHANGED <<remote, seen>>
  BY <1>1 DEF SeenAll
<1>2. CASE RemoteChanges
  <2>1. seen' = [n \in Nodes |-> seen[n] \cup {remote'[n]}]
    BY <1>2 DEF RemoteChanges
  <2>2. \A d \in Dirs : d \in Nodes /\ d \notin Files
    BY TreeAssumption DEF Nodes
  <2>3. \A d \in Dirs : remote'[d] = remote[d] \/ d \in Leaves
    <3>1. CASE \E f \in Files : \E v : remote' = [remote EXCEPT ![f] = v]
      BY <2>2, <3>1 DEF RemoteTypes
    <3>2. CASE \E e \in Leaves :
                 remote' = [n \in Nodes |-> IF n = e \/ n \in Tree[e] THEN None ELSE remote[n]]
      <4>1. PICK e \in Leaves :
              remote' = [n \in Nodes |-> IF n = e \/ n \in Tree[e] THEN None ELSE remote[n]]
        BY <3>2
      <4>2. Tree[e] \subseteq Files
        BY TreeAssumption
      <4> QED
        BY <2>2, <4>1, <4>2
    <3> QED
      BY <1>2, <3>1, <3>2 DEF RemoteChanges
  <2>4. \A d \in Dirs : None \in seen'[d] => d \in Leaves
    BY <2>1, <2>2, <2>3 DEF SeenAll
  <2> QED
    BY <2>1, <2>4 DEF SeenAll
<1>3. CASE Answer \/ SendByte \/ CloseIdle \/ CutAnswer \/ TimePasses \/ UNCHANGED vars
  BY <1>1, <1>3 DEF Answer, SendByte, CloseIdle, CutAnswer, TimePasses, ServerStep, vars, remoteVars
<1>4. CASE Connect \/ Request \/ ReadHead \/ Retry \/ TakeListing \/ TakeEntry \/ PullEnds
  BY <1>1, <1>4 DEF Connect, Request, ReadHead, Retry, TakeListing, TakeEntry, PullEnds,
                    TransportStep, remoteVars
<1>5. CASE \/ CreateFile \/ CopyRead \/ FileDone \/ GiveUp \/ WriteFails \/ Kill \/ Discard
  BY <1>1, <1>5 DEF CreateFile, CopyRead, FileDone, GiveUp, LeaveRequest, WriteFails, Kill, Discard,
                    FileStep, remoteVars
<1> QED
  BY <1>2, <1>3, <1>4, <1>5 DEF Client, Environment

LEMMA RunSees ==
  ASSUME SeenAll, RemoteTypes, Run
  PROVE  SeenAll'
<1>1. seen' = [n \in Nodes |-> {remote[n]}] /\ remote' = remote
  BY DEF Run
<1>2. Dirs \subseteq Nodes
  BY DEF Nodes
<1> QED
  BY <1>1, <1>2 DEF SeenAll

\* A listing's request stays the same, and so does its connection.
LEMMA ListedKept ==
  ASSUME Listed, UNCHANGED <<pc, call, conn>>, \A n \in Nodes : seen[n] \subseteq seen'[n]
  PROVE  Listed'
<1>1. pc = "head" /\ call.op = "list" => HeadListed'
  <2> SUFFICES ASSUME pc = "head", call.op = "list", conn.wire # <<>>, GoesOn(conn.wire[1])
               PROVE  HeadListed'
    BY DEF HeadListed, GoesOn
  <2>1. PICK w, s, d : w = Tail(conn.wire) /\ s = conn.sending /\ d = call.node
    OBVIOUS
  <2>2. d \in Dirs /\ AllTell(w, d, seen) /\ AllTell(s, d, seen)
    BY <2>1 DEF Listed, HeadListed
  <2>3. AllTell(w, d, seen') /\ AllTell(s, d, seen')
    BY <2>2, TellsStill
  <2> QED
    BY <2>1, <2>2, <2>3 DEF HeadListed
<1>2. pc = "body" /\ call.op = "list" => BodyListed'
  <2> SUFFICES ASSUME pc = "body", call.op = "list" PROVE BodyListed'
    OBVIOUS
  <2>1. PICK w, s, d : w = conn.wire /\ s = conn.sending /\ d = call.node
    OBVIOUS
  <2>2. d \in Dirs /\ AllTell(w, d, seen) /\ AllTell(s, d, seen)
    BY <2>1 DEF Listed, BodyListed
  <2>3. AllTell(w, d, seen') /\ AllTell(s, d, seen')
    BY <2>2, TellsStill
  <2> QED
    BY <2>1, <2>2, <2>3 DEF BodyListed
<1> QED
  BY <1>1, <1>2 DEF Listed

\* Nothing is being listed.
LEMMA NothingListed ==
  ASSUME pc' \notin {"head", "body"}
  PROVE  Listed'
BY DEF Listed

\* A step of the server or of the network.
LEMMA ServerListed ==
  ASSUME ServerStep,
         pc = "head" /\ call.op = "list" => HeadListed',
         pc = "body" /\ call.op = "list" => BodyListed'
  PROVE  Listed'
BY DEF ServerStep, callVars, Listed

LEMMA AllTellNothing ==
  ASSUME NEW d, NEW sn
  PROVE  AllTell(<<>>, d, sn)
BY DEF AllTell

LEMMA AllTellRest ==
  ASSUME NEW s, IsSeq(s), s # <<>>, NEW d, NEW sn, AllTell(s, d, sn)
  PROVE  AllTell(Tail(s), d, sn) /\ Tells(Head(s).x, d, sn)
<1>1. /\ Len(Tail(s)) = Len(s) - 1 /\ Head(s) = s[1] /\ Len(s) \in Nat /\ Len(s) # 0
      /\ \A i \in 1..Len(s) - 1 : Tail(s)[i] = s[i + 1]
  BY SeqTail, SeqLen
<1>2. \A i \in 1..Len(s) - 1 : i + 1 \in 1..Len(s)
  BY <1>1
<1>3. 1 \in 1..Len(s)
  BY <1>1
<1> QED
  BY <1>1, <1>2, <1>3 DEF AllTell

LEMMA AllTellMore ==
  ASSUME NEW s, IsSeq(s), NEW d, NEW sn, AllTell(s, d, sn), NEW t, Tells(t.x, d, sn)
  PROVE  AllTell(Append(s, t), d, sn)
<1>1. /\ Len(Append(s, t)) = Len(s) + 1 /\ Len(s) \in Nat
      /\ \A i \in 1..Len(s) : Append(s, t)[i] = s[i]
      /\ Append(s, t)[Len(s) + 1] = t
  BY SeqAppend, SeqLen
<1> QED
  BY <1>1 DEF AllTell

LEMMA DropsListed ==
  ASSUME ContentInv, Listed, Up, ServerStep,
         \/ conn'.wire = conn.wire /\ conn'.sending = conn.sending
         \/ conn'.wire = conn.wire /\ conn'.sending = <<>>
         \/ conn'.wire = <<>> /\ conn'.sending = <<>>
  PROVE  Listed'
<1>1. UNCHANGED <<seen, pc, call>>
  BY ServerFacts
<1>2. pc = "head" /\ call.op = "list" => HeadListed'
  BY <1>1, AllTellNothing DEF Listed, HeadListed, GoesOn
<1>3. pc = "body" /\ call.op = "list" => BodyListed'
  BY <1>1, AllTellNothing DEF Listed, BodyListed
<1> QED
  BY <1>2, <1>3, ServerListed

LEMMA CloseIdleListed == ASSUME ContentInv, Listed, CloseIdle PROVE Listed'
<1>1. Up /\ ServerStep
  BY DEF CloseIdle
<1>2. conn'.wire = conn.wire /\ conn'.sending = conn.sending
  <2>1. PICK st \in {"eof", "reset"} : conn' = [conn EXCEPT !.state = st, !.asked = <<>>]
    BY DEF CloseIdle
  <2> QED
    BY <1>1, <2>1, ServerFacts, ConnSame
<1> QED
  BY <1>1, <1>2, DropsListed

LEMMA TimePassesListed == ASSUME ContentInv, Listed, TimePasses PROVE Listed'
<1>1. Up /\ ServerStep /\ conn' = [conn EXCEPT !.state = "slow"]
  BY DEF TimePasses, Up
<1>2. conn'.wire = conn.wire /\ conn'.sending = conn.sending
  BY <1>1, ServerFacts, ConnSame
<1> QED
  BY <1>1, <1>2, DropsListed

LEMMA SendByteListed == ASSUME ContentInv, Listed, SendByte PROVE Listed'
<1> DEFINE wire == Append(conn.wire, Head(conn.sending))
           sending == Tail(conn.sending)
<1>1. Up /\ ServerStep /\ conn.sending # <<>>
  BY DEF SendByte
<1>2. /\ Good(conn) /\ IsConn(conn) /\ IsSeq(conn.wire) /\ IsSeq(conn.sending)
      /\ UNCHANGED <<seen, pc, call>>
  BY <1>1, ServerFacts
<1>3. conn'.wire = wire /\ conn'.sending = sending
  <2>1. conn' = [conn EXCEPT !.wire = wire, !.sending = sending]
    BY DEF SendByte
  <2> HIDE DEF wire, sending
  <2> QED
    BY <1>2, <2>1, ConnSame
<1>4. PICK w, s, d, sn : w = conn.wire /\ s = conn.sending /\ d = call.node /\ sn = seen
  OBVIOUS
<1>5. IsSeq(w) /\ IsSeq(s) /\ s # <<>>
  BY <1>1, <1>2, <1>4
<1>6. pc = "head" /\ call.op = "list" => HeadListed'
  <2> SUFFICES ASSUME pc = "head", call.op = "list" PROVE HeadListed'
    OBVIOUS
  <2>1. w # <<>>
    BY <1>1, <1>2, <1>4 DEF Good, AtHead, Empty
  <2>2. /\ Len(w) \in Nat /\ Len(w) # 0
        /\ Append(w, Head(s))[1] = w[1] /\ Tail(Append(w, Head(s))) = Append(Tail(w), Head(s))
    <3>1. PICK S : w \in Seq(S)
      BY <1>5 DEF IsSeq
    <3>2. PICK h : h = Head(s)
      OBVIOUS
    <3>3. w \in Seq(S \cup {h}) /\ h \in S \cup {h}
      BY <3>1, SeqGrows
    <3> QED
      BY <2>1, <3>2, <3>3
  <2>3. /\ IsSeq(Tail(w))
        /\ GoesOn(w[1]) => d \in Dirs /\ AllTell(Tail(w), d, sn) /\ AllTell(s, d, sn)
    BY <1>4, <1>5, <2>1, SeqTail DEF Listed, HeadListed
  <2>4. GoesOn(w[1]) =>
          d \in Dirs /\ AllTell(Append(Tail(w), Head(s)), d, sn) /\ AllTell(Tail(s), d, sn)
    BY <1>5, <2>3, AllTellRest, AllTellMore
  <2>5. /\ Tail(conn'.wire) = Append(Tail(w), Head(s)) /\ conn'.wire[1] = w[1]
        /\ conn'.sending = Tail(s)
    BY <1>3, <1>4, <2>2
  <2>6. GoesOn(conn'.wire[1]) =>
          d \in Dirs /\ AllTell(Tail(conn'.wire), d, sn) /\ AllTell(conn'.sending, d, sn)
    BY <2>4, <2>5, Zenon
  <2>7. call'.node = d /\ seen' = sn
    BY <1>2, <1>4
  <2> QED
    BY <2>6, <2>7, Zenon DEF HeadListed, GoesOn
<1>7. pc = "body" /\ call.op = "list" => BodyListed'
  <2> SUFFICES ASSUME pc = "body", call.op = "list" PROVE BodyListed'
    OBVIOUS
  <2>1. d \in Dirs /\ AllTell(w, d, sn) /\ AllTell(s, d, sn)
    BY <1>4 DEF Listed, BodyListed
  <2>2. AllTell(Append(w, Head(s)), d, sn) /\ AllTell(Tail(s), d, sn)
    BY <1>5, <2>1, AllTellRest, AllTellMore
  <2> QED
    BY <1>2, <1>3, <1>4, <2>1, <2>2 DEF BodyListed
<1> QED
  BY <1>1, <1>6, <1>7, ServerListed

\* What answers a listing's request well is the listing of a directory.
LEMMA AnswerTells ==
  ASSUME Inv, SeenAll, call.op = "list", Response(call).status = 200
  PROVE  /\ call.node \in Dirs /\ Len(Response(call).body) = 1
         /\ Tells(Response(call).body[1], call.node, seen)
<1>1. call.node \in Dirs /\ Response(call).body = <<Listing(call.node)>>
  BY DEF Response
<1>2. Tells(Listing(call.node), call.node, seen)
  BY <1>1, ListingTells
<1>3. PICK x : x = Listing(call.node)
  OBVIOUS
<1>4. Len(<<x>>) = 1 /\ <<x>>[1] = x
  OBVIOUS
<1> QED
  BY <1>1, <1>2, <1>3, <1>4

LEMMA AnswerListed == ASSUME ContentInv, SeenAll, Listed, Answer PROVE Listed'
<1> DEFINE r == Response(call)
           wire == Append(conn.wire, WholeHead(call, r))
           sending == [i \in DOMAIN r.body |-> Token(call, "data", r.body[i])]
<1>1. /\ Up /\ conn # NoConn /\ conn.asked # <<>> /\ ServerStep
  BY DEF Answer, Up, NoConn, NewConn
<1>2. /\ IsConn(conn) /\ UNCHANGED <<seen, pc, call>>
  BY <1>1, ServerFacts
<1>3. /\ Head(conn.asked) = call /\ pc \notin {"take", "acquire", "body", "copy"}
      /\ pc = "head" => conn.wire = <<>>
  BY <1>1, RequestOnItsWay DEF ContentInv
<1>4. conn' = [conn EXCEPT !.asked = Tail(@), !.used = TRUE, !.wire = wire, !.sending = sending]
  BY <1>3 DEF Answer
<1>5. pc = "head" /\ call.op = "list" => HeadListed'
  <2> SUFFICES ASSUME pc = "head", call.op = "list" PROVE HeadListed'
    OBVIOUS
  <2>1. IsSeq(r.body)
    BY ResponseFacts DEF ContentInv, Inv
  <2>2. \A x : Append(<<>>, x)[1] = x /\ Tail(Append(<<>>, x)) = <<>>
    OBVIOUS
  <2>3. wire[1] = WholeHead(call, r) /\ Tail(wire) = <<>>
    <3> HIDE DEF r
    <3> QED
      BY <1>3, <2>2
  <2>4. wire[1].x.status = r.status
    BY <2>3 DEF WholeHead, Token
  <2>5. r.status = 200 => call.node \in Dirs /\ AllTell(sending, call.node, seen)
    <3> SUFFICES ASSUME r.status = 200
                 PROVE  call.node \in Dirs /\ AllTell(sending, call.node, seen)
      OBVIOUS
    <3>1. call.node \in Dirs /\ Len(r.body) = 1 /\ Tells(r.body[1], call.node, seen)
      BY AnswerTells DEF ContentInv
    <3>2. DOMAIN r.body = 1..1
      BY <2>1, <3>1 DEF IsSeq
    <3>3. sending = [i \in 1..1 |-> Token(call, "data", r.body[i])]
      BY <3>2
    <3> HIDE DEF r, sending
    <3>4. Len(sending) = 1
      BY <3>3
    <3>5. sending[1].x = r.body[1]
      BY <3>3 DEF Token
    <3>6. \A i \in 1..1 : i = 1
      OBVIOUS
    <3> QED
      BY <3>1, <3>4, <3>5, <3>6 DEF AllTell
  <2> HIDE DEF r, wire, sending
  <2>6. conn'.wire = wire /\ conn'.sending = sending
    BY <1>2, <1>4, ConnSame
  <2>7. GoesOn(conn'.wire[1]) =>
          call.node \in Dirs /\ AllTell(Tail(conn'.wire), call.node, seen)
          /\ AllTell(conn'.sending, call.node, seen)
    <3>1. Tail(conn'.wire) = <<>> /\ (GoesOn(conn'.wire[1]) => r.status = 200)
      BY <2>3, <2>4, <2>6 DEF GoesOn
    <3>2. AllTell(<<>>, call.node, seen)
      BY AllTellNothing
    <3> QED
      BY <2>5, <2>6, <3>1, <3>2
  <2> QED
    BY <1>2, <2>7, Zenon DEF HeadListed, GoesOn
<1> QED
  BY <1>1, <1>3, <1>5, ServerListed

LEMMA CutAnswerListed == ASSUME ContentInv, SeenAll, Listed, CutAnswer PROVE Listed'
<1>1. Up /\ conn # NoConn /\ ServerStep
  BY DEF CutAnswer, Up, NoConn, NewConn
<1>2. Good(conn) /\ IsConn(conn) /\ UNCHANGED <<seen, pc, call>>
  BY <1>1, ServerFacts
<1>3. CASE conn' = [conn EXCEPT !.asked = <<>>, !.sending = <<>>, !.state = "eof"]
  <2>1. conn'.wire = conn.wire /\ conn'.sending = <<>>
    BY <1>2, <1>3, ConnEmptied
  <2> QED
    BY <1>1, <2>1, DropsListed
<1>4. CASE conn' = [conn EXCEPT !.asked = <<>>, !.sending = <<>>, !.wire = <<>>, !.state = "reset"]
  <2>1. conn'.wire = <<>> /\ conn'.sending = <<>>
    BY <1>2, <1>4, ConnEmptied
  <2> QED
    BY <1>1, <2>1, DropsListed
<1>5. CASE /\ conn.asked # <<>> /\ conn.sending = <<>>
           /\ \E h \in CutHeads(Head(conn.asked), Response(Head(conn.asked))) :
                conn' = [conn EXCEPT !.asked = <<>>, !.wire = Append(@, h), !.state = "eof"]
  <2> DEFINE r == Response(call)
  <2>1. /\ Head(conn.asked) = call /\ pc \notin {"take", "acquire", "body", "copy"}
        /\ pc = "head" => conn.wire = <<>>
    BY <1>1, <1>5, RequestOnItsWay DEF ContentInv
  <2>2. PICK h \in CutHeads(call, r) :
          conn' = [conn EXCEPT !.asked = <<>>, !.wire = Append(@, h), !.state = "eof"]
    BY <1>5, <2>1
  <2>3. conn'.wire = Append(conn.wire, h) /\ conn'.sending = <<>>
    <3>1. PICK T : conn \in Conns(T)
      BY <1>2 DEF IsConn
    <3> QED
      BY <1>5, <2>2, <3>1 DEF Conns
  <2>4. GoesOn(h) => r.status = 200
    <3>1. CASE \E st \in {r.status, 20, None} : h = Token(call, "head", [status |-> st, len |-> None])
      BY <3>1 DEF Token, GoesOn
    <3>2. CASE \E l \in (1..Len(r.body)) \cup {Len(r.body), NoNumber} :
                  h = Token(call, "head", [status |-> r.status, len |-> l])
      BY <3>2 DEF Token, GoesOn
    <3> QED
      BY <2>2, <3>1, <3>2 DEF CutHeads
  <2>5. pc = "head" /\ call.op = "list" => HeadListed'
    <3> SUFFICES ASSUME pc = "head", call.op = "list" PROVE HeadListed'
      OBVIOUS
    <3>1. \A x : Append(<<>>, x)[1] = x /\ Tail(Append(<<>>, x)) = <<>>
      OBVIOUS
    <3>2. conn'.wire[1] = h /\ Tail(conn'.wire) = <<>>
      BY <2>1, <2>3, <3>1
    <3>3. AllTell(<<>>, call.node, seen)
      BY AllTellNothing
    <3>4. GoesOn(conn'.wire[1]) => call.node \in Dirs
      BY <2>4, <3>2, AnswerTells DEF ContentInv
    <3> QED
      BY <1>2, <2>3, <3>2, <3>3, <3>4, Zenon DEF HeadListed, GoesOn
  <2> QED
    BY <1>1, <2>1, <2>5, ServerListed
<1> QED
  BY <1>3, <1>4, <1>5 DEF CutAnswer

LEMMA RequestListed == ASSUME ContentInv, Request PROVE Listed'
<1>1. pc = "acquire" /\ conn # NoConn
  BY DEF Request
<1>2. IsConn(conn) /\ Empty(conn)
  BY <1>1, ConnIsGood DEF Good, ContentInv
<1>3. CASE pc' = "failed"
  BY <1>3, NothingListed
<1>4. CASE pc' = "head" /\ conn' = [conn EXCEPT !.asked = IF Up THEN Append(@, call) ELSE @]
  <2>1. PICK a : a = IF Up THEN Append(conn.asked, call) ELSE conn.asked
    OBVIOUS
  <2>2. conn' = [conn EXCEPT !.asked = a]
    BY <1>4, <2>1
  <2>3. PICK T : conn \in Conns(T)
    BY <1>2 DEF IsConn
  <2>4. conn'.wire = conn.wire
    BY <2>2, <2>3 DEF Conns
  <2>5. conn'.wire = <<>>
    BY <1>2, <2>4 DEF Empty
  <2> QED
    BY <1>4, <2>5 DEF Listed, HeadListed
<1> QED
  BY <1>3, <1>4 DEF Request, Failed

LEMMA ReadHeadListed == ASSUME ContentInv, Listed, ReadHead PROVE Listed'
<1>1. pc = "head" /\ UNCHANGED <<seen, call>>
  BY DEF ReadHead, remoteVars
<1>2. Good(conn) /\ IsConn(conn) /\ IsSeq(conn.wire)
  BY <1>1, ConnIsGood, ConnParts DEF ContentInv
<1>3. CASE pc' = "failed"
  BY <1>3, NothingListed
<1>4. CASE /\ pc' = "body" /\ conn.wire # <<>> /\ GoesOn(conn.wire[1])
           /\ conn' = [conn EXCEPT !.wire = Tail(@)]
  <2>1. IsSeq(Tail(conn.wire))
    BY <1>2, <1>4, SeqTail
  <2>2. conn'.wire = Tail(conn.wire) /\ conn'.sending = conn.sending
    BY <1>2, <1>4, <2>1, WireTaken
  <2>3. call.op = "list" => /\ call.node \in Dirs
                            /\ AllTell(Tail(conn.wire), call.node, seen)
                            /\ AllTell(conn.sending, call.node, seen)
    BY <1>1, <1>4 DEF Listed, HeadListed
  <2> QED
    BY <1>1, <1>4, <2>2, <2>3, Zenon DEF Listed, BodyListed
<1>5. conn.wire # <<>> => Head(conn.wire) = conn.wire[1]
  BY <1>2, SeqTail
<1> QED
  BY <1>3, <1>4, <1>5 DEF ReadHead, Drained, Failed, GoesOn

LEMMA ListedNext == ASSUME ContentInv, SeenAll, SeenAll', Listed, [Next]_vars PROVE Listed'
<1>1. RemoteTypes
  BY DEF ContentInv, Inv
<1>2. CASE Answer \/ SendByte \/ CloseIdle \/ CutAnswer \/ TimePasses
  BY <1>2, AnswerListed, SendByteListed, CloseIdleListed, CutAnswerListed, TimePassesListed
<1>3. CASE Request \/ ReadHead
  BY <1>3, RequestListed, ReadHeadListed
<1>4. CASE RemoteChanges \/ UNCHANGED vars
  <2>1. UNCHANGED <<pc, call, conn>>
    BY <1>4 DEF RemoteChanges, callVars, vars
  <2> QED
    BY <1>1, <1>4, <2>1, SeenGrows, ListedKept DEF Environment
<1>5. CASE Run \/ Connect \/ Retry \/ TakeEntry \/ PullEnds
  <2>1. pc' \notin {"head", "body"}
    BY <1>5 DEF Run, Connect, Retry, TakeEntry, PullEnds, Begin, Failed, callVars
  <2> QED
    BY <2>1, NothingListed
<1>6. CASE TakeListing \/ CreateFile \/ CopyRead \/ FileDone \/ Discard
  <2>1. pc' \notin {"head", "body"}
    BY <1>6 DEF TakeListing, CreateFile, CopyRead, FileDone, Discard, BodyFails, Failed
  <2> QED
    BY <2>1, NothingListed
<1>7. CASE GiveUp \/ WriteFails \/ Kill
  <2>1. pc' \notin {"head", "body"}
    BY <1>7 DEF GiveUp, LeaveRequest, WriteFails, Kill, Begin, Failed
  <2> QED
    BY <2>1, NothingListed
<1> QED
  BY <1>2, <1>3, <1>4, <1>5, <1>6, <1>7 DEF Next, Client, Environment

LEMMA JoinPlaces ==
  ASSUME NEW s, IsSeq(s), NEW t, IsSeq(t)
  PROVE  /\ \A i \in 1..Len(s) : (s \o t)[i] = s[i]
         /\ \A i \in 1..Len(t) : (s \o t)[Len(s) + i] = t[i]
<1>1. PICK S : s \in Seq(S)
  BY DEF IsSeq
<1>2. PICK T : t \in Seq(T)
  BY DEF IsSeq
<1>3. s \in Seq(S \cup T) /\ t \in Seq(S \cup T)
  BY <1>1, <1>2, SeqGrows
<1> QED
  BY <1>3

-----------------------------------------------------------------------------
(* No file is lost sight of. *)

LEMMA BelowAreFiles ==
  ASSUME NEW d
  PROVE  Below(d) \subseteq Files
BY DEF Below

LEMMA ExemptStill ==
  ASSUME NEW f \in Files, Exempt(f), warned \subseteq warned',
         \A n \in Nodes : seen[n] \subseteq seen'[n]
  PROVE  Exempt(f)'
<1>1. Files \subseteq Nodes /\ Leaves \subseteq Nodes
  BY TreeAssumption DEF Nodes
<1> QED
  BY <1>1 DEF Exempt

LEMMA DoneStill ==
  ASSUME NEW f \in Files, Done(f), local'[f] = local[f],
         \A n \in Nodes : seen[n] \subseteq seen'[n]
  PROVE  Done(f)'
<1>1. f \in Nodes
  BY DEF Nodes
<1>2. Offered(f) \subseteq Offered(f)'
  BY <1>1 DEF Offered
<1> QED
  BY <1>2 DEF Done

LEMMA LeadsStill ==
  ASSUME NEW f \in Files, NEW e, NEW sn, NEW tn, Leads(e, f, sn), \A n \in Nodes : sn[n] \subseteq tn[n]
  PROVE  Leads(e, f, tn)
<1>1. f \in Nodes
  BY DEF Nodes
<1>2. sn[f] \subseteq tn[f]
  BY <1>1
<1> QED
  BY <1>2 DEF Leads

LEMMA AheadStill ==
  ASSUME NEW f \in Files, Ahead(f), todo' = todo, \A n \in Nodes : seen[n] \subseteq seen'[n],
         pc' = "ended" => pc = "ended"
  PROVE  Ahead(f)'
<1>1. PICK i \in 1..Len(todo) : Leads(todo[i], f, seen)
  BY DEF Ahead
<1>2. PICK e, sn, tn : e = todo[i] /\ sn = seen /\ tn = seen'
  OBVIOUS
<1>3. Leads(e, f, tn)
  BY <1>1, <1>2, LeadsStill
<1>4. PICK j : j = i
  OBVIOUS
<1>5. j \in 1..Len(todo') /\ todo'[j] = e
  BY <1>2, <1>4
<1> QED
  BY <1>2, <1>3, <1>5 DEF Ahead

\* The request goes on, and writes at most the file it is for.
LEMMA CoveredKept ==
  ASSUME Covered, OfTree' => OfTree, UNCHANGED <<target, call, todo, warned>>,
         \A n \in Nodes : seen[n] \subseteq seen'[n],
         pc' \in {"take", "ended"} => pc' = pc,
         \A f \in Files : local'[f] = local[f] \/ Asked(f)'
  PROVE  Covered'
<1> SUFFICES ASSUME OfTree', NEW f \in Below(target)
             PROVE  Exempt(f)' \/ Done(f)' \/ Ahead(f)' \/ Asked(f)'
  BY DEF Covered
<1>1. f \in Files
  BY BelowAreFiles
<1>2. Exempt(f) \/ Done(f) \/ Ahead(f) \/ Asked(f)
  BY DEF Covered
<1>3. Exempt(f) => Exempt(f)'
  BY <1>1, ExemptStill
<1>4. Done(f) => Done(f)' \/ Asked(f)'
  BY <1>1, DoneStill
<1>5. Ahead(f) => Ahead(f)'
  BY <1>1, AheadStill
<1>6. Asked(f) => Asked(f)'
  BY DEF Asked
<1> QED
  BY <1>2, <1>3, <1>4, <1>5, <1>6

\* No tree is being pulled, or its pull cannot end well any more.
LEMMA NoTree ==
  ASSUME ~OfTree'
  PROVE  Covered'
BY DEF Covered

LEMMA RunCovered == ASSUME Run PROVE Covered'
<1>1. PICK g \in Given :
        /\ target' = g[1]
        /\ Begin(IF g[2] = "File" THEN "pull" ELSE "list", g[1], TRUE, FALSE)
  BY DEF Run
<1>2. CASE g[2] = "File"
  BY <1>1, <1>2 DEF Begin, Covered, OfTree
<1>3. CASE g[2] # "File"
  <2>1. pc' = "acquire" /\ call'.op = "list" /\ call'.node = target'
    BY <1>1, <1>3 DEF Begin
  <2> QED
    BY <2>1 DEF Covered, Asked
<1> QED
  BY <1>2, <1>3

\* A listing is taken: what is below the directory is an entry, or below one.
LEMMA TakeListingCovered ==
  ASSUME DeliveryInv, TakeListing, \A n \in Nodes : seen[n] \subseteq seen'[n]
  PROVE  Covered' /\ IsSeq(todo)'
<1>1. /\ pc = "body" /\ call.op = "list"
      /\ UNCHANGED <<target, call, warned, seen, local>>
  BY DEF TakeListing, remoteVars, diskVars
<1>2. CASE BodyFails("list") /\ todo' = todo
  <2>1. pc' = "failed" /\ OfTree
    BY <1>1, <1>2 DEF BodyFails, Failed, OfTree
  <2> QED
    BY <1>1, <1>2, <2>1, CoveredKept DEF DeliveryInv
<1>3. CASE Failed("Io", "mkdir") /\ todo' = todo
  <2>1. ~OfTree'
    BY <1>3 DEF Failed, OfTree
  <2> QED
    BY <1>3, <2>1, NoTree DEF DeliveryInv
<1>4. CASE pc' = "take" /\ conn.wire # <<>> /\ todo' = Head(conn.wire).x \o todo
  <2>1. IsSeq(conn.wire)
    BY <1>1, ConnIsGood, ConnParts DEF DeliveryInv, ContentInv
  <2>2. call.node \in Dirs /\ AllTell(conn.wire, call.node, seen)
    BY <1>1 DEF DeliveryInv, Listed, BodyListed
  <2>3. PICK x, d, t : x = Head(conn.wire).x /\ d = call.node /\ t = todo
    OBVIOUS
  <2>4. Tells(x, d, seen) /\ d \in Dirs
    BY <1>4, <2>1, <2>2, <2>3, AllTellRest
  <2>5. IsSeq(x) /\ IsSeq(t) /\ IsSeq(x \o t) /\ Len(x \o t) = Len(x) + Len(t)
        /\ Len(x) \in Nat /\ Len(t) \in Nat
    BY <2>3, <2>4, SeqJoin, SeqLen DEF Tells, DeliveryInv
  <2>6. /\ \A i \in 1..Len(x) : (x \o t)[i] = x[i]
        /\ \A i \in 1..Len(t) : (x \o t)[Len(x) + i] = t[i]
    BY <2>5, JoinPlaces
  <2>7. todo' = x \o t /\ todo = t
    BY <1>4, <2>3
  <2>8. PICK u : u = x \o t
    OBVIOUS
  <2>9. todo' = u /\ Len(u) = Len(x) + Len(t)
        /\ (\A i \in 1..Len(x) : i \in 1..Len(u) /\ u[i] = x[i])
        /\ \A i \in 1..Len(t) : Len(x) + i \in 1..Len(u) /\ u[Len(x) + i] = t[i]
    BY <2>5, <2>6, <2>7, <2>8
  <2>10. Covered'
    <3> SUFFICES ASSUME NEW f \in Below(target), OfTree'
                 PROVE  Exempt(f)' \/ Done(f)' \/ Ahead(f)' \/ Asked(f)'
      BY <1>1 DEF Covered
    <3>1. OfTree
      BY <1>1, <1>4 DEF OfTree
    <3>2. f \in Files
      BY BelowAreFiles
    <3>3. Exempt(f) \/ Done(f) \/ Ahead(f) \/ Asked(f)
      BY <3>1 DEF DeliveryInv, Covered
    <3>4. Exempt(f) => Exempt(f)'
      BY <1>1, <3>2, ExemptStill
    <3>5. Done(f) => Done(f)'
      BY <1>1, <3>2, DoneStill
    <3>6. Ahead(f) => Ahead(f)'
      <4> SUFFICES ASSUME Ahead(f) PROVE Ahead(f)'
        OBVIOUS
      <4>1. PICK i \in 1..Len(t) : Leads(t[i], f, seen)
        BY <2>7 DEF Ahead
      <4>2. PICK j : j = Len(x) + i
        OBVIOUS
      <4>3. j \in 1..Len(todo') /\ todo'[j] = t[i]
        BY <2>9, <4>2
      <4> QED
        BY <1>1, <1>4, <4>1, <4>3 DEF Ahead
    <3>7. Asked(f) => Exempt(f)' \/ Ahead(f)'
      <4> SUFFICES ASSUME Asked(f), ~Exempt(f)' PROVE Ahead(f)'
        OBVIOUS
      <4>1. f \in Below(d)
        BY <1>1, <2>3 DEF Asked
      <4>2. PICK n \in Tree[d] : n = f \/ (n \in Dirs /\ f \in Below(n))
        BY <2>4, <4>1, BelowFirst
      <4>3. None \notin seen[n]
        <5>1. None \notin seen[f] /\ \A l \in Leaves : None \notin seen[l]
          BY <1>1 DEF Exempt
        <5> QED
          BY <4>2, <5>1 DEF DeliveryInv, SeenAll
      <4>4. PICK i \in 1..Len(x) :
              /\ x[i].node = n
              /\ n \in Files => \E v \in seen[n] \ {None} : x[i].size = Size[v]
        BY <2>4, <4>3 DEF Tells
      <4>5. Leads(x[i], f, seen)
        BY <3>2, <4>2, <4>4 DEF Leads
      <4>6. PICK j : j = i
        OBVIOUS
      <4>7. j \in 1..Len(todo') /\ todo'[j] = x[i]
        BY <2>9, <4>6
      <4> QED
        BY <1>1, <1>4, <4>5, <4>7 DEF Ahead
    <3> QED
      BY <3>3, <3>4, <3>5, <3>6, <3>7
  <2> QED
    BY <2>5, <2>7, <2>10
<1> QED
  BY <1>2, <1>3, <1>4 DEF TakeListing, Drained

\* An entry is taken: it is asked for, or there already.
LEMMA TakeEntryCovered ==
  ASSUME DeliveryInv, TakeEntry, \A n \in Nodes : seen[n] \subseteq seen'[n]
  PROVE  Covered' /\ IsSeq(todo)'
<1>1. /\ pc = "take" /\ todo # <<>> /\ todo' = Tail(todo)
      /\ UNCHANGED <<target, warned, seen, local>>
  BY DEF TakeEntry, remoteVars, diskVars
<1>2. PICK e, t : e = Head(todo) /\ t = todo
  OBVIOUS
<1>3. /\ IsSeq(t) /\ IsSeq(Tail(t)) /\ Len(Tail(t)) = Len(t) - 1 /\ e = t[1]
      /\ \A i \in 1..Len(t) - 1 : Tail(t)[i] = t[i + 1]
      /\ Len(t) \in Nat
  BY <1>1, <1>2, SeqTail, SeqLen DEF DeliveryInv
<1>4. \/ e.node \in Dirs /\ pc' = "acquire" /\ call' = [op |-> "list", node |-> e.node, top |-> FALSE]
      \/ e.node \in Dirs /\ pc' = "failed" /\ err'.from = "mkdir"
      \/ e.node \in Files /\ pc' = "acquire" /\ call' = [op |-> "pull", node |-> e.node, top |-> FALSE]
      \/ e.node \in Files /\ SkipExisting(e) /\ pc' = "take" /\ call' = call
  BY <1>1, <1>2 DEF TakeEntry, Begin, Failed, callVars
<1>5. Covered'
  <2> SUFFICES ASSUME NEW f \in Below(target), OfTree'
               PROVE  Exempt(f)' \/ Done(f)' \/ Ahead(f)' \/ Asked(f)'
    BY <1>1 DEF Covered
  <2>1. OfTree
    BY <1>1 DEF OfTree, DeliveryInv, Stages
  <2>2. f \in Files /\ f \notin Dirs
    BY BelowAreFiles, TreeAssumption
  <2>3. Exempt(f) \/ Done(f) \/ Ahead(f)
    BY <1>1, <2>1 DEF DeliveryInv, Covered, Asked
  <2>4. Exempt(f) => Exempt(f)'
    BY <1>1, <2>2, ExemptStill
  <2>5. Done(f) => Done(f)'
    BY <1>1, <2>2, DoneStill
  <2>6. Ahead(f) => Done(f)' \/ Ahead(f)' \/ Asked(f)'
    <3> SUFFICES ASSUME Ahead(f) PROVE Done(f)' \/ Ahead(f)' \/ Asked(f)'
      OBVIOUS
    <3>1. PICK i \in 1..Len(t) : Leads(t[i], f, seen)
      BY <1>2 DEF Ahead
    <3>2. CASE i # 1
      <4>1. PICK j : j = i - 1
        OBVIOUS
      <4>2. j \in 1..Len(t) - 1 /\ j + 1 = i
        BY <1>3, <3>2, <4>1
      <4>3. j \in 1..Len(todo') /\ todo'[j] = t[i]
        BY <1>1, <1>2, <1>3, <4>2
      <4> QED
        BY <1>1, <1>4, <3>1, <4>3 DEF Ahead
    <3>3. CASE i = 1
      <4>1. Leads(e, f, seen)
        BY <1>3, <3>1, <3>3
      <4>2. CASE e.node \in Dirs
        <5>1. f \in Below(e.node)
          BY <2>2, <4>1, <4>2 DEF Leads
        <5> QED
          BY <1>4, <4>2, <5>1, TreeAssumption DEF Asked, OfTree
      <4>3. CASE e.node \in Files
        <5>1. e.node = f /\ e.node \notin Dirs /\ \E v \in Offered(f) : e.size = Size[v]
          BY <4>1, <4>3, TreeAssumption DEF Leads, Offered
        <5>2. CASE pc' = "acquire" /\ call' = [op |-> "pull", node |-> e.node, top |-> FALSE]
          BY <5>1, <5>2 DEF Asked
        <5>3. CASE SkipExisting(e)
          <6>1. local[f] # None /\ Len(local[f]) = e.size
            BY <5>1, <5>3 DEF SkipExisting
          <6>2. Done(f)
            BY <5>1, <6>1 DEF Done
          <6> QED
            BY <1>1, <2>2, <6>2, DoneStill
        <5> QED
          BY <1>4, <5>1, <5>2, <5>3
      <4> QED
        BY <1>4, <4>2, <4>3
    <3> QED
      BY <3>2, <3>3
  <2> QED
    BY <2>3, <2>4, <2>5, <2>6
<1> QED
  BY <1>1, <1>2, <1>3, <1>5

\* What has been written of a version is not nothing.
LEMMA PartIsThere ==
  ASSUME NEW f \in Files, NEW v \in Versions, NEW s, Part(s, f, v)
  PROVE  s # None
<1>1. /\ IsSeq(s) /\ Len(s) \in Nat /\ \A i \in 1..Len(s) : s[i] = <<f, v, i>>
  BY SeqLen DEF Part
<1>2. PICK S : s \in Seq(S)
  BY <1>1 DEF IsSeq
<1> DEFINE Bytes3 == Files \X Versions \X Nat
<1>3. \A i \in 1..Len(s) : <<f, v, i>> \in Bytes3
  BY <1>1
<1> HIDE DEF Bytes3
<1>4. s \in Seq(Bytes3)
  <2>1. \A i \in 1..Len(s) : s[i] \in Bytes3
    BY <1>1, <1>3
  <2> QED
    BY <1>1, <1>2, <2>1
<1> QED
  BY <1>4, ContentAssumption DEF Bytes3

\* The length is reached, and it is that of a version.
LEMMA FileDoneCovered ==
  ASSUME DeliveryInv, FileDone, \A n \in Nodes : seen[n] \subseteq seen'[n]
  PROVE  Covered'
<1>1. /\ pc = "copy" /\ Copied = want
      /\ UNCHANGED <<target, todo, warned, seen, local, call>>
  BY DEF FileDone, remoteVars, diskVars
<1>2. call.op = "pull" /\ call.node \in Files /\ want \in Nat /\ IsSeq(conn.wire) /\ IsSeq(conn.sending)
      /\ IsSeq(local[call.node])
  BY <1>1, ConnIsGood, ConnParts DEF DeliveryInv, ContentInv, Good, AtBody, Fits
<1>3. PICK v \in Offered(call.node) : /\ Comes(conn.wire, conn.sending, call.node, v, Got, want)
                                     /\ Part(local[call.node], call.node, v)
  BY <1>1, <1>2 DEF DeliveryInv, ContentInv, Content, BodyContent
<1>4. Len(local[call.node]) = Size[v]
  <2>1. Got = want /\ Len(local[call.node]) = want
    BY <1>1 DEF Got, Copied
  <2>2. want = Size[v] \/ want + Len(conn.wire) + Len(conn.sending) < want
    BY <1>3, <2>1 DEF Comes
  <2>3. PICK m, n : m = Len(conn.wire) /\ n = Len(conn.sending)
    OBVIOUS
  <2>4. m \in Nat /\ n \in Nat
    BY <1>2, <2>3, SeqLen
  <2>5. ~(want + m + n < want)
    BY <1>2, <2>4
  <2> QED
    BY <2>1, <2>2, <2>3, <2>5
<1>5. local[call.node] # None
  BY <1>2, <1>3, OfferedIs, PartIsThere DEF DeliveryInv, ContentInv
<1>6. CASE call.top
  BY <1>1, <1>2, <1>6, NoTree DEF OfTree
<1>7. CASE ~call.top /\ pc' = "take"
  <2>0. PICK g : g = call.node
    OBVIOUS
  <2>1. Done(g)'
    BY <1>1, <1>3, <1>4, <1>5, <2>0 DEF Done, Offered
  <2> SUFFICES ASSUME NEW f \in Below(target), OfTree'
               PROVE  Exempt(f)' \/ Done(f)' \/ Ahead(f)' \/ Asked(f)'
    BY <1>1 DEF Covered
  <2>2. OfTree /\ f \in Files
    BY <1>1, BelowAreFiles DEF OfTree
  <2>3. Exempt(f) \/ Done(f) \/ Ahead(f) \/ Asked(f)
    BY <2>2 DEF DeliveryInv, Covered
  <2>4. (Exempt(f) => Exempt(f)') /\ (Done(f) => Done(f)') /\ (Ahead(f) => Ahead(f)')
    BY <1>1, <1>7, <2>2, ExemptStill, DoneStill, AheadStill
  <2>5. Asked(f) => f = g
    BY <1>2, <2>0 DEF Asked
  <2> QED
    BY <2>1, <2>3, <2>4, <2>5
<1> QED
  BY <1>6, <1>7 DEF FileDone

\* What could not be fetched is warned of, and anything else ends the run badly.
LEMMA GiveUpCovered ==
  ASSUME DeliveryInv, GiveUp, \A n \in Nodes : seen[n] \subseteq seen'[n]
  PROVE  Covered'
<1>1. pc = "failed" /\ UNCHANGED <<target, todo, local>>
  BY DEF GiveUp, LeaveRequest, diskVars
<1>2. CASE /\ call.op = "pull" /\ ~call.top /\ err.from # "mkdir"
           /\ warned' = warned \cup {call.node} /\ pc' = "take" /\ UNCHANGED call
  <2> SUFFICES ASSUME NEW f \in Below(target), OfTree'
               PROVE  Exempt(f)' \/ Done(f)' \/ Ahead(f)' \/ Asked(f)'
    BY <1>1 DEF Covered
  <2>1. OfTree /\ f \in Files
    BY <1>1, <1>2, BelowAreFiles DEF OfTree
  <2>2. Exempt(f) \/ Done(f) \/ Ahead(f) \/ Asked(f)
    BY <2>1 DEF DeliveryInv, Covered
  <2>3. (Exempt(f) => Exempt(f)') /\ (Done(f) => Done(f)') /\ (Ahead(f) => Ahead(f)')
    BY <1>1, <1>2, <2>1, ExemptStill, DoneStill, AheadStill
  <2>4. Asked(f) => Exempt(f)'
    BY <1>2 DEF Asked, Exempt
  <2> QED
    BY <2>2, <2>3, <2>4
<1>3. CASE Begin("pull", call.node, TRUE, FALSE)
  BY <1>3, NoTree DEF Begin, OfTree
<1>4. CASE pc' = "ended" /\ code' \in {"NotFound", "error"}
  BY <1>4, NoTree DEF OfTree
<1> QED
  BY <1>2, <1>3, <1>4 DEF GiveUp, LeaveRequest

LEMMA PullEndsCovered ==
  ASSUME DeliveryInv, PullEnds, \A n \in Nodes : seen[n] \subseteq seen'[n]
  PROVE  Covered'
<1>1. /\ pc = "take" /\ pc' = "ended" /\ todo = <<>>
      /\ UNCHANGED <<target, todo, warned, local, call>>
  BY DEF PullEnds, diskVars
<1> SUFFICES ASSUME NEW f \in Below(target), OfTree'
             PROVE  Exempt(f)' \/ Done(f)' \/ Ahead(f)' \/ Asked(f)'
  BY <1>1 DEF Covered
<1>2. OfTree /\ f \in Files
  BY <1>1, BelowAreFiles DEF OfTree
<1>3. Exempt(f) \/ Done(f)
  BY <1>1, <1>2 DEF DeliveryInv, Covered, Asked, Ahead
<1> QED
  BY <1>1, <1>2, <1>3, ExemptStill, DoneStill

\* The steps of a transfer write at most the file that is asked for.
LEMMA TransferCovered ==
  ASSUME DeliveryInv, CreateFile \/ CopyRead \/ WriteFails \/ Discard,
         \A n \in Nodes : seen[n] \subseteq seen'[n]
  PROVE  Covered'
<1>1. /\ pc \in {"body", "copy", "failed"} /\ pc' \in {"copy", "failed"}
      /\ UNCHANGED <<target, todo, warned, call>>
  BY DEF CreateFile, CopyRead, WriteFails, Discard, FileStep, BodyFails, Failed, planVars
<1>2. OfTree' => OfTree
  BY <1>1 DEF OfTree, Discard, CreateFile, CopyRead, WriteFails
<1>3. call.op = "pull"
  <2>1. CASE Discard
    BY <2>1 DEF Discard, DeliveryInv, Stages, ContentInv, Content, LeftContent
  <2>3. CASE WriteFails
    BY <2>3, ConnIsGood DEF WriteFails, DeliveryInv, ContentInv, Good, AtBody
  <2>2. CASE CreateFile \/ CopyRead
    BY <2>2, ConnIsGood DEF CreateFile, CopyRead, DeliveryInv, ContentInv, Good, AtBody
  <2> QED
    BY <2>1, <2>2, <2>3
<1>4. \A f \in Files : local'[f] = local[f] \/ f = call.node
  BY DEF CreateFile, CopyRead, WriteFails, Discard, diskVars, DeliveryInv, ContentInv, Inv, LocalTypes
<1>5. \A f \in Files : local'[f] = local[f] \/ Asked(f)'
  BY <1>1, <1>3, <1>4 DEF Asked
<1> QED
  BY <1>1, <1>2, <1>5, CoveredKept DEF DeliveryInv

\* The steps of the transport.
LEMMA TransportCovered ==
  ASSUME DeliveryInv, Connect \/ Request \/ ReadHead \/ Retry,
         \A n \in Nodes : seen[n] \subseteq seen'[n]
  PROVE  Covered'
<1>1. /\ pc \in {"acquire", "head", "failed"} /\ pc' \in {"acquire", "head", "body", "failed"}
      /\ UNCHANGED <<target, todo, warned, call, local>>
  BY DEF Connect, Request, ReadHead, Retry, TransportStep, Failed, planVars, diskVars
<1>2. OfTree' => OfTree
  BY <1>1 DEF OfTree, Connect, Request, ReadHead, Retry, MayRetry
<1> QED
  BY <1>1, <1>2, CoveredKept DEF DeliveryInv

\* The steps that leave the client alone.
LEMMA OthersCovered ==
  ASSUME DeliveryInv, UNCHANGED <<planVars, callVars, local>>,
         \A n \in Nodes : seen[n] \subseteq seen'[n]
  PROVE  Covered'
<1>1. UNCHANGED <<pc, target, todo, warned, call, local, code, err>>
  BY DEF planVars, callVars
<1>2. OfTree' => OfTree
  BY <1>1 DEF OfTree
<1> QED
  BY <1>1, <1>2, CoveredKept DEF DeliveryInv

LEMMA EmptyIsSeq == IsSeq(<<>>)
<1>1. <<>> \in Seq({})
  OBVIOUS
<1> QED
  BY <1>1 DEF IsSeq

LEMMA StagesNext == ASSUME CallTypes, Stages, [Next]_vars PROVE Stages'
<1>1. CASE Run \/ Connect \/ Request \/ ReadHead \/ Retry \/ PullEnds
  BY <1>1 DEF Run, Connect, Request, ReadHead, Retry, PullEnds, Begin, Failed, Stages
<1>2. CASE TakeListing \/ CopyRead
  <2>1. CASE TakeListing
    <3>1. call.op = "list" /\ call' = call
      BY <2>1 DEF TakeListing
    <3>2. pc' = "take" \/ (pc' = "failed" /\ err'.from \in {"list", "mkdir"})
      BY <2>1 DEF TakeListing, BodyFails, Failed
    <3> QED
      BY <3>1, <3>2 DEF Stages
  <2>2. CASE CopyRead
    <3>1. pc = "copy" /\ (pc' = pc \/ \E e : Failed(e, "copy"))
      BY <2>2, Zenon DEF CopyRead, BodyFails
    <3> QED
      BY <3>1 DEF Failed, Stages
  <2> QED
    BY <1>2, <2>1, <2>2
<1>5. CASE CreateFile \/ FileDone \/ Kill
  <2>1. CASE CreateFile
    BY <2>1 DEF CreateFile, FileStep, Failed, Stages
  <2>2. CASE FileDone \/ Kill
    BY <2>2 DEF FileDone, Kill, Stages
  <2> QED
    BY <1>5, <2>1, <2>2
<1>6. CASE Discard
  <2>1. err' = [what |-> err.what, from |-> "discarded"] /\ pc' = "failed"
    BY <1>6 DEF Discard, CallTypes
  <2> QED
    BY <2>1 DEF Stages
<1>3. CASE TakeEntry \/ GiveUp \/ WriteFails
  BY <1>3 DEF TakeEntry, GiveUp, LeaveRequest, WriteFails, Begin, Failed, callVars, Stages
<1>4. CASE RemoteChanges \/ Answer \/ SendByte \/ CloseIdle \/ CutAnswer \/ TimePasses
           \/ UNCHANGED vars
  <2>1. UNCHANGED callVars
    BY <1>4 DEF RemoteChanges, Answer, SendByte, CloseIdle, CutAnswer, TimePasses, ServerStep, vars
  <2> QED
    BY <2>1 DEF Stages, callVars
<1> QED
  BY <1>1, <1>2, <1>3, <1>4, <1>5, <1>6 DEF Next, Client, Environment

LEMMA DeliveryInit == Init => DeliveryInv
<1> SUFFICES ASSUME Init PROVE DeliveryInv
  OBVIOUS
<1>1. ContentInv
  BY ContentInit
<1>2. pc = "off" /\ todo = <<>> /\ remote = [n \in Nodes |-> IF n \in Dirs THEN 0 ELSE CHOOSE v \in Versions : TRUE]
      /\ seen = [n \in Nodes |-> {remote[n]}]
  BY DEF Init
<1>3. SeenAll
  <2>1. \A n \in Nodes : remote[n] \in seen[n]
    BY <1>2
  <2>2. \A d \in Dirs : seen[d] = {0}
    BY <1>2 DEF Nodes
  <2>3. None # 0
    BY SizeAssumption
  <2> QED
    BY <2>1, <2>2, <2>3 DEF SeenAll
<1>4. Listed /\ Stages /\ Covered
  BY <1>2 DEF Listed, Stages, Covered, OfTree
<1> QED
  BY <1>1, <1>2, <1>3, <1>4, EmptyIsSeq DEF DeliveryInv

LEMMA DeliveryNext == DeliveryInv /\ [Next]_vars => DeliveryInv'
<1> SUFFICES ASSUME DeliveryInv, [Next]_vars PROVE DeliveryInv'
  OBVIOUS
<1>1. ContentInv' /\ Stages'
  BY ContentNext, StagesNext DEF DeliveryInv, ContentInv
<1>2. CASE Run
  <2>1. pc' = "acquire" /\ todo' = <<>>
    BY <1>2 DEF Run, Begin
  <2>2. SeenAll'
    BY <1>2, RunSees DEF DeliveryInv, ContentInv, Inv
  <2>3. Listed' /\ Covered'
    BY <1>2, <2>1, NothingListed, RunCovered
  <2> QED
    BY <1>1, <2>1, <2>2, <2>3, EmptyIsSeq DEF DeliveryInv
<1>3. CASE Client \/ Environment \/ UNCHANGED vars
  <2>1. SeenAll' /\ \A n \in Nodes : seen[n] \subseteq seen'[n]
    BY <1>3, SeenGrows DEF DeliveryInv, ContentInv, Inv
  <2>2. Listed'
    BY <2>1, ListedNext DEF DeliveryInv
  <2>3. Covered' /\ IsSeq(todo)'
    <3>1. CASE TakeListing \/ TakeEntry
      BY <2>1, <3>1, TakeListingCovered, TakeEntryCovered
    <3>2. CASE FileDone \/ GiveUp \/ PullEnds
      <4>1. todo' = todo
        BY <3>2 DEF FileDone, GiveUp, LeaveRequest, PullEnds
      <4> QED
        BY <2>1, <3>2, <4>1, FileDoneCovered, GiveUpCovered, PullEndsCovered DEF DeliveryInv
    <3>3. CASE CreateFile \/ CopyRead \/ WriteFails \/ Discard
      <4>1. todo' = todo
        BY <3>3 DEF CreateFile, CopyRead, WriteFails, Discard, FileStep, planVars
      <4> QED
        BY <2>1, <3>3, <4>1, TransferCovered DEF DeliveryInv
    <3>4. CASE Connect \/ Request \/ ReadHead \/ Retry
      <4>1. todo' = todo
        BY <3>4 DEF Connect, Request, ReadHead, Retry, TransportStep, planVars
      <4> QED
        BY <2>1, <3>4, <4>1, TransportCovered DEF DeliveryInv
    <3>5. CASE Kill
      <4>1. pc' = "off" /\ todo' = todo
        BY <3>5 DEF Kill
      <4> QED
        BY <4>1, NoTree DEF OfTree, DeliveryInv
    <3>6. CASE RemoteChanges \/ Answer \/ SendByte \/ CloseIdle \/ CutAnswer \/ TimePasses
               \/ UNCHANGED vars
      <4>1. UNCHANGED <<planVars, callVars, local>>
        BY <3>6 DEF RemoteChanges, Answer, SendByte, CloseIdle, CutAnswer, TimePasses, ServerStep,
                    vars, diskVars
      <4>2. todo' = todo
        BY <4>1 DEF planVars
      <4> QED
        BY <2>1, <4>1, <4>2, OthersCovered DEF DeliveryInv
    <3> QED
      BY <1>3, <3>1, <3>2, <3>3, <3>4, <3>5, <3>6 DEF Client, Environment
  <2> QED
    BY <1>1, <2>1, <2>2, <2>3 DEF DeliveryInv
<1> QED
  BY <1>2, <1>3 DEF Next

\* A pull of a tree that ends well has lost no file (run_dir, pull_entries and skip_existing,
\* src/pull/src/lib.rs): whatever is below its target, was there all along and was not warned of is
\* there, as a version the remote had meanwhile, or was taken for one of its size.
THEOREM PullDelivers == Spec => []Delivered
<1>1. Init => DeliveryInv
  BY DeliveryInit
<1>2. DeliveryInv /\ [Next]_vars => DeliveryInv'
  BY DeliveryNext
<1>3. DeliveryInv => Delivered
  <2> SUFFICES ASSUME DeliveryInv, pc = "ended", code = "ok", ~(call.top /\ call.op = "pull"),
                      NEW f \in Below(target), ~Exempt(f)
               PROVE  local[f] # None
                      /\ \E v \in seen[f] : local[f] = Body(f, v) \/ Len(local[f]) = Size[v]
    BY DEF Delivered, Exempt
  <2>1. Done(f)
    BY DEF DeliveryInv, Covered, OfTree, Asked, Ahead
  <2> QED
    BY <2>1 DEF Done, Offered
<1> QED
  BY <1>1, <1>2, <1>3, PTL DEF Spec
=============================================================================
