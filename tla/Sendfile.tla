------------------------------ MODULE Sendfile ------------------------------
(***************************************************************************)
(* One HTTP/1 connection of the server: Hyper on top, SendfileStream and   *)
(* its SendfileSlot in the middle, a non-blocking socket below.            *)
(*                                                                         *)
(* A handler that serves a file arms the slot and answers with a body of   *)
(* placeholder bytes; the stream lets the response head through, finds its *)
(* end, and replaces every following byte by sendfile(2).  One action is   *)
(* one system call of the stream (or one decision between two of them), so *)
(* the socket filling up, the peer reading, the reactor's readiness events *)
(* and wake-ups, a truncation of the file and a reset interleave with      *)
(* every step of poll_write.                                               *)
(*                                                                         *)
(* Hyper, tokio's readiness and the kernel are not under src/: they are    *)
(* modelled from how the stream uses them.  Hyper may cut its buffered     *)
(* bytes into slices in any way, which covers is_write_vectored() true and *)
(* false, and heads split at any byte.                                     *)
(***************************************************************************)
EXTENDS HeadScan

CONSTANTS
  Answers,       \* what the handlers may answer (see AnswersAssumption)
  FileSize,      \* length of the served file to begin with
  PhantomLen,    \* PHANTOM_LEN, the longest frame of a SendfileBody
  SockCap,       \* capacity of the socket's send buffer
  MaxResponses,  \* bound on the responses of the connection
  NoPlan         \* Option::None

Plan == [offset : Nat, remaining : Nat]

\* A handler answers with a 200/206 for a file (send_head has written its
\* Content-Length and, for a range, where it starts) or with anything else, to
\* a GET or a HEAD.  Hyper never puts CRLFCRLF inside a head: it ends the head.
ASSUME AnswersAssumption ==
  /\ Answers \subseteq [head : Seq(ByteClass), file : BOOLEAN, get : BOOLEAN,
                       offset : Nat, length : Nat]
  /\ \A a \in Answers : EndsIn(a.head) = {Len(a.head)}
ASSUME SizesAssumption ==
  /\ FileSize \in Nat /\ MaxResponses \in Nat
  /\ PhantomLen \in Nat \ {0}
  /\ SockCap \in Nat \ {0}
ASSUME NoPlanAssumption == NoPlan \notin Plan

VARIABLES
  armed, slotPlan,      \* SendfileSlot
  state, carry, owed, plan, \* SendfileStream (state.carry in Head only)
  cur,                  \* the response Hyper is writing
  served,               \* how many responses have been answered
  accepted,             \* bytes of cur the stream has reported as written
  encoded,              \* bytes of cur Hyper has put into its write buffer
  flushed,              \* the last poll_flush finished, nothing buffered since
  pc,                   \* where the connection's task is
  call,                 \* the AsyncWrite method Hyper called
  slice,                \* length of the slice poll_write works on
  sent,                 \* bytes of the slice already handed on in this call
  headLen, found,       \* write_head: head bytes in the slice, end seen
  progress,             \* an earlier slice of this poll_write_vectored went out
  room, ready, gone,    \* socket: free space, tokio's writable flag, peer reset
  waker, woken,         \* a waker is registered; the task has been woken
  size,                 \* present length of the file
  wire, expected,       \* bytes the socket accepted; bytes HTTP promised
  failure               \* why the connection failed

slotVars   == <<armed, slotPlan>>
streamVars == <<state, carry, owed, plan>>
hyperVars  == <<cur, served, accepted, encoded, flushed>>
callVars   == <<call, slice, sent, headLen, found, progress>>
sockVars   == <<room, ready, gone>>
taskVars   == <<waker, woken>>
wireVars   == <<wire, expected, failure>>

vars == <<slotVars, streamVars, hyperVars, pc, callVars, sockVars, taskVars, size, wireVars>>

-----------------------------------------------------------------------------
(* The bytes of a response, by position: those Hyper hands to the stream   *)
(* and those the peer has been promised.                                   *)

Byte == {"head", "body", "zero", "file"} \X Nat \X Nat

HeadByte(p)  == <<"head", served, p>>
BodyByte(p)  == <<"body", served, p>>
ZeroByte     == <<"zero", 0, 0>>            \* a byte of PHANTOM
FileByte(at) == <<"file", 0, at>>           \* the file's byte at an offset

HeadSize == Len(cur.head)
Total    == HeadSize + cur.length

Handed(p) == IF p <= HeadSize THEN HeadByte(p)
             ELSE IF cur.upgraded THEN ZeroByte ELSE BodyByte(p)

HandedRange(from, n) == [i \in 1..n |-> Handed(from + i)]
FileRange(at, n)     == [i \in 1..n |-> FileByte(at + i - 1)]

\* The slice the stream sees, as classes for the head scanner.
ClassAt(p) == IF p <= HeadSize THEN cur.head[p] ELSE Other
Buf == [i \in 1..slice |-> ClassAt(accepted + i)]

-----------------------------------------------------------------------------
(* Socket and reactor (external).  try_io attempts the system call only    *)
(* while the readiness flag is set and clears it on EAGAIN.                *)

CanSend   == ready /\ room > 0 /\ ~gone
Blocked   == ~ready \/ (room = 0 /\ ~gone)
SockError == ready /\ gone

Accept(bytes) == /\ wire' = wire \o bytes
                 /\ room' = room - Len(bytes)
                 /\ UNCHANGED <<ready, gone, expected, failure>>

Register == waker' = TRUE /\ ready' = FALSE /\ UNCHANGED <<room, gone, woken>>

\* Writability (or the reset) reaches the reactor, which wakes the task.
Driver == /\ ~ready
          /\ room > 0 \/ gone
          /\ ready' = TRUE
          /\ waker' = FALSE
          /\ woken' = (woken \/ waker)
          /\ UNCHANGED <<slotVars, streamVars, hyperVars, pc, callVars, room, gone, size, wireVars>>

PeerRead == /\ ~gone
            /\ \E n \in 1..(SockCap - room) : room' = room + n
            /\ UNCHANGED <<slotVars, streamVars, hyperVars, pc, callVars, ready, gone, taskVars, size, wireVars>>

PeerReset == /\ ~gone
             /\ gone' = TRUE
             /\ UNCHANGED <<slotVars, streamVars, hyperVars, pc, callVars, room, ready, taskVars, size, wireVars>>

\* Another program truncates the file while it is being served.
Truncate == /\ \E n \in 0..(size - 1) : size' = n
            /\ UNCHANGED <<slotVars, streamVars, hyperVars, pc, callVars, sockVars, taskVars, wireVars>>

-----------------------------------------------------------------------------
(* Hyper and the handler.                                                  *)

\* upgrade_response replaces the body when the slot accepts the plan.
Arms(a) == a.file /\ a.get /\ a.length > 0 /\ slotPlan = NoPlan

\* Body bytes Hyper will be handed: none for HEAD, and none for a file whose
\* upgrade was refused (send_head left the response without a body).
BodyLen(a) == IF a.get /\ (Arms(a) \/ ~a.file) THEN a.length ELSE 0

PromisedTo(a) ==
  [p \in 1..Len(a.head) |-> <<"head", served + 1, p>>] \o
  (IF ~a.get THEN <<>>
   ELSE IF a.file THEN FileRange(a.offset, a.length)
   ELSE [i \in 1..a.length |-> <<"body", served + 1, Len(a.head) + i>>])

\* Hyper reads the next request only when everything buffered is flushed.
ReadyForRequest == /\ flushed
                   /\ encoded = Total
                   /\ accepted = encoded

Serve(a) ==
  /\ pc = "hyper"
  /\ served < MaxResponses
  /\ ReadyForRequest
  /\ a.file => a.offset + a.length <= size
  /\ served' = served + 1
  /\ cur' = [head |-> a.head, upgraded |-> Arms(a), offset |-> a.offset, length |-> BodyLen(a)]
  /\ accepted' = 0
  /\ encoded' = Len(a.head)
  /\ flushed' = FALSE
  /\ expected' = expected \o PromisedTo(a)
  /\ IF Arms(a)
     THEN armed' = TRUE /\ slotPlan' = [offset |-> a.offset, remaining |-> a.length]
     ELSE UNCHANGED slotVars
  /\ UNCHANGED <<streamVars, pc, callVars, sockVars, taskVars, size, wire, failure>>

\* Hyper polls the body for its next frame (SendfileBody::poll_frame).
BodyFrame ==
  /\ pc = "hyper"
  /\ encoded < Total
  /\ encoded' = IF cur.upgraded THEN encoded + SmallerOf(PhantomLen, Total - encoded) ELSE Total
  /\ flushed' = FALSE
  /\ UNCHANGED <<slotVars, streamVars, cur, served, accepted, pc, callVars, sockVars, taskVars, size, wireVars>>

\* The next slice of poll_write_vectored, or a new call.
BeginSlice ==
  /\ pc \in {"hyper", "slices"}
  /\ \E n \in 1..(encoded - accepted) : slice' = n
  /\ call' = "write"
  /\ sent' = 0
  /\ progress' = (pc = "slices")
  /\ pc' = "drain"
  /\ UNCHANGED <<slotVars, streamVars, hyperVars, headLen, found, sockVars, taskVars, size, wireVars>>

\* poll_write_vectored has seen its last slice.
EndSlices == /\ pc = "slices"
             /\ pc' = "hyper"
             /\ UNCHANGED <<slotVars, streamVars, hyperVars, callVars, sockVars, taskVars, size, wireVars>>

CallFlush == /\ pc = "hyper"
             /\ accepted = encoded
             /\ ~flushed
             /\ call' = "flush"
             /\ pc' = "drain"
             /\ UNCHANGED <<slotVars, streamVars, hyperVars, slice, sent, headLen, found, progress, sockVars, taskVars, size, wireVars>>

\* Hyper ends the connection once the response is buffered and written; it is
\* poll_shutdown that must see to the bytes the stream still owes.
CallShutdown == /\ pc = "hyper"
                /\ accepted = encoded /\ encoded = Total
                /\ call' = "shutdown"
                /\ pc' = "drain"
                /\ UNCHANGED <<slotVars, streamVars, hyperVars, slice, sent, headLen, found, progress, sockVars, taskVars, size, wireVars>>

Resume == /\ pc = "parked"
          /\ woken
          /\ pc' = "hyper"
          /\ woken' = FALSE
          /\ UNCHANGED <<slotVars, streamVars, hyperVars, callVars, sockVars, waker, size, wireVars>>

\* A timer or the read side polls the task as well; nothing may rely on it.
SpuriousPoll == /\ pc = "parked"
                /\ pc' = "hyper"
                /\ UNCHANGED <<slotVars, streamVars, hyperVars, callVars, sockVars, taskVars, size, wireVars>>

-----------------------------------------------------------------------------
(* SendfileStream.                                                         *)

Fail(why) == pc' = "failed" /\ failure' = why

\* The locals of a call die with it.
LocalsDie == /\ call' = "none" /\ slice' = 0 /\ sent' = 0
             /\ headLen' = 0 /\ found' = FALSE /\ progress' = FALSE

\* Pending: poll_write_vectored reports the slices that went out before it.
Park == /\ pc' = IF progress THEN "hyper" ELSE "parked"
        /\ LocalsDie

\* Ok(count): the slice was consumed whole, or Hyper has to come back.
Return(count) == /\ accepted' = accepted + count
                 /\ pc' = IF count = slice THEN "slices" ELSE "hyper"
                 /\ LocalsDie

DrainOwed ==
  /\ pc = "drain" /\ owed # <<>>
  /\ \/ /\ CanSend
        /\ \E n \in 1..SmallerOf(room, Len(owed)) :
             /\ Accept(SubSeq(owed, 1, n))
             /\ owed' = SubSeq(owed, n + 1, Len(owed))
        /\ UNCHANGED <<pc, callVars, taskVars>>
     \/ /\ Blocked
        /\ Register
        /\ Park
        /\ UNCHANGED <<owed, wireVars>>
     \/ /\ SockError
        /\ Fail("reset")
        /\ UNCHANGED <<owed, callVars, wire, expected, sockVars, taskVars>>
  /\ UNCHANGED <<slotVars, state, carry, plan, hyperVars, size>>

\* Mutant: flush does not drain what the stream owes.
FlushUndrained ==
  /\ pc = "drain"
  /\ call = "flush"
  /\ flushed' = TRUE
  /\ pc' = "hyper"
  /\ LocalsDie
  /\ UNCHANGED <<slotVars, streamVars, cur, served, accepted, encoded, sockVars, taskVars, size, wireVars>>

FlushDone ==
  /\ pc = "drain" /\ owed = <<>>
  /\ call = "flush"
  /\ flushed' = TRUE
  /\ pc' = "hyper"
  /\ LocalsDie
  /\ UNCHANGED <<slotVars, streamVars, cur, served, accepted, encoded, sockVars, taskVars, size, wireVars>>

ShutdownDone ==
  /\ pc = "drain" /\ owed = <<>>
  /\ call = "shutdown"
  /\ pc' = "closed"
  /\ UNCHANGED <<slotVars, streamVars, hyperVars, callVars, sockVars, taskVars, size, wireVars>>

\* poll_write with nothing owed: pass-through, head, or placeholders.
PollIdle ==
  /\ pc = "drain" /\ owed = <<>> /\ call = "write"
  /\ state = "Idle" /\ ~armed
  /\ pc' = "pass"
  /\ UNCHANGED <<slotVars, streamVars, hyperVars, callVars, sockVars, taskVars, size, wireVars>>

PollHead ==
  /\ pc = "drain" /\ owed = <<>> /\ call = "write"
  /\ state = "Head" \/ (state = "Idle" /\ armed)
  /\ state' = "Head"
  /\ carry' = IF state = "Idle" THEN <<>> ELSE carry
  /\ LET end == FindHeadEnd(carry', Buf)
     IN  /\ found' = (end # NotFound)
         /\ headLen' = IF end # NotFound THEN end ELSE slice
  /\ pc' = "head"
  /\ UNCHANGED <<slotVars, owed, plan, hyperVars, call, slice, sent, progress, sockVars, taskVars, size, wireVars>>

\* Mutant: the last byte of a plan is refused.
TransferErrorOffByOne(p, len) == IF p = NoPlan THEN "no plan"
                                 ELSE IF len >= p.remaining THEN "exceeds plan" ELSE "none"

\* The plan a transfer of len bytes starts from: missing, or too short for len.
TransferError(p, len) == IF p = NoPlan THEN "no plan"
                         ELSE IF len > p.remaining THEN "exceeds plan" ELSE "none"

PollSending ==
  /\ pc = "drain" /\ owed = <<>> /\ call = "write"
  /\ state = "Sending"
  /\ IF TransferError(plan, slice) = "none"
     THEN pc' = "place" /\ UNCHANGED failure
     ELSE Fail(TransferError(plan, slice))
  /\ UNCHANGED <<slotVars, streamVars, hyperVars, callVars, sockVars, taskVars, size, wire, expected>>

\* Idle: inner.poll_write of the slice as it is.
PassThrough ==
  /\ pc = "pass"
  /\ \/ /\ CanSend
        /\ \E n \in 1..SmallerOf(room, slice) :
             /\ Accept(HandedRange(accepted, n))
             /\ Return(n)
        /\ UNCHANGED taskVars
     \/ /\ Blocked
        /\ Register
        /\ Park
        /\ UNCHANGED <<accepted, wireVars>>
     \/ /\ SockError
        /\ Fail("reset")
        /\ UNCHANGED <<accepted, callVars, wire, expected, sockVars, taskVars>>
  /\ UNCHANGED <<slotVars, streamVars, cur, served, encoded, flushed, size>>

\* write_head, one poll_write_more.
HeadWrite ==
  /\ pc = "head" /\ sent < headLen
  /\ \/ /\ CanSend
        /\ \E n \in 1..SmallerOf(room, headLen - sent) :
             /\ Accept(HandedRange(accepted + sent, n))
             /\ sent' = sent + n
        /\ UNCHANGED pc
     \/ /\ SockError
        /\ Fail("reset")
        /\ UNCHANGED <<sent, wire, expected, sockVars>>
  /\ UNCHANGED <<slotVars, streamVars, hyperVars, call, slice, headLen, found, progress, taskVars, size>>

\* The loop of write_head is over: everything written, or the socket is full
\* and the rest of the head is owed.
HeadLoopOver ==
  /\ pc = "head"
  /\ \/ sent = headLen /\ UNCHANGED <<sockVars, taskVars>>
     \/ sent < headLen /\ Blocked /\ Register
  /\ owed' = owed \o HandedRange(accepted + sent, headLen - sent)

\* No terminator yet: remember the tail, report the whole slice.
HeadContinues ==
  /\ HeadLoopOver
  /\ ~found
  /\ carry' = Trailing(carry, SubSeq(Buf, 1, headLen))
  /\ Return(headLen)
  /\ UNCHANGED <<slotVars, state, plan, cur, served, encoded, flushed, size, wireVars>>

\* The head ends here: take the plan, and go on with the placeholders that
\* follow in the same slice unless the head is not out yet.
HeadEnds ==
  /\ HeadLoopOver
  /\ found
  /\ armed' = FALSE
  /\ slotPlan' = NoPlan
  /\ IF slotPlan = NoPlan
     THEN Fail("no plan") /\ UNCHANGED <<state, plan, accepted, callVars>>
     ELSE /\ plan' = slotPlan
          /\ state' = "Sending"
          /\ IF sent < headLen \/ headLen = slice
             THEN Return(headLen) /\ UNCHANGED failure
             ELSE IF TransferError(slotPlan, slice - headLen) = "none"
             THEN pc' = "body" /\ UNCHANGED <<accepted, callVars, failure>>
             ELSE Fail(TransferError(slotPlan, slice - headLen)) /\ UNCHANGED <<accepted, callVars>>
  /\ UNCHANGED <<carry, cur, served, encoded, flushed, size, wire, expected>>

\* Mutants: a finished plan is kept; the socket's short write is not reported.
TransferNotRetired == UNCHANGED <<plan, state>> /\ Return(sent)
TransferReportsAll ==
  /\ plan' = IF plan.remaining = 0 THEN NoPlan ELSE plan
  /\ state' = IF plan.remaining = 0 THEN "Idle" ELSE state
  /\ Return(slice)

\* The transfer loop is over: retire a finished plan and report the bytes.
TransferReturns ==
  /\ plan' = IF plan.remaining = 0 THEN NoPlan ELSE plan
  /\ state' = IF plan.remaining = 0 THEN "Idle" ELSE state
  /\ Return(sent)

\* transfer, one sendfile(2): after a head ("body") or on its own ("place").
TryWrite ==
  /\ pc \in {"body", "place"} /\ sent < slice
  /\ CanSend
  /\ \E n \in 1..SmallerOf(SmallerOf(room, slice - sent), size - plan.offset) :
       /\ Accept(FileRange(plan.offset, n))
       /\ plan' = [offset |-> plan.offset + n, remaining |-> plan.remaining - n]
       /\ sent' = sent + n
  /\ UNCHANGED <<slotVars, state, carry, owed, hyperVars, pc, call, slice, headLen, found, progress, taskVars, size>>

\* sendfile(2) returns 0 at the end of the file, or fails.
TryFails ==
  /\ pc \in {"body", "place"} /\ sent < slice
  /\ \/ ready /\ ~gone /\ plan.offset >= size /\ Fail("file ended")
     \/ SockError /\ Fail("reset")
  /\ UNCHANGED <<slotVars, streamVars, hyperVars, callVars, sockVars, taskVars, size, wire, expected>>

\* WouldBlock: no waker is registered.  write_head reports what went out, and
\* so does write_placeholders unless that is nothing.
TryBlocks ==
  /\ pc \in {"body", "place"} /\ sent < slice
  /\ Blocked
  /\ ready' = FALSE
  /\ IF pc = "body" \/ sent > 0
     THEN TransferReturns
     ELSE pc' = "wait" /\ UNCHANGED <<plan, state, accepted, callVars>>
  /\ UNCHANGED <<slotVars, carry, owed, cur, served, encoded, flushed, room, gone, taskVars, size, wireVars>>

TransferDone ==
  /\ pc \in {"body", "place"} /\ sent = slice
  /\ TransferReturns
  /\ UNCHANGED <<slotVars, carry, owed, cur, served, encoded, flushed, sockVars, taskVars, size, wireVars>>

\* Mutant: sendfile's WouldBlock parks the task, and no waker is registered.
PollWritableUnregistered ==
  /\ pc = "wait"
  /\ \/ ready /\ pc' = "place" /\ UNCHANGED callVars
     \/ ~ready /\ Park
  /\ UNCHANGED <<waker, slotVars, streamVars, hyperVars, sockVars, woken, size, wireVars>>

\* poll_writable: writable again already, or register and park.
PollWritable ==
  /\ pc = "wait"
  /\ \/ ready /\ pc' = "place" /\ UNCHANGED <<callVars, waker>>
     \/ ~ready /\ waker' = TRUE /\ Park
  /\ UNCHANGED <<slotVars, streamVars, hyperVars, sockVars, woken, size, wireVars>>

-----------------------------------------------------------------------------
NoResponse == [head |-> <<>>, upgraded |-> FALSE, offset |-> 0, length |-> 0]

Init ==
  /\ armed = FALSE /\ slotPlan = NoPlan
  /\ state = "Idle" /\ carry = <<>> /\ owed = <<>> /\ plan = NoPlan
  /\ cur = NoResponse /\ served = 0 /\ accepted = 0 /\ encoded = 0 /\ flushed = TRUE
  /\ pc = "hyper" /\ call = "none" /\ slice = 0 /\ sent = 0
  /\ headLen = 0 /\ found = FALSE /\ progress = FALSE
  /\ room = SockCap /\ ready = TRUE /\ gone = FALSE
  /\ waker = FALSE /\ woken = FALSE
  /\ size = FileSize
  /\ wire = <<>> /\ expected = <<>> /\ failure = "none"

StreamStep == \/ DrainOwed \/ FlushDone \/ ShutdownDone
              \/ PollIdle \/ PollHead \/ PollSending \/ PassThrough
              \/ HeadWrite \/ HeadContinues \/ HeadEnds
              \/ TryWrite \/ TryFails \/ TryBlocks \/ TransferDone \/ PollWritable

\* Steps the connection's task takes whenever it runs.
TaskStep == BodyFrame \/ BeginSlice \/ EndSlices \/ CallFlush \/ Resume \/ StreamStep

Next == \/ \E a \in Answers : Serve(a)
        \/ TaskStep
        \/ CallShutdown \/ SpuriousPoll
        \/ Driver \/ PeerRead \/ PeerReset \/ Truncate

Spec == Init /\ [][Next]_vars

\* The executor keeps running a task that can run, the reactor delivers
\* readiness, and the peer reads until it resets the connection.
Fairness == WF_vars(TaskStep) /\ WF_vars(Driver) /\ WF_vars(PeerRead)

FairSpec == Spec /\ Fairness

-----------------------------------------------------------------------------
(* Properties.                                                             *)

\* Every variable has its type; in particular the carry never exceeds the
\* three bytes of State::Head's array.
TypeOK ==
  /\ armed \in BOOLEAN /\ slotPlan \in Plan \cup {NoPlan}
  /\ state \in {"Idle", "Head", "Sending"}
  /\ carry \in Seq(ByteClass) /\ Len(carry) <= 3
  /\ owed \in Seq(Byte)
  /\ plan \in Plan \cup {NoPlan}
  /\ cur \in [head : Seq(ByteClass), upgraded : BOOLEAN, offset : Nat, length : Nat]
  /\ served \in Nat /\ accepted \in Nat /\ encoded \in Nat /\ flushed \in BOOLEAN
  /\ pc \in {"hyper", "slices", "drain", "pass", "head", "body", "place", "wait",
             "parked", "closed", "failed"}
  /\ call \in {"none", "write", "flush", "shutdown"}
  /\ slice \in Nat /\ sent \in Nat /\ headLen \in Nat
  /\ found \in BOOLEAN /\ progress \in BOOLEAN
  /\ room \in 0..SockCap /\ ready \in BOOLEAN /\ gone \in BOOLEAN
  /\ waker \in BOOLEAN /\ woken \in BOOLEAN
  /\ size \in Nat
  /\ wire \in Seq(Byte) /\ expected \in Seq(Byte)
  /\ failure \in {"none", "reset", "file ended", "no plan", "exceeds plan"}

\* What the peer has been given is a prefix of what HTTP promised it: no
\* placeholder byte leaves, no byte is lost, repeated or reordered, and every
\* file byte is the one of the promised range ("Byte counts and ordering are
\* preserved exactly", SendfileStream).
WireIsPrefix ==
  /\ Len(wire) <= Len(expected)
  /\ \A i \in 1..Len(wire) : wire[i] = expected[i]

\* When Hyper has flushed, every byte it was told is written is on the wire, and
\* the stream owes none: a client can wait for the head alone, and a finished
\* response is out.  After poll_shutdown, everything promised is.
FlushedIsSent ==
  /\ flushed => Len(wire) + (Total - accepted) = Len(expected)
  /\ pc = "closed" => wire = expected

\* Between two responses the connection is back to plain pass-through: no
\* armed slot, no plan, no half-scanned head.  A plan left over would refuse
\* the next file (a response without its body) or swallow the next head.
CleanBetweenResponses ==
  pc = "hyper" /\ ReadyForRequest =>
    ~armed /\ slotPlan = NoPlan /\ plan = NoPlan /\ state = "Idle" /\ owed = <<>>

\* The connection fails only for a cause outside the server: the peer reset
\* it, or the file really became shorter.  The stream's own errors ("sendfile
\* plan disappeared", "sendfile body exceeds its content length") never occur.
FailsOnlyForCause ==
  /\ failure \in {"none", "reset", "file ended"}
  /\ failure = "reset" => gone
  /\ failure = "file ended" => size < FileSize

\* A parked task will be polled again: it has been woken, or its waker is
\* registered and the reactor has a readiness event still to deliver
\* (SendfileTarget::try_sendfile "does not arrange a wakeup").
ParkedIsRegistered == pc = "parked" => woken \/ (waker /\ ~ready)

\* Every promised byte gets out as long as the peer reads, the connection does
\* not fail: nobody waits for a wake-up that does not come.
Delivery == (wire # expected) ~> (wire = expected \/ pc = "failed")

\* The connection as its peer sees it (HttpWire).
Connection == INSTANCE HttpWire WITH
  status <- IF pc = "closed" THEN "closed" ELSE IF pc = "failed" THEN "aborted" ELSE "open"

ImplementsHttpWire == Connection!Spec

-----------------------------------------------------------------------------
(* The inductive invariant behind them (proved in Sendfile_proofs).        *)

Out == accepted + sent       \* bytes of cur that left the slice handling
Promised(p) == IF cur.upgraded /\ p > HeadSize
               THEN FileByte(cur.offset + p - HeadSize - 1) ELSE Handed(p)

\* Every promised byte is on the wire, owed, or still to be handed over.
Accounting == Len(wire) + Len(owed) + Total - Out = Len(expected)

OwedIsNext == \A i \in 1..Len(owed) : owed[i] = expected[Len(wire) + i]

CurrentIsPromised == \A p \in 1..Total : expected[Len(expected) - Total + p] = Promised(p)

Bounds == /\ sent <= slice
          /\ accepted + slice <= encoded
          /\ encoded <= Total
          /\ pc \in {"hyper", "slices", "drain", "pass", "wait", "parked", "closed"} => sent = 0

HeadIsScannable == cur.upgraded => EndsIn(cur.head) = {HeadSize}

RangeIsInFile == /\ cur.upgraded => cur.length > 0 /\ cur.offset + cur.length <= FileSize
                 /\ size <= FileSize

\* Where a connection is with its response: ordinary bytes (or all done) ...
Plain == /\ ~armed /\ slotPlan = NoPlan /\ plan = NoPlan /\ state = "Idle"
         /\ cur.upgraded => accepted = Total
\* ... a head that announces file content ...
InHead == /\ cur.upgraded
          /\ armed /\ plan = NoPlan
          /\ slotPlan = [offset |-> cur.offset, remaining |-> cur.length]
          /\ state \in {"Idle", "Head"}
          /\ accepted < HeadSize
          /\ state = "Idle" => accepted = 0
          /\ state = "Head" => carry = LastThree(SubSeq(cur.head, 1, accepted))
\* ... or file content, with the plan at the byte that goes out next.
InBody == /\ cur.upgraded
          /\ ~armed /\ slotPlan = NoPlan
          /\ state = "Sending"
          /\ HeadSize <= Out
          /\ plan = [offset |-> cur.offset + (Out - HeadSize), remaining |-> Total - Out]
          /\ pc \notin {"body", "place"} => Out < Total

Mode == Plain \/ InHead \/ InBody

CallFacts ==
  /\ pc \in {"pass", "head", "body", "place", "wait"} => owed = <<>> /\ slice > 0
  /\ pc = "drain" /\ call = "write" => slice > 0
  /\ pc = "drain" /\ call = "flush" => accepted = encoded
  /\ pc = "drain" /\ call = "shutdown" => accepted = encoded /\ encoded = Total
  /\ pc = "closed" => owed = <<>> /\ accepted = Total
  /\ pc = "pass" => state = "Idle" /\ ~armed
  /\ pc = "head" => /\ state = "Head"
                    /\ sent <= headLen /\ headLen <= slice
                    /\ found => accepted + headLen = HeadSize
                    /\ ~found => headLen = slice /\ accepted + slice < HeadSize
  /\ pc \in {"body", "place", "wait"} => state = "Sending"
  /\ flushed => owed = <<>> /\ accepted = encoded

Wakers == /\ waker => ~ready
          /\ pc = "parked" => woken \/ waker

IInv == /\ TypeOK
        /\ WireIsPrefix /\ Accounting /\ OwedIsNext /\ CurrentIsPromised
        /\ Bounds /\ HeadIsScannable /\ RangeIsInFile
        /\ Mode /\ CallFacts
        /\ FailsOnlyForCause /\ Wakers
=============================================================================
