---------------------------- MODULE ChunkedFile ----------------------------
(***************************************************************************)
(* The body that reads a file in chunks, where sendfile(2) is not used:    *)
(* ChunkedFile and LazyFile (src/namedfile/src/chunked_file.rs).           *)
(*                                                                         *)
(* Each body reads on a blocking thread: a seek, then a read that may be   *)
(* short, as two steps between which other bodies' threads run.  The       *)
(* position belongs to the open file description; which one a body's       *)
(* handle refers to is the constant Description.  A byte is its index in   *)
(* the file, which another program may shorten.                            *)
(***************************************************************************)
EXTENDS Integers, Sequences

CONSTANTS
  Bodies,       \* response bodies
  Description,  \* the file description of each body's handle, dup(2) included
  Start, Total, \* offset and total_size each body is made with
  BufferSize,   \* buffer_size
  FileSize      \* the length of the file when the bodies are made

BodiesAssumption ==
  /\ Start \in [Bodies -> Nat] /\ Total \in [Bodies -> Nat]
  /\ BufferSize \in Nat \ {0} /\ FileSize \in Nat
  /\ \A b \in Bodies : Start[b] + Total[b] <= FileSize

VARIABLES
  size,      \* the length of the file
  position,  \* the position of each description
  state,     \* ChunkedState of each body, and how it ended
  thread,    \* the blocking read of each body: its step, or "none", how much it may read, the
             \* bytes it has read
  offset, readSize,
  body       \* history: the bytes each body has given

vars == <<size, position, state, thread, offset, readSize, body>>

Descriptions == {Description[b] : b \in Bodies}
MinOf(m, n) == IF m < n THEN m ELSE n

Init ==
  /\ size = FileSize
  /\ position = [d \in Descriptions |-> 0]
  /\ state = [b \in Bodies |-> "File"]
  /\ thread = [b \in Bodies |-> [at |-> "none", max |-> 0, bytes |-> <<>>]]
  /\ offset = Start /\ readSize = [b \in Bodies |-> 0]
  /\ body = [b \in Bodies |-> <<>>]

\* poll_next with the file in hand: the end, or a read on a blocking thread.
Poll(b) ==
  /\ state[b] = "File"
  /\ IF Total[b] = readSize[b]
     THEN state' = [state EXCEPT ![b] = "ended"] /\ thread' = thread
     ELSE /\ state' = [state EXCEPT ![b] = "Future"]
          /\ thread' = [thread EXCEPT ![b] =
               [at |-> "seek", max |-> MinOf(Total[b] - readSize[b], BufferSize), bytes |-> <<>>]]
  /\ UNCHANGED <<size, position, offset, readSize, body>>

\* The handle is duplicated before its first use, which may fail.
Seek(b) ==
  /\ thread[b].at = "seek"
  /\ \/ /\ thread' = [thread EXCEPT ![b].at = "read"]
        /\ position' = [position EXCEPT ![Description[b]] = offset[b]]
     \/ /\ readSize[b] = 0
        /\ thread' = [thread EXCEPT ![b].at = "dup failed"] /\ position' = position
  /\ UNCHANGED <<size, state, offset, readSize, body>>

Read(b) ==
  /\ thread[b].at = "read"
  /\ LET from == position[Description[b]] IN
       IF from >= size
       THEN thread' = [thread EXCEPT ![b].at = "eof"] /\ position' = position
       ELSE \E n \in 1..MinOf(thread[b].max, size - from) :
              /\ thread' = [thread EXCEPT ![b].at = "done",
                                          ![b].bytes = [i \in 1..n |-> from + i]]
              /\ position' = [position EXCEPT ![Description[b]] = from + n]
  /\ UNCHANGED <<size, state, offset, readSize, body>>

\* poll_next with the read finished.
Complete(b) ==
  /\ state[b] = "Future" /\ thread[b].at = "done"
  /\ state' = [state EXCEPT ![b] = "File"]
  /\ offset' = [offset EXCEPT ![b] = @ + Len(thread[b].bytes)]
  /\ readSize' = [readSize EXCEPT ![b] = @ + Len(thread[b].bytes)]
  /\ body' = [body EXCEPT ![b] = @ \o thread[b].bytes]
  /\ UNCHANGED <<size, position, thread>>

\* Mutant: a read of no bytes is the end.
FailQuietly(b) ==
  /\ state[b] = "Future" /\ thread[b].at \in {"eof", "dup failed"}
  /\ state' = [state EXCEPT ![b] = "ended"]
  /\ UNCHANGED <<size, position, thread, offset, readSize, body>>

\* poll_next with the read failed, of which a read of no bytes is a case.
Fail(b) ==
  /\ state[b] = "Future" /\ thread[b].at \in {"eof", "dup failed"}
  /\ state' = [state EXCEPT ![b] = "failed"]
  /\ UNCHANGED <<size, position, thread, offset, readSize, body>>

\* The response is dropped; its blocking thread goes on.
Drop(b) ==
  /\ state[b] \in {"File", "Future"}
  /\ state' = [state EXCEPT ![b] = "dropped"]
  /\ UNCHANGED <<size, position, thread, offset, readSize, body>>

Shorten ==
  /\ size > 0 /\ size' \in 0..size - 1
  /\ UNCHANGED <<position, state, thread, offset, readSize, body>>

Step(b) == Poll(b) \/ Seek(b) \/ Read(b) \/ Complete(b) \/ Fail(b)
Next == Shorten \/ \E b \in Bodies : Step(b) \/ Drop(b)

Spec == Init /\ [][Next]_vars

-----------------------------------------------------------------------------
(* Properties. *)

\* A body gives the bytes of its range, in order, and when it ends without an error, all of
\* them, however short the reads are and whatever happens to the file.
BodyIsRange ==
  \A b \in Bodies :
    /\ \A i \in DOMAIN body[b] : body[b][i] = Start[b] + i
    /\ state[b] = "ended" => Len(body[b]) = Total[b]
=============================================================================
