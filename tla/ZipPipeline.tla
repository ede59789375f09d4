----------------------------- MODULE ZipPipeline -----------------------------
(***************************************************************************)
(* /api/zip of src/list/src/lib.rs: a blocking thread walks a directory    *)
(* and reads its files, an asynchronous task writes the archive into the   *)
(* response body.  A bounded channel carries the items from one to the     *)
(* other, a second one the emptied buffers back.                           *)
(*                                                                         *)
(* Lengths count units, of which a buffer holds Chunk; a file's content is *)
(* the offsets of its units.  Files may grow or shrink while they are      *)
(* read, reads may be short or fail, and the client may disconnect.        *)
(***************************************************************************)
EXTENDS Integers, Sequences, FiniteSets

CONSTANTS
  Files, Dirs,  \* the entries of the tree
  Walk,         \* the order in which zip::walk hands them over
  Chunk,        \* ZIP_CHUNK
  Queue,        \* ZIP_QUEUE
  MaxSize,      \* bound on the size of a file
  Nothing       \* no buffer, no entry

ASSUME WalkAssumption == Walk \in Seq(Files \cup Dirs) /\ Files \cap Dirs = {}
\* Entries are told apart by their place in the walk, whatever their names.
ASSUME EntriesAssumption == \A i, j \in 1..Len(Walk) : Walk[i] = Walk[j] => i = j
ASSUME SizesAssumption == Chunk \in Nat \ {0} /\ Queue \in Nat \ {0} /\ MaxSize \in Nat
ASSUME NothingAssumption == Nothing \notin Seq(Nat)

VARIABLES
  size,      \* present size of each file
  walker,    \* step of the walking thread
  next,      \* index in Walk of its entry
  read,      \* units it has read of each file
  holds,     \* the content of the buffer it holds, or Nothing
  queue,     \* the item channel
  free,      \* how many buffers the free channel holds
  task,      \* step of the writing task
  entry,     \* name and content of the entry it writes
  hand,      \* the content of the buffer it holds, or Nothing
  archive,   \* the entries written
  delivered, \* how many of them the BufWriter has passed to the body
  connected  \* the client still takes the body

walkerVars == <<walker, next, read, holds>>
taskVars   == <<task, entry, hand, archive, delivered>>
vars == <<size, walkerVars, queue, free, taskVars, connected>>

Name == Walk[next]
SmallerOf(a, b) == IF a <= b THEN a ELSE b

WalkerEnded == walker \in {"done", "stopped"}
TaskEnded   == task \in {"done", "failed"}

\* Units from..from + n - 1 of a file.
Units(from, n) == [i \in 1..n |-> from + i - 1]

-----------------------------------------------------------------------------
(* The walking thread.                                                     *)

\* Mutant: a send is not given up when the task has ended.
SendForever(item, then) ==
  /\ UNCHANGED <<size, taskVars, connected, read>>
  /\ ~TaskEnded /\ Len(queue) < Queue
  /\ queue' = Append(queue, item)
  /\ walker' = then
  /\ next' = IF then = "entry" THEN next + 1 ELSE next
  /\ holds' = IF item.data # Nothing THEN Nothing ELSE holds
  /\ UNCHANGED free

\* blocking_send waits for room, and fails when the task has ended; the walk
\* then stops and whatever the thread held is freed.
Send(item, then) ==
  /\ UNCHANGED <<size, taskVars, connected, read>>
  /\ \/ /\ ~TaskEnded /\ Len(queue) < Queue
        /\ queue' = Append(queue, item)
        /\ walker' = then
        /\ next' = IF then = "entry" THEN next + 1 ELSE next
        /\ holds' = IF item.data # Nothing THEN Nothing ELSE holds
        /\ UNCHANGED free
     \/ /\ TaskEnded
        /\ walker' = "stopped" /\ holds' = Nothing /\ free' = 0
        /\ UNCHANGED <<queue, next>>

Item(kind, data) == [kind |-> kind, name |-> Name, data |-> data]

\* Mutant: the returned buffers are not reused.
TakeNewBuffer == holds' = <<>> /\ UNCHANGED free

\* try_recv from the free channel, or a new buffer.
TakeBuffer == /\ holds' = <<>>
              /\ free' = IF free > 0 THEN free - 1 ELSE 0

SendDir == /\ walker = "entry" /\ next <= Len(Walk) /\ Name \in Dirs
           /\ Send(Item("dir", Nothing), "entry")

\* File::open and fstat: a file that does not open leaves an empty entry; when
\* fstat fails, the file counts as large.
OpenFile ==
  /\ walker = "entry" /\ next <= Len(Walk) /\ Name \in Files
  /\ \/ walker' = "empty" /\ UNCHANGED <<holds, free>>
     \/ size[Name] < Chunk /\ walker' = "fill" /\ TakeBuffer
     \/ walker' = "start" /\ UNCHANGED <<holds, free>>
  /\ UNCHANGED <<size, next, read, queue, taskVars, connected>>

SendEmpty == walker = "empty" /\ Send(Item("start", Nothing), "end")

\* One read(2) into the rest of the buffer.
ReadInto(limit) ==
  \E n \in 1..SmallerOf(limit, size[Name] - read[Name]) :
    /\ holds' = holds \o Units(read[Name], n)
    /\ read' = [read EXCEPT ![Name] = @ + n]

\* read_first_chunk reads until the buffer is full ...
FillBuffer == /\ walker = "fill" /\ Len(holds) < Chunk
              /\ ReadInto(Chunk - Len(holds))
              /\ UNCHANGED <<size, walker, next, queue, free, taskVars, connected>>

\* ... or to the end of the file, or an error: the entry goes out in one item.
SendWhole == walker = "fill" /\ Len(holds) < Chunk /\ Send(Item("whole", holds), "entry")

\* The file has grown since fstat: go on as for a large one.
FileHasGrown == /\ walker = "fill" /\ Len(holds) = Chunk
                /\ walker' = "start"
                /\ UNCHANGED <<size, next, read, holds, queue, free, taskVars, connected>>

\* Mutant: a file that has grown is streamed without what was read of it.
SendStartAnew == walker = "start" /\ Send(Item("start", Nothing), "take")

\* Mutant: a file that has grown is streamed without its FileStart.
SendStartOfLarge ==
  \/ walker = "start" /\ holds = Nothing /\ Send(Item("start", Nothing), "take")
  \/ /\ walker = "start" /\ holds # Nothing /\ walker' = "chunk"
     /\ UNCHANGED <<size, next, read, holds, queue, free, taskVars, connected>>

SendStart == walker = "start" /\ Send(Item("start", Nothing), IF holds = Nothing THEN "take" ELSE "chunk")

SendChunk == walker = "chunk" /\ Send(Item("chunk", holds), "take")

\* send_file_chunks: a buffer, one read into it, and the item.
NextChunk == /\ walker = "take"
             /\ TakeBuffer
             /\ walker' = "read"
             /\ UNCHANGED <<size, next, read, queue, taskVars, connected>>

ReadChunk == /\ walker = "read"
             /\ ReadInto(Chunk)
             /\ walker' = "chunk"
             /\ UNCHANGED <<size, next, queue, free, taskVars, connected>>

\* The end of the file, or an error; the buffer is dropped.
ReadEnds == /\ walker = "read"
            /\ walker' = "end" /\ holds' = Nothing
            /\ UNCHANGED <<size, next, read, queue, free, taskVars, connected>>

SendEnd == walker = "end" /\ Send(Item("end", Nothing), "entry")

\* The walk is over: both channel ends are dropped.
WalkDone == /\ walker = "entry" /\ next > Len(Walk)
            /\ walker' = "done" /\ free' = 0
            /\ UNCHANGED <<size, next, read, holds, queue, taskVars, connected>>

-----------------------------------------------------------------------------
(* The writing task.                                                       *)

\* A write of the archive reaches the body now or later (BufWriter); it can
\* fail only once the client is gone.  The task's end drops its channel ends.
WriteFails == /\ ~connected
              /\ task' = "failed" /\ hand' = Nothing /\ queue' = <<>>
              /\ UNCHANGED <<entry, archive, free>>

\* try_send of the emptied buffer: dropped when the free channel is full.
ReturnBuffer == /\ hand' = Nothing
                /\ free' = IF free < Queue /\ ~WalkerEnded THEN free + 1 ELSE free

\* recv, between entries.
Receive ==
  /\ task = "recv" /\ queue # <<>>
  /\ LET item == Head(queue)
     IN  /\ entry' = [name |-> item.name, content |-> <<>>]
         /\ task' = CASE item.kind \in {"dir", "whole"} -> "whole"
                      [] item.kind = "start"            -> "start"
                      [] OTHER                          -> "recv"
         /\ hand' = IF item.kind = "whole" THEN item.data ELSE Nothing
  /\ queue' = Tail(queue)
  /\ UNCHANGED <<size, walkerVars, free, archive, delivered, connected>>

\* write_entry_whole, of a directory or a small file.
WriteWhole ==
  /\ task = "whole"
  /\ \/ /\ archive' = Append(archive, [entry EXCEPT !.content = IF hand = Nothing THEN <<>> ELSE hand])
        /\ task' = "recv"
        /\ IF hand = Nothing THEN UNCHANGED <<hand, free>> ELSE ReturnBuffer
        /\ UNCHANGED <<entry, queue>>
     \/ WriteFails
  /\ UNCHANGED <<size, walkerVars, delivered, connected>>

\* write_entry_stream writes the entry's header.
StartEntry ==
  /\ task = "start"
  /\ \/ task' = "stream" /\ UNCHANGED <<entry, hand, archive, queue, free>>
     \/ WriteFails
  /\ UNCHANGED <<size, walkerVars, delivered, connected>>

\* recv, within an entry: a chunk, or anything else ends it.
ReceiveChunk ==
  /\ task = "stream" /\ queue # <<>>
  /\ IF Head(queue).kind = "chunk"
     THEN task' = "chunk" /\ hand' = Head(queue).data
     ELSE task' = "close" /\ UNCHANGED hand
  /\ queue' = Tail(queue)
  /\ UNCHANGED <<size, walkerVars, free, entry, archive, delivered, connected>>

WriteChunk ==
  /\ task = "chunk"
  /\ \/ /\ entry' = [entry EXCEPT !.content = @ \o hand]
        /\ task' = "stream"
        /\ ReturnBuffer
        /\ UNCHANGED <<archive, queue>>
     \/ WriteFails
  /\ UNCHANGED <<size, walkerVars, delivered, connected>>

CloseEntry ==
  /\ task = "close"
  /\ \/ /\ archive' = Append(archive, entry)
        /\ task' = "recv"
        /\ UNCHANGED <<entry, hand, queue, free>>
     \/ WriteFails
  /\ UNCHANGED <<size, walkerVars, delivered, connected>>

\* recv returns None: the walking thread has ended and the queue is empty.
QueueClosed ==
  /\ queue = <<>> /\ WalkerEnded
  /\ task \in {"recv", "stream"}
  /\ task' = IF task = "recv" THEN "finish" ELSE "close"
  /\ UNCHANGED <<size, walkerVars, queue, free, entry, hand, archive, delivered, connected>>

\* Mutant: the BufWriter is dropped with what it still holds.
FinishUnflushed ==
  /\ task = "finish"
  /\ \/ task' = "done" /\ archive' = Append(archive, [name |-> "central directory", content |-> <<>>])
     \/ ~connected /\ task' = "failed" /\ UNCHANGED archive
  /\ UNCHANGED <<size, walkerVars, queue, free, entry, hand, delivered, connected>>

\* close writes the central directory, flush passes on what is still buffered.
Finish ==
  /\ task = "finish"
  /\ \/ /\ task' = "done"
        /\ archive' = Append(archive, [name |-> "central directory", content |-> <<>>])
        /\ delivered' = IF connected THEN Len(archive') ELSE delivered
     \/ ~connected /\ task' = "failed" /\ UNCHANGED <<archive, delivered>>
  /\ UNCHANGED <<size, walkerVars, queue, free, entry, hand, connected>>

\* The BufWriter is full and passes on what it holds.
Spill == /\ connected /\ ~TaskEnded
         /\ delivered < Len(archive)
         /\ delivered' = Len(archive)
         /\ UNCHANGED <<size, walkerVars, queue, free, task, entry, hand, archive, connected>>

-----------------------------------------------------------------------------
(* The rest of the world (external).                                       *)

Resize == /\ \E f \in Files, n \in 0..MaxSize : size' = [size EXCEPT ![f] = n]
          /\ UNCHANGED <<walkerVars, queue, free, taskVars, connected>>

Disconnect == /\ connected
              /\ connected' = FALSE
              /\ UNCHANGED <<size, walkerVars, queue, free, taskVars>>

-----------------------------------------------------------------------------
Init ==
  /\ size \in [Files -> 0..MaxSize]
  /\ walker = "entry" /\ next = 1
  /\ read = [f \in Files |-> 0]
  /\ holds = Nothing
  /\ queue = <<>> /\ free = 0
  /\ task = "recv" /\ entry = [name |-> Nothing, content |-> <<>>] /\ hand = Nothing
  /\ archive = <<>> /\ delivered = 0
  /\ connected = TRUE

WalkerStep == \/ SendDir \/ OpenFile \/ SendEmpty \/ FillBuffer \/ SendWhole \/ FileHasGrown
              \/ SendStart \/ SendChunk \/ NextChunk \/ ReadChunk \/ ReadEnds \/ SendEnd \/ WalkDone

TaskStep == \/ Receive \/ WriteWhole \/ StartEntry \/ ReceiveChunk \/ WriteChunk \/ CloseEntry
            \/ QueueClosed \/ Finish

Next == WalkerStep \/ TaskStep \/ Spill \/ Resize \/ Disconnect

Spec == Init /\ [][Next]_vars

\* Both sides are scheduled; a write ends because the client reads the body or
\* disconnects.
FairSpec == Spec /\ WF_vars(WalkerStep) /\ WF_vars(TaskStep)

-----------------------------------------------------------------------------
(* Properties.                                                             *)

\* Buffers alive: in the item channel, in the free channel, in a hand.
BufferItems      == {i \in 1..Len(queue) : queue[i].data # Nothing}
InHand(content)  == IF content = Nothing THEN 0 ELSE 1
Buffers == Cardinality(BufferItems) + free + InHand(holds) + InHand(hand)

\* Memory is bounded however the two sides are scheduled and however large the
\* files: a buffer is only allocated when none is free ("(ZIP_QUEUE + 2) *
\* ZIP_CHUNK", ZIP_QUEUE).
MemoryBound == Buffers <= Queue + 2

\* The archive holds the entries of the walk, in its order, none skipped,
\* merged or split, and the central directory comes last.
EntriesInOrder ==
  /\ Len(archive) <= Len(Walk) + 1
  /\ \A i \in 1..Len(archive) :
       archive[i].name = IF i <= Len(Walk) THEN Walk[i] ELSE "central directory"

\* A file's entry holds exactly the units read of it, in order: nothing read
\* is dropped or overwritten by the reuse of buffers, also when a file grows
\* past a buffer while its first chunk is read.
ContentIsWhatWasRead ==
  /\ EntriesInOrder
  /\ \A i \in 1..SmallerOf(Len(archive), Len(Walk)) :
       archive[i].content = IF Walk[i] \in Files THEN Units(0, read[Walk[i]]) ELSE <<>>

\* Between entries the task receives no chunk and no end ("by protocol they do
\* not occur alone"): the items of an entry are never taken apart.
ProtocolKept == task = "recv" /\ queue # <<>> => Head(queue).kind \in {"dir", "whole", "start"}

\* A download that ends while the client is there is complete: every entry,
\* the central directory, and nothing of it left in the BufWriter.
FinishedIsComplete ==
  task = "done" /\ connected => Len(archive) = Len(Walk) + 1 /\ delivered = Len(archive)

\* Neither side waits for the other for ever: the walk and the task both end,
\* whether the client reads to the end or disconnects.
BothEnd == <>(WalkerEnded /\ TaskEnded)
=============================================================================
