------------------------------ MODULE LogSink ------------------------------
(***************************************************************************)
(* The access log's buffer: LogSink of src/app/src/main.rs.  Worker        *)
(* threads append lines to the shard they were given; one writer thread    *)
(* takes the shards' contents and writes them out, then sleeps until it is *)
(* notified or LOG_INTERVAL has passed; when the directory to serve cannot *)
(* be opened, the main thread logs that, flushes as well, and the process  *)
(* exits.  (The flush at the end of main is never reached: the accept loop *)
(* does not return.)  Every critical section is one action, so that        *)
(* appends, notifications and the two walks over the shards interleave.    *)
(***************************************************************************)
EXTENDS Integers, Sequences

CONSTANTS
  Threads,    \* threads that log
  MainThread, \* the one of them that runs main
  NumShards,  \* SHARDS
  Lengths,    \* lengths of the lines
  Batch,      \* LOG_BATCH
  PendingMax, \* LOG_PENDING_MAX_PER_SHARD
  MaxLines,   \* bound on the lines of a thread
  Unassigned  \* no shard yet (usize::MAX)

Shards == 0..(NumShards - 1)

ASSUME SizesAssumption ==
  /\ NumShards \in Nat \ {0} /\ Lengths \subseteq Nat \ {0}
  /\ Batch \in Nat /\ PendingMax \in Nat /\ MaxLines \in Nat
ASSUME ThreadsAssumption == MainThread \in Threads
ASSUME UnassignedAssumption == Unassigned \notin Int

VARIABLES
  shard, nextShard, \* SHARD of each thread; NEXT_SHARD
  lines,            \* lines each thread has logged so far
  notifying,        \* threads between append and notify_one
  pending,          \* what each shard holds: lines, oldest first
  step,             \* where the writer thread and the main thread are
  writing,          \* who holds the lock of that name, or Nobody
  at, wrote, batch, \* flush: shard to visit next, something was written, what was taken
  written,          \* what stdout has been given
  accepted,         \* lines append did not drop, per shard (history)
  due               \* what accepted was when main began to flush (history)

threadVars == <<shard, nextShard, lines, notifying>>
flushVars  == <<at, wrote, batch>>
vars == <<threadVars, pending, step, writing, flushVars, written, accepted, due>>

Writer == "writer"
Main   == "main"
Flushers == {Writer, Main}
Nobody == "nobody"

Bytes(s) == LET sum[i \in 0..Len(s)] == IF i = 0 THEN 0 ELSE sum[i - 1] + s[i].len
            IN  sum[Len(s)]

-----------------------------------------------------------------------------
(* Threads: push is shard_index, append (under the shard's lock), and      *)
(* notify_one when a batch is full.                                        *)

\* Until the directory was opened only main may log, and only that it was not.
MayLog(t) == \/ step[Main] = "serving"
             \/ step[Main] = "starting" /\ t = MainThread /\ lines[t] = 0

\* shard_index of a thread that logs for the first time.
AssignShard(t) ==
  /\ shard[t] = Unassigned /\ MayLog(t)
  /\ shard' = [shard EXCEPT ![t] = nextShard % NumShards]
  /\ nextShard' = nextShard + 1
  /\ UNCHANGED <<lines, notifying, pending, step, writing, flushVars, written, accepted, due>>

\* A line for a shard that is full is dropped, and nobody is notified.
AppendLine(t, len) ==
  LET s    == shard[t]
      line == [by |-> t, number |-> lines[t] + 1, len |-> len]
      longer == Append(pending[s], line)
  IN  /\ s # Unassigned /\ t \notin notifying
      /\ lines[t] < MaxLines /\ MayLog(t)
      /\ lines' = [lines EXCEPT ![t] = @ + 1]
      /\ IF Bytes(pending[s]) >= PendingMax
         THEN UNCHANGED <<pending, accepted, notifying>>
         ELSE /\ pending' = [pending EXCEPT ![s] = longer]
              /\ accepted' = [accepted EXCEPT ![s] = Append(@, line)]
              /\ notifying' = IF Bytes(longer) >= Batch THEN notifying \cup {t} ELSE notifying
      /\ UNCHANGED <<shard, nextShard, step, writing, flushVars, written, due>>

\* A notification that finds nobody waiting is lost.
Notify(t) ==
  /\ t \in notifying
  /\ notifying' = notifying \ {t}
  /\ step' = IF step[Writer] = "wait" THEN [step EXCEPT ![Writer] = "lock"] ELSE step
  /\ UNCHANGED <<shard, nextShard, lines, pending, writing, flushVars, written, accepted, due>>

-----------------------------------------------------------------------------
(* flush, by the writer thread and by the main thread.                     *)

\* Mutant: two flushes may run at a time.
LockUncontended(f) ==
  /\ step[f] = "lock"
  /\ writing' = f
  /\ step' = [step EXCEPT ![f] = "take"]
  /\ UNCHANGED <<threadVars, pending, flushVars, written, accepted, due>>

Lock(f) ==
  /\ step[f] = "lock" /\ writing = Nobody
  /\ writing' = f
  /\ step' = [step EXCEPT ![f] = "take"]
  /\ UNCHANGED <<threadVars, pending, flushVars, written, accepted, due>>

\* Mutant: the shard keeps what was taken.
TakeCopies(f) ==
  /\ step[f] = "take" /\ at[f] \in Shards
  /\ IF pending[at[f]] # <<>>
     THEN step' = [step EXCEPT ![f] = "write"] /\ UNCHANGED at
     ELSE at' = [at EXCEPT ![f] = @ + 1] /\ UNCHANGED step
  /\ batch' = [batch EXCEPT ![f] = pending[at[f]]]
  /\ UNCHANGED <<threadVars, pending, writing, wrote, written, accepted, due>>

\* mem::take of one shard, under that shard's lock.
Take(f) ==
  /\ step[f] = "take" /\ at[f] \in Shards
  /\ IF pending[at[f]] # <<>>
     THEN step' = [step EXCEPT ![f] = "write"] /\ UNCHANGED at
     ELSE at' = [at EXCEPT ![f] = @ + 1] /\ UNCHANGED step
  /\ batch' = [batch EXCEPT ![f] = pending[at[f]]]
  /\ pending' = [pending EXCEPT ![at[f]] = <<>>]
  /\ UNCHANGED <<threadVars, writing, wrote, written, accepted, due>>

\* write_all, outside the shard's lock.
Write(f) ==
  /\ step[f] = "write"
  /\ written' = written \o batch[f]
  /\ batch' = [batch EXCEPT ![f] = <<>>]
  /\ step' = [step EXCEPT ![f] = "take"]
  /\ at' = [at EXCEPT ![f] = @ + 1]
  /\ wrote' = [wrote EXCEPT ![f] = TRUE]
  /\ UNCHANGED <<threadVars, pending, writing, accepted, due>>

\* flush returns, its locals die: the writer thread goes on, the process exits.
After(f, next) == /\ writing' = Nobody
                  /\ step' = [step EXCEPT ![f] = next]
                  /\ at' = [at EXCEPT ![f] = 0]
                  /\ wrote' = [wrote EXCEPT ![f] = FALSE]
                  /\ batch' = [batch EXCEPT ![f] = <<>>]

\* stdout is broken: part of the batch went out; the writer thread ends, or the process.
WriteFails(f) ==
  /\ step[f] = "write"
  /\ \E n \in 0..(Len(batch[f]) - 1) : written' = written \o SubSeq(batch[f], 1, n)
  /\ After(f, "stopped")
  /\ UNCHANGED <<threadVars, pending, accepted, due>>

\* Every shard was visited.  Something was written, so walk again; or wait.
FlushDone(f) ==
  /\ step[f] = "take" /\ at[f] = NumShards
  /\ After(f, IF f = Main THEN "exited" ELSE IF wrote[f] THEN "lock" ELSE "wait")
  /\ UNCHANGED <<threadVars, pending, written, accepted, due>>

\* Mutant: the writer thread waits for a notification only.
WaitUntimed == FALSE /\ UNCHANGED vars

\* wait_timeout ends after LOG_INTERVAL.
WaitTimeout ==
  /\ step[Writer] = "wait"
  /\ step' = [step EXCEPT ![Writer] = "lock"]
  /\ UNCHANGED <<threadVars, pending, writing, flushVars, written, accepted, due>>

\* The directory exists: the server starts.
ServeStarts ==
  /\ step[Main] = "starting" /\ lines[MainThread] = 0
  /\ step' = [step EXCEPT ![Main] = "serving"]
  /\ UNCHANGED <<threadVars, pending, writing, flushVars, written, accepted, due>>

\* It does not, and main has logged that: flush before the process exits.
RootMissing ==
  /\ step[Main] = "starting" /\ lines[MainThread] = 1 /\ MainThread \notin notifying
  /\ step' = [step EXCEPT ![Main] = "lock"]
  /\ due' = accepted
  /\ UNCHANGED <<threadVars, pending, writing, flushVars, written, accepted>>

-----------------------------------------------------------------------------
Init ==
  /\ shard = [t \in Threads |-> Unassigned] /\ nextShard = 0
  /\ lines = [t \in Threads |-> 0]
  /\ notifying = {}
  /\ pending = [s \in Shards |-> <<>>]
  /\ step = [f \in Flushers |-> IF f = Writer THEN "lock" ELSE "starting"]
  /\ writing = Nobody
  /\ at = [f \in Flushers |-> 0] /\ wrote = [f \in Flushers |-> FALSE]
  /\ batch = [f \in Flushers |-> <<>>]
  /\ written = <<>>
  /\ accepted = [s \in Shards |-> <<>>] /\ due = accepted

Flush(f) == Lock(f) \/ Take(f) \/ Write(f) \/ FlushDone(f)

\* Exiting ends every thread.
Exited == step[Main] \in {"exited", "stopped"}

Next ==
  /\ ~Exited
  /\ \/ \E t \in Threads : AssignShard(t) \/ Notify(t) \/ \E len \in Lengths : AppendLine(t, len)
     \/ \E f \in Flushers : Flush(f) \/ WriteFails(f)
     \/ WaitTimeout \/ ServeStarts \/ RootMissing

Spec == Init /\ [][Next]_vars

\* The flushing threads are scheduled, stdout takes what it is given sooner or
\* later, and a timed wait ends.  Nothing is assumed of the threads that log,
\* and the lock need not be fair.
FairSpec == /\ Spec
            /\ \A f \in Flushers : WF_vars(~Exited /\ Flush(f))
            /\ WF_vars(~Exited /\ WaitTimeout)

-----------------------------------------------------------------------------
(* Properties.                                                             *)

\* The lines of the threads that were given a shard.
Of(s, q) == LET of[i \in 0..Len(q)] == IF i = 0 THEN <<>>
                                       ELSE IF shard[q[i].by] = s THEN Append(of[i - 1], q[i])
                                       ELSE of[i - 1]
            IN  of[Len(q)]
Broken         == step[Writer] = "stopped"
InHand(s)      == IF \E f \in Flushers : step[f] = "write" /\ at[f] = s
                  THEN batch[CHOOSE f \in Flushers : step[f] = "write" /\ at[f] = s]
                  ELSE <<>>

\* The lines of a thread come out in the order it logged them, none twice,
\* dropped ones, a broken stdout and the flush at the exit included.
ThreadOrder ==
  \A i, j \in 1..Len(written) :
    i < j /\ written[i].by = written[j].by => written[i].number < written[j].number

\* A shard exceeds its limit by less than one line, however slow stdout is.
PendingBound ==
  \A s \in Shards : pending[s] # <<>> =>
    Bytes(pending[s]) < PendingMax + pending[s][Len(pending[s])].len

\* Every line that was accepted is written, being written or pending, exactly
\* once, the lines of a shard keep their order, and a shard takes no line more
\* than it has room for.
NothingLost ==
  /\ ThreadOrder /\ PendingBound
  /\ ~Broken /\ ~Exited =>
       \A s \in Shards : Of(s, written) \o InHand(s) \o pending[s] = accepted[s]

\* An accepted line is written in the end, notified or not.
Written(t, n) == \E i \in 1..Len(written) : written[i].by = t /\ written[i].number = n
Accepted(t, n) == \E s \in Shards : \E i \in 1..Len(accepted[s]) :
                    accepted[s][i].by = t /\ accepted[s][i].number = n
EventuallyWritten ==
  \A t \in Threads : \A n \in 1..MaxLines :
    Accepted(t, n) ~> (Written(t, n) \/ Broken \/ Exited)

\* The process does not exit before the line that says why is out, also when the
\* writer thread was holding it; unless stdout broke.
ExitWritesAll ==
  step[Main] = "exited" /\ ~Broken =>
    \A s \in Shards : /\ Len(due[s]) <= Len(Of(s, written))
                    /\ due[s] = SubSeq(Of(s, written), 1, Len(due[s]))
=============================================================================
