----------------------------- MODULE AccessLine -----------------------------
(***************************************************************************)
(* The line of the access log: who writes one (log_access and build_router *)
(* of src/app/src/router.rs, access_log of src/app/src/main.rs), the time  *)
(* it carries (with_stamp), and its rendering on the stack or, when it     *)
(* does not fit, in a buffer the thread keeps.                             *)
(*                                                                         *)
(* A line is the sequence of its pieces.  Where it goes then is LogSink.   *)
(***************************************************************************)
EXTENDS Integers, Sequences, SequencesExt

CONSTANTS
  Threads,   \* the workers
  Requests,  \* what can be asked: [via, ip, path], the path being its width
  Fixed,     \* the width of all other pieces together
  Stack,     \* LINE_STACK
  Keep,      \* LINE_KEEP_MAX
  MaxLines,  \* bound on the requests a thread answers
  MaxTime,   \* bound on time, in seconds
  None

AccessLineAssumption ==
  /\ Fixed \in Nat /\ Stack \in Nat /\ Keep \in Nat /\ MaxLines \in Nat /\ MaxTime \in Nat
  /\ Requests \subseteq [via : {"fast", "salvo"}, ip : {"None", "V4", "V6"}, path : Nat]

VARIABLES
  log,      \* AccessLog
  second,   \* the second of the clock
  coarse,   \* the second of the coarse clock, which is behind until its next tick
  stamp,    \* STAMP of each thread: the second it was made for and the one it shows
  buffer,   \* the capacity of each thread's LINE
  task,     \* what each thread does: its step, request, and the second it read
  answered, \* history: the requests each thread has answered, in order
  lines     \* history: the lines each thread has written, in order

vars == <<log, second, coarse, stamp, buffer, task, answered, lines>>

Idle == [pc |-> "idle", req |-> None, read |-> 0]

\* access_log: RUST_LOG may turn the log off, and stdout may be a terminal.
Init ==
  /\ \E enabled, terminal \in BOOLEAN :
       log = IF ~enabled THEN "Off" ELSE IF terminal THEN "Tracing" ELSE "Direct"
  /\ second = 1 /\ coarse = 1
  /\ stamp = [t \in Threads |-> [key |-> 0, text |-> 0]]
  /\ buffer = [t \in Threads |-> 0]
  /\ task = [t \in Threads |-> Idle]
  /\ answered = [t \in Threads |-> <<>>] /\ lines = [t \in Threads |-> <<>>]

Tick ==
  /\ \/ second < MaxTime /\ coarse = second /\ second' = second + 1 /\ coarse' = coarse
     \/ coarse < second /\ coarse' = second /\ second' = second
  /\ UNCHANGED <<log, stamp, buffer, task, answered, lines>>

\* Where log_access is called: on the fast path by FastService::call itself, which leaves the salvo
\* router alone; on the router by the hoop, which build_router hangs in it unless the log is off.
Calls(r) == r.via = "fast" \/ log # "Off"

\* log_access returns early when the log is off.
Logs(r) == Calls(r) /\ log # "Off"

\* A request has been answered: with_stamp reads the second.
Answer(t) ==
  /\ task[t].pc = "idle" /\ Len(answered[t]) < MaxLines
  /\ \E r \in Requests :
       /\ answered' = [answered EXCEPT ![t] = Append(@, r)]
       /\ task' = IF Logs(r) THEN [task EXCEPT ![t] = [pc |-> "stamp", req |-> r, read |-> coarse]]
                  ELSE task
  /\ UNCHANGED <<log, second, coarse, stamp, buffer, lines>>

\* Mutant: made once.
StaleNever(t) == stamp[t].key = 0

Stale(t) == stamp[t].key # task[t].read

\* with_stamp: the text is made from the clock as it is now.
Stamp(t) ==
  /\ task[t].pc = "stamp"
  /\ stamp' = IF Stale(t) THEN [stamp EXCEPT ![t] = [key |-> task[t].read, text |-> second]] ELSE stamp
  /\ task' = [task EXCEPT ![t].pc = "write"]
  /\ UNCHANGED <<log, second, coarse, buffer, answered, lines>>

\* The pieces of a line and their widths; those of fixed width are counted as one, the stamp.
Pieces == <<"stamp", "ip", "path", "rest">>
Width(t, piece) ==
  CASE piece = "stamp" -> Fixed [] piece = "path" -> task[t].req.path [] OTHER -> 1

Length(t) == Width(t, "stamp") + Width(t, "ip") + Width(t, "path") + Width(t, "rest")

\* StackWriter: a piece is written if all before it were, it fits, and it can be written here.
Push(t, w, piece) ==
  IF w.fits /\ w.len + Width(t, piece) <= Stack /\ ~(piece = "ip" /\ task[t].req.ip = "V6")
  THEN [out |-> Append(w.out, piece), len |-> w.len + Width(t, piece), fits |-> TRUE]
  ELSE [w EXCEPT !.fits = FALSE]

\* render_line_stack
Blank == [out |-> <<>>, len |-> 0, fits |-> TRUE]
OnStack(t) == Push(t, Push(t, Push(t, Push(t, Blank, "stamp"), "ip"), "path"), "rest")

Fits(t) == OnStack(t).fits

\* A String grows to twice its capacity, or to what it needs.
Grown(capacity, len) ==
  IF len <= capacity THEN capacity ELSE IF 2 * capacity > len THEN 2 * capacity ELSE len

Kept(capacity) == IF capacity > Keep THEN 0 ELSE capacity

Line(t, pieces) ==
  [req |-> task[t].req, pieces |-> pieces,
   read |-> task[t].read, shows |-> stamp[t].text, at |-> second]

\* The closure of access_log, or tracing with its own buffer.
Write(t) ==
  /\ task[t].pc = "write"
  /\ \/ /\ log = "Direct" /\ Fits(t)
        /\ lines' = [lines EXCEPT ![t] = Append(@, Line(t, OnStack(t).out))]
        /\ buffer' = buffer
     \/ /\ log = "Direct" /\ ~Fits(t)
        /\ lines' = [lines EXCEPT ![t] = Append(@, Line(t, Pieces))]
        /\ buffer' = [buffer EXCEPT ![t] = Kept(Grown(@, Length(t)))]
     \/ /\ log # "Direct"
        /\ lines' = [lines EXCEPT ![t] = Append(@, Line(t, Pieces))]
        /\ buffer' = buffer
  /\ task' = [task EXCEPT ![t] = Idle]
  /\ UNCHANGED <<log, second, coarse, stamp, answered>>

Next == Tick \/ \E t \in Threads : Answer(t) \/ Stamp(t) \/ Write(t)
Spec == Init /\ [][Next]_vars

-----------------------------------------------------------------------------
(* Properties. *)

Busy(t) == task[t].pc # "idle"

\* Every thread has written one line for each request it answered, in their order, but for the
\* one it is at; and none at all when the log is off.
OneLineEach ==
  \A t \in Threads :
    LET told == [i \in DOMAIN lines[t] |-> lines[t][i].req]
    IN told = IF log = "Off" THEN <<>> ELSE IF Busy(t) THEN Front(answered[t]) ELSE answered[t]

\* A line is whole, however long its path, whatever its address.
LineIsWhole == \A t \in Threads : \A i \in DOMAIN lines[t] : lines[t][i].pieces = Pieces

\* The time a line shows is not before the second its thread read when it began it, nor after
\* the time it is written: a kept text is not used too long.
StampIsDue ==
  \A t \in Threads : \A i \in DOMAIN lines[t] :
    lines[t][i].read <= lines[t][i].shows /\ lines[t][i].shows <= lines[t][i].at

\* A thread keeps no buffer larger than LINE_KEEP_MAX, whatever lines it has written.
BufferIsSmall == \A t \in Threads : buffer[t] <= Keep
=============================================================================
