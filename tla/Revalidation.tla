---------------------------- MODULE Revalidation ----------------------------
(***************************************************************************)
(* A client that keeps a copy of a file, revalidates it, and resumes a     *)
(* download that was cut, while the file is replaced by others: what the   *)
(* answers of Conditional amount to over several requests.                 *)
(*                                                                         *)
(* The client is external: it sends the validators it was given, the way   *)
(* browsers and download tools do.  A version is known to the server by    *)
(* inode, length and modification time; that no two versions agree in all  *)
(* three is assumed (NewVersion).                                          *)
(***************************************************************************)
EXTENDS Conditional, FiniteSets

CONSTANTS
  Inodes, Lengths, Times,  \* what a version of the file can be
  Policies,                \* what the client does with its validators
  Routes,                  \* TRUE for /files, FALSE for /pull
  MaxVersions,             \* bound on the versions there are
  MaxRequests              \* bound on the requests

ASSUME RevalidationAssumption ==
  /\ Inodes \subseteq Nat /\ Lengths \subseteq Nat /\ Times \subseteq Int /\ Routes \subseteq BOOLEAN
  /\ Policies \subseteq {"plain", "revalidate", "match", "ifRange", "any"}
  /\ MaxVersions \in Nat /\ MaxRequests \in Nat
ASSUME TagsAssumption ==
  \A i \in Inodes, l \in Lengths, t \in Times : {<<i, l, t>>} \notin {None, Bad, Any}

VARIABLES
  versions, \* history: the versions there have been; the last is the file
  flags,    \* the route
  q,        \* the request on its way, or None
  a,        \* the answer on its way (with the version it is of), or None
  store,    \* the client's copy: which version each byte it holds is of, the length
            \* and the validators it was given, and whether If-Range was used for it; or None
  asked     \* requests so far

vars == <<versions, flags, q, a, store, asked>>

File == versions[Len(versions)]

NewVersion(v) == \A i \in DOMAIN versions : versions[i] # v

Init ==
  /\ \E i \in Inodes, l \in Lengths, t \in Times :
       versions = <<[ino |-> i, len |-> l, mtime |-> t]>>
  /\ flags \in Routes
  /\ q = None /\ a = None /\ store = None /\ asked = 0

\* Another program replaces the file; its time may lie before that of the last one.
Replace ==
  /\ Len(versions) < MaxVersions
  /\ \E i \in Inodes, l \in Lengths, t \in Times :
       /\ NewVersion([ino |-> i, len |-> l, mtime |-> t])
       /\ versions' = Append(versions, [ino |-> i, len |-> l, mtime |-> t])
  /\ UNCHANGED <<flags, q, a, store, asked>>

-----------------------------------------------------------------------------
(* The client. *)

Plain == [ifMatch |-> None, ifUnmodifiedSince |-> None, ifNoneMatch |-> None,
          ifModifiedSince |-> None, range |-> None, ifRange |-> None]

TagList(e) == IF e = None THEN None ELSE {e}
Date(t) == IF t = None THEN None ELSE Second(t)

Whole == store # None /\ Len(store.bytes) >= store.len
Rest == <<[first |-> Len(store.bytes), last |-> None]>>

\* Requests of every shape, for the comparison with RFC 9110.
Ranges == {None, Bad, <<>>, <<[first |-> 0, last |-> 0]>>, <<[first |-> 1, last |-> None]>>,
           <<[suffix |-> 1]>>, <<[suffix |-> 0]>>, <<[first |-> 0, last |-> 0], [first |-> 1, last |-> 1]>>}
Tags == {None, Bad, Any, {}} \cup {TagList(EtagOf(v, TRUE)) : v \in {versions[1]} \cup {File}}
Dates == {None, Bad} \cup {Second(t) : t \in Times}

Ask(r) ==
  /\ q = None /\ a = None /\ asked < MaxRequests
  /\ q' = r /\ asked' = asked + 1
  /\ UNCHANGED <<versions, flags, a, store>>

AskPlain == "plain" \in Policies /\ Ask(Plain)

AskRevalidate ==
  /\ "revalidate" \in Policies /\ Whole /\ store.etag # None
  /\ Ask([Plain EXCEPT !.ifNoneMatch = {store.etag}, !.ifModifiedSince = Date(store.modified)])

AskMatch ==
  /\ "match" \in Policies /\ store # None /\ ~Whole /\ store.etag # None
  /\ Ask([Plain EXCEPT !.ifMatch = {store.etag}, !.range = Rest])

AskIfRange ==
  /\ "ifRange" \in Policies /\ store # None /\ ~Whole /\ store.etag # None
  /\ Ask([Plain EXCEPT !.ifRange = {store.etag}, !.range = Rest])

\* The first request can be anything.
AskAny ==
  /\ "any" \in Policies /\ asked = 0
  /\ \E im, inm \in Tags, ius, ims \in Dates, r \in Ranges :
       Ask([Plain EXCEPT !.ifMatch = im, !.ifUnmodifiedSince = ius, !.ifNoneMatch = inm,
                         !.ifModifiedSince = ims, !.range = r])

\* The server answers from the version it has opened.
Serve ==
  /\ q # None /\ a = None
  /\ a' = [head |-> Respond(File, flags, q), of |-> Len(versions),
           etag |-> EtagOf(File, flags), modified |-> ModifiedOf(File, flags)]
  /\ UNCHANGED <<versions, flags, q, store, asked>>

\* The copy a download begins with, and the copy with n more bytes.
Begun(n) ==
  [bytes |-> [i \in 1..n |-> a.of], len |-> a.head.length,
   etag |-> a.etag, modified |-> a.modified, byIfRange |-> FALSE]
Continued(n) ==
  [store EXCEPT !.bytes = @ \o [i \in 1..n |-> a.of], !.byIfRange = @ \/ q.ifRange # None]

\* The client takes in an answer, of whose body it may get only the beginning.
Receive ==
  /\ a # None
  /\ q' = None /\ a' = None
  /\ CASE a.head.status = 200 -> \E n \in 0..a.head.length : store' = Begun(n)
       [] a.head.status = 206 /\ store # None /\ a.head.offset = Len(store.bytes) ->
            \E n \in 0..a.head.length : store' = Continued(n)
       [] a.head.status \in {412, 416} -> store' = None
       [] OTHER -> store' = store
  /\ UNCHANGED <<versions, flags, asked>>

Next ==
  \/ Replace \/ AskPlain \/ AskRevalidate \/ AskMatch \/ AskIfRange \/ AskAny
  \/ Serve \/ Receive

Spec == Init /\ [][Next]_vars

-----------------------------------------------------------------------------
(* Properties. *)

\* The status is the one RFC 9110 asks for, Range aside, whatever combination of conditions
\* the request has: except that If-Unmodified-Since counts beside an If-Match that passes.
AgreesWithRfc ==
  a # None /\ (q.ifMatch = None \/ q.ifUnmodifiedSince = None) =>
    LET file == versions[a.of]
        asksFor == RfcStatus(file, flags, q)
    IN IF asksFor = 200 THEN a.head.status \in {200, 206, 400, 416} ELSE a.head.status = asksFor

\* A client told by its ETag that its copy is good has the version the server opened, even when
\* a file with an older time took the place of its version.
ValidatedIsSame ==
  a # None /\ store # None /\ q.ifNoneMatch \notin {None, Any, Bad} /\ a.head.status = 304 =>
    \A i \in DOMAIN store.bytes : store.bytes[i] = a.of

OneVersion == \A i, j \in DOMAIN store.bytes : store.bytes[i] = store.bytes[j]

\* A download resumed under If-Match is made of one version.
ResumedIsWhole == store # None /\ ~store.byIfRange => OneVersion

\* What a 206 says, what it carries and what sendfile is told to send agree, and lie in the file.
RangeAgrees ==
  a # None /\ a.head.status \in {200, 206} =>
    LET plan == Upgrade(a.head)
        size == versions[a.of].len
    IN IF plan = None THEN a.head.length = 0
       ELSE /\ plan.remaining = a.head.length /\ plan.offset + plan.remaining <= size
            /\ plan.offset = a.head.offset
            /\ a.head.status = 206 => ContentRange(a.head).last <= size - 1
=============================================================================
