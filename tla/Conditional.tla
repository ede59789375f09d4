---------------------------- MODULE Conditional ----------------------------
(***************************************************************************)
(* How a request for a file is answered: NamedFile::send_inner with        *)
(* any_match, none_match and http_date_precision                           *)
(* (src/namedfile/src/lib.rs), what upgrade_response                       *)
(* (src/sendfile/src/lib.rs) makes of the head, and what RFC 9110 asks.    *)
(*                                                                         *)
(* A time is a number of ticks since the epoch, a date of a header a       *)
(* number of seconds.  A condition that is absent is None; one that does   *)
(* not parse is Bad, which typed_get gives as None too.                    *)
(***************************************************************************)
EXTENDS Integers, Sequences

CONSTANTS
  TicksPerSecond, \* the resolution of modification times
  None, Bad, Any  \* an absent header, one that does not parse, and `*`

ASSUME TicksAssumption == TicksPerSecond \in Nat \ {0}
ASSUME HeaderAssumption ==
  /\ None \notin Int /\ Bad \notin Int /\ Any \notin Int
  /\ None # Bad /\ None # Any /\ Bad # Any
  /\ None \notin [start : Int, last : Int] /\ None \notin [offset : Int, remaining : Int]

\* http_date_precision, on either side of the epoch.
Second(t) == t \div TicksPerSecond

\* NamedFile::etag and last_modified: a file is [ino, len, mtime]; /pull has both switched
\* off, and a time before the epoch has no ETag.
EtagOf(file, flags) ==
  IF flags /\ file.mtime >= 0 THEN <<file.ino, file.len, file.mtime>> ELSE None
ModifiedOf(file, flags) == IF flags THEN file.mtime ELSE None

-----------------------------------------------------------------------------
\* any_match and none_match; a condition on ETags is a set of them, or Any.
AnyMatch(etag, cond) ==
  \/ cond \in {None, Bad, Any}
  \/ etag # None /\ etag \in cond

NoneMatch(etag, cond) ==
  \/ cond \in {None, Bad}
  \/ cond # Any /\ (etag = None \/ etag \notin cond)

IsDate(x) == x \notin {None, Bad}

PreconditionFailed(etag, modified, q) ==
  \/ ~AnyMatch(etag, q.ifMatch)
  \/ modified # None /\ IsDate(q.ifUnmodifiedSince) /\ q.ifUnmodifiedSince < Second(modified)

\* Mutant: If-Modified-Since counts beside an If-None-Match that passes.
NotModifiedEither(etag, modified, q) ==
  \/ ~NoneMatch(etag, q.ifNoneMatch)
  \/ modified # None /\ IsDate(q.ifModifiedSince) /\ q.ifModifiedSince >= Second(modified)

NotModified(etag, modified, q) ==
  \/ ~NoneMatch(etag, q.ifNoneMatch)
  \/ /\ q.ifNoneMatch = None
     /\ modified # None /\ IsDate(q.ifModifiedSince) /\ q.ifModifiedSince >= Second(modified)

-----------------------------------------------------------------------------
\* HttpRange::parse: the ranges of a Range header that begin inside the file, as they are cut
\* to its size, each at its place in the header; a range is [first, last], with None for an open
\* end, or [suffix].
MinOf(m, n) == IF m < n THEN m ELSE n
Cut(r, size) ==
  IF "suffix" \in DOMAIN r
  THEN [start |-> size - MinOf(r.suffix, size), length |-> MinOf(r.suffix, size)]
  ELSE [start |-> r.first,
        length |-> (IF r.last = None THEN size ELSE MinOf(r.last + 1, size)) - r.first]
Begins(r, size) == "suffix" \in DOMAIN r \/ r.first < size
HttpRange(ranges, size) ==
  [i \in {i \in DOMAIN ranges : Begins(ranges[i], size)} |-> Cut(ranges[i], size)]

\* There is one range, and which it is.
Single(ranges) == \E i \in DOMAIN ranges : DOMAIN ranges = {i}
Only(ranges) == ranges[CHOOSE i \in DOMAIN ranges : TRUE]

Answer(status, offset, length) == [status |-> status, offset |-> offset, length |-> length]
Empty(status) == Answer(status, 0, 0)

\* The byte count of a partial answer.
Clamped(offset, length, size) ==
  MinOf(length, IF offset > size THEN 0 ELSE size - offset)

\* Mutant: Range is looked at before the conditions.
RespondRangeFirst(file, flags, q) ==
  LET etag == EtagOf(file, flags)
      modified == ModifiedOf(file, flags)
      ranges == IF q.range \in {None, Bad} THEN <<>> ELSE HttpRange(q.range, file.len)
  IN IF Single(ranges)
     THEN Answer(206, Only(ranges).start, Clamped(Only(ranges).start, Only(ranges).length, file.len))
     ELSE IF PreconditionFailed(etag, modified, q) THEN Empty(412)
     ELSE IF NotModified(etag, modified, q) THEN Empty(304)
     ELSE Answer(200, 0, file.len)

\* send_inner: a Range header that is not text is Bad.
Respond(file, flags, q) ==
  LET etag == EtagOf(file, flags)
      modified == ModifiedOf(file, flags)
  IN IF PreconditionFailed(etag, modified, q) THEN Empty(412)
     ELSE IF NotModified(etag, modified, q) THEN Empty(304)
     ELSE IF q.range = None THEN Answer(200, 0, file.len)
     ELSE IF q.range = Bad THEN Empty(400)
     ELSE LET ranges == HttpRange(q.range, file.len)
          IN IF Single(ranges)
             THEN Answer(206, Only(ranges).start,
                         Clamped(Only(ranges).start, Only(ranges).length, file.len))
             ELSE IF DOMAIN ranges # {} THEN Answer(200, 0, file.len)
             ELSE Empty(416)

-----------------------------------------------------------------------------
\* The head of a 206: Content-Range cannot say a range of no bytes.
ContentRange(a) == IF a.length = 0 THEN None ELSE [start |-> a.offset, last |-> a.offset + a.length - 1]

\* Mutant: the plan of a 206 starts at the start of the file.
UpgradeFromStart(a) ==
  IF a.status \in {200, 206} /\ a.length > 0
  THEN [offset |-> 0, remaining |-> a.length] ELSE None

\* upgrade_response, header_u64 and range_start: the plan for sendfile read back from the head.
Upgrade(a) ==
  IF a.status \in {200, 206} /\ a.length > 0
  THEN [offset |-> IF a.status = 206 /\ ContentRange(a) # None THEN ContentRange(a).start ELSE 0,
        remaining |-> a.length]
  ELSE None

-----------------------------------------------------------------------------
(* RFC 9110, 13.2.2 and 14.2: conditions in their order, then Range.       *)
(* Conditions that do not parse are passed over, as the code does.         *)

RfcStep1(etag, q)     == q.ifMatch \in {None, Bad, Any} \/ (etag # None /\ etag \in q.ifMatch)
RfcStep2(modified, q) == modified = None \/ ~IsDate(q.ifUnmodifiedSince)
                           \/ Second(modified) <= q.ifUnmodifiedSince
RfcStep3(etag, q)     == q.ifNoneMatch = Bad
                           \/ (q.ifNoneMatch # Any /\ (etag = None \/ etag \notin q.ifNoneMatch))
RfcStep4(modified, q) == modified = None \/ ~IsDate(q.ifModifiedSince)
                           \/ q.ifModifiedSince < Second(modified)
RfcStatus(file, flags, q) ==
  LET etag == EtagOf(file, flags)
      modified == ModifiedOf(file, flags)
  IN CASE q.ifMatch # None /\ ~RfcStep1(etag, q) -> 412
       [] q.ifMatch = None /\ ~RfcStep2(modified, q) -> 412
       [] OTHER ->
          IF (q.ifNoneMatch # None /\ ~RfcStep3(etag, q))
               \/ (q.ifNoneMatch = None /\ ~RfcStep4(modified, q)) THEN 304 ELSE 200
=============================================================================
