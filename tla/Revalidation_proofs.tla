------------------------- MODULE Revalidation_proofs -------------------------
(***************************************************************************)
(* AgreesWithRfc, ValidatedIsSame and ResumedIsWhole of Revalidation, for  *)
(* any files, times and headers and any number of versions and requests.   *)
(***************************************************************************)
EXTENDS Revalidation, TLAPS

Version == [ino : Inodes, len : Lengths, mtime : Times]
Etags == (Inodes \X Lengths \X Times) \cup {None}
Copy == [bytes : Seq(Nat), len : Lengths, etag : Etags, modified : Int \cup {None}, byIfRange : BOOLEAN]

Types ==
  /\ versions \in Seq(Version) /\ versions # <<>>
  /\ flags \in BOOLEAN
  /\ asked \in Nat

\* No version comes back.
Distinct == \A i, j \in DOMAIN versions : versions[i] = versions[j] => i = j

\* A date a request carries is a number, or none.
DatesAreNumbers ==
  q # None => /\ q.ifUnmodifiedSince \in Int \cup {None, Bad}
              /\ q.ifModifiedSince \in Int \cup {None, Bad}

\* An answer is that of the version it is of to the request on its way.
Answering ==
  a # None =>
    /\ q # None /\ a.of \in DOMAIN versions
    /\ a.head = Respond(versions[a.of], flags, q)
    /\ a.etag = EtagOf(versions[a.of], flags) /\ a.modified = ModifiedOf(versions[a.of], flags)

\* The copy has the validators of the version its download began with, and its bytes are of that
\* version; or of later ones, when If-Range was used.
IsOf(v) ==
  /\ store.etag = EtagOf(versions[v], flags)
  /\ a # None => v <= a.of
  /\ \A i \in DOMAIN store.bytes :
       /\ v <= store.bytes[i] /\ store.bytes[i] <= Len(versions)
       /\ a # None => store.bytes[i] <= a.of
       /\ ~store.byIfRange => store.bytes[i] = v

Copying ==
  store # None =>
    /\ store \in Copy /\ asked > 0
    /\ \E v \in DOMAIN versions : IsOf(v)

\* A request that is made beside a copy carries the copy's own validators.
Asking ==
  q # None =>
    /\ asked > 0
    /\ store # None =>
         /\ q.ifNoneMatch = None \/ (q.ifNoneMatch = {store.etag} /\ store.etag # None)
         /\ q.range # None /\ q.ifRange = None => q.ifMatch = {store.etag} /\ store.etag # None

Inv == Types /\ Distinct /\ DatesAreNumbers /\ Answering /\ Copying /\ Asking

-----------------------------------------------------------------------------
(* What is asked of an answer. *)

LEMMA SecondIsInt == ASSUME NEW t \in Int PROVE Second(t) \in Int
  BY TicksAssumption DEF Second

LEMMA VersionFacts ==
  ASSUME NEW v \in Version, NEW f \in BOOLEAN
  PROVE  /\ v.mtime \in Int /\ v.len \in Lengths
         /\ EtagOf(v, f) \in Etags
         /\ ModifiedOf(v, f) \in Int \cup {None}
  BY RevalidationAssumption DEF Version, EtagOf, ModifiedOf, Etags

\* Versions with the same ETag are the same.
LEMMA EtagTells ==
  ASSUME NEW v \in Version, NEW w \in Version, NEW f \in BOOLEAN,
         EtagOf(v, f) = EtagOf(w, f), EtagOf(v, f) # None
  PROVE  v = w
  BY DEF Version, EtagOf

LEMMA StatusOf ==
  ASSUME NEW file, NEW f, NEW r
  PROVE  /\ Respond(file, f, r).status \in {200, 206, 304, 400, 412, 416}
         /\ Respond(file, f, r).status = 200 => Respond(file, f, r).length = file.len
         /\ Respond(file, f, r).status = 206 => r.range # None /\ AnyMatch(EtagOf(file, f), r.ifMatch)
         /\ Respond(file, f, r).status = 304 =>
              r.ifNoneMatch = None \/ ~NoneMatch(EtagOf(file, f), r.ifNoneMatch)
  BY DEF Respond, Answer, Empty, PreconditionFailed, NotModified

\* The decision of send_inner is that of RFC 9110.
LEMMA Agreement ==
  ASSUME NEW file, NEW f \in BOOLEAN, NEW r, file.mtime \in Int,
         r.ifUnmodifiedSince \in Int \cup {None, Bad}, r.ifModifiedSince \in Int \cup {None, Bad},
         r.ifMatch = None \/ r.ifUnmodifiedSince = None
  PROVE  IF RfcStatus(file, f, r) = 200 THEN Respond(file, f, r).status \in {200, 206, 400, 416}
         ELSE Respond(file, f, r).status = RfcStatus(file, f, r)
<1> DEFINE etag == EtagOf(file, f)
           modified == ModifiedOf(file, f)
<1>1. modified = None \/ (modified \in Int /\ Second(modified) \in Int)
  BY SecondIsInt DEF ModifiedOf
<1> HIDE DEF etag, modified
<1>2. ~AnyMatch(etag, r.ifMatch) <=> r.ifMatch # None /\ ~RfcStep1(etag, r)
  BY HeaderAssumption DEF AnyMatch, RfcStep1
<1>3. ~NoneMatch(etag, r.ifNoneMatch) <=> r.ifNoneMatch # None /\ ~RfcStep3(etag, r)
  BY HeaderAssumption DEF NoneMatch, RfcStep3
<1>4. (modified # None /\ IsDate(r.ifUnmodifiedSince) /\ r.ifUnmodifiedSince < Second(modified))
        <=> ~RfcStep2(modified, r)
  BY <1>1 DEF RfcStep2, IsDate
<1>5. (modified # None /\ IsDate(r.ifModifiedSince) /\ r.ifModifiedSince >= Second(modified))
        <=> ~RfcStep4(modified, r)
  BY <1>1 DEF RfcStep4, IsDate
<1>6. r.ifMatch # None => RfcStep2(modified, r)
  BY DEF RfcStep2, IsDate
<1>7. PreconditionFailed(etag, modified, r)
        <=> (r.ifMatch # None /\ ~RfcStep1(etag, r)) \/ (r.ifMatch = None /\ ~RfcStep2(modified, r))
  BY <1>2, <1>4, <1>6 DEF PreconditionFailed
<1>8. NotModified(etag, modified, r)
        <=> (r.ifNoneMatch # None /\ ~RfcStep3(etag, r)) \/ (r.ifNoneMatch = None /\ ~RfcStep4(modified, r))
  BY <1>3, <1>5 DEF NotModified
<1>9. RfcStatus(file, f, r) = IF PreconditionFailed(etag, modified, r) THEN 412
                              ELSE IF NotModified(etag, modified, r) THEN 304 ELSE 200
  BY <1>7, <1>8 DEF RfcStatus, etag, modified
<1>10. /\ PreconditionFailed(etag, modified, r) => Respond(file, f, r).status = 412
       /\ ~PreconditionFailed(etag, modified, r) /\ NotModified(etag, modified, r) =>
            Respond(file, f, r).status = 304
       /\ ~PreconditionFailed(etag, modified, r) /\ ~NotModified(etag, modified, r) =>
            Respond(file, f, r).status \in {200, 206, 400, 416}
  BY DEF Respond, Answer, Empty, etag, modified
<1> QED
  BY <1>9, <1>10

-----------------------------------------------------------------------------
(* The invariant. *)

LEMMA Start == ASSUME Init PROVE Inv
<1>1. PICK i \in Inodes, l \in Lengths, t \in Times : versions = <<[ino |-> i, len |-> l, mtime |-> t]>>
  BY DEF Init
<1>2. [ino |-> i, len |-> l, mtime |-> t] \in Version
  BY DEF Version
<1>3. Types
  BY <1>1, <1>2, RevalidationAssumption DEF Init, Types
<1>4. Distinct
  BY <1>1 DEF Distinct
<1> QED
  BY <1>3, <1>4 DEF Init, Inv, DatesAreNumbers, Answering, Copying, Asking

\* A step that leaves file and copy alone.
LEMMA SameCopy ==
  ASSUME Inv, UNCHANGED <<versions, flags, store>>, asked' \in Nat, asked' >= asked,
         a' = None \/ a'.of = Len(versions)
  PROVE  Types' /\ Distinct' /\ Copying'
<1>1. Types' /\ Distinct'
  BY DEF Inv, Types, Distinct
<1>2. ASSUME store' # None PROVE Copying'
  <2>1. store # None /\ store \in Copy /\ asked > 0
    BY <1>2 DEF Inv, Copying
  <2>2. PICK v \in DOMAIN versions : IsOf(v)
    BY <2>1 DEF Inv, Copying
  <2>3. v \in DOMAIN versions' /\ IsOf(v)'
    <3>1. v <= Len(versions)
      BY DEF Inv, Types
    <3> QED
      BY <2>2, <3>1 DEF IsOf
  <2>4. asked' > 0
    BY <2>1 DEF Inv, Types
  <2> QED
    BY <2>1, <2>3, <2>4 DEF Copying
<1> QED
  BY <1>1, <1>2 DEF Copying

\* A request is made: what a request must be for the invariant.
LEMMA AskStep ==
  ASSUME Inv, NEW r, Ask(r),
         r.ifUnmodifiedSince \in Int \cup {None, Bad}, r.ifModifiedSince \in Int \cup {None, Bad},
         store # None =>
           /\ r.ifNoneMatch = None \/ (r.ifNoneMatch = {store.etag} /\ store.etag # None)
           /\ r.range # None /\ r.ifRange = None => r.ifMatch = {store.etag} /\ store.etag # None
  PROVE  Inv'
<1>1. asked' \in Nat /\ asked' > 0 /\ asked' >= asked
  BY DEF Ask, Inv, Types
<1>2. a' = None /\ q' = r /\ UNCHANGED <<versions, flags, store>>
  BY DEF Ask
<1>3. Types' /\ Distinct' /\ Copying'
  BY <1>1, <1>2, SameCopy
<1>4. DatesAreNumbers' /\ Answering' /\ Asking'
  BY <1>1, <1>2 DEF DatesAreNumbers, Answering, Asking
<1> QED
  BY <1>3, <1>4 DEF Inv

LEMMA PlainStep == ASSUME Inv, AskPlain PROVE Inv'
<1>1. Ask(Plain)
  BY DEF AskPlain
<1> QED
  BY <1>1, AskStep DEF Plain

\* The date of a copy.
LEMMA DateOfCopy == ASSUME NEW t \in Int \cup {None} PROVE Date(t) \in Int \cup {None, Bad}
  BY SecondIsInt DEF Date

LEMMA RevalidateStep == ASSUME Inv, AskRevalidate PROVE Inv'
<1> DEFINE r == [Plain EXCEPT !.ifNoneMatch = {store.etag}, !.ifModifiedSince = Date(store.modified)]
<1>1. Ask(r) /\ store # None /\ store.etag # None
  BY DEF AskRevalidate, Whole
<1>2. store.modified \in Int \cup {None}
  BY <1>1 DEF Inv, Copying, Copy
<1>3. r.ifModifiedSince \in Int \cup {None, Bad} /\ r.ifUnmodifiedSince = None /\ r.range = None
        /\ r.ifNoneMatch = {store.etag}
  BY <1>2, DateOfCopy DEF Plain
<1> HIDE DEF r
<1> QED
  BY <1>1, <1>3, AskStep

LEMMA MatchStep == ASSUME Inv, AskMatch PROVE Inv'
<1> DEFINE r == [Plain EXCEPT !.ifMatch = {store.etag}, !.range = Rest]
<1>1. Ask(r) /\ store # None /\ store.etag # None
  BY DEF AskMatch
<1>2. /\ r.ifModifiedSince = None /\ r.ifUnmodifiedSince = None /\ r.ifNoneMatch = None
      /\ r.ifMatch = {store.etag}
  BY DEF Plain
<1> HIDE DEF r
<1> QED
  BY <1>1, <1>2, AskStep

LEMMA IfRangeStep == ASSUME Inv, AskIfRange PROVE Inv'
<1> DEFINE r == [Plain EXCEPT !.ifRange = {store.etag}, !.range = Rest]
<1>1. Ask(r) /\ store # None /\ store.etag # None
  BY DEF AskIfRange
<1>2. /\ r.ifModifiedSince = None /\ r.ifUnmodifiedSince = None /\ r.ifNoneMatch = None
      /\ r.ifRange = {store.etag}
  BY DEF Plain
<1>3. store.etag \in Inodes \X Lengths \X Times
  BY <1>1 DEF Inv, Copying, Copy, Etags
<1> HIDE DEF r
<1>4. r.ifRange # None
  BY <1>2, <1>3, TagsAssumption
<1> QED
  BY <1>1, <1>2, <1>4, AskStep

LEMMA AnyStep == ASSUME Inv, AskAny PROVE Inv'
<1>1. PICK im \in Tags, inm \in Tags, ius \in Dates, ims \in Dates, rg \in Ranges :
        Ask([Plain EXCEPT !.ifMatch = im, !.ifUnmodifiedSince = ius, !.ifNoneMatch = inm,
                          !.ifModifiedSince = ims, !.range = rg])
  BY DEF AskAny
<1> DEFINE r == [Plain EXCEPT !.ifMatch = im, !.ifUnmodifiedSince = ius, !.ifNoneMatch = inm,
                              !.ifModifiedSince = ims, !.range = rg]
<1>2. r.ifUnmodifiedSince = ius /\ r.ifModifiedSince = ims
  BY DEF Plain
<1>3. Dates \subseteq Int \cup {None, Bad}
  BY SecondIsInt, RevalidationAssumption DEF Dates
<1>4. store = None
  BY DEF AskAny, Inv, Copying
<1> HIDE DEF r
<1> QED
  BY <1>1, <1>2, <1>3, <1>4, AskStep DEF r

LEMMA ServeStep == ASSUME Inv, Serve PROVE Inv'
<1>1. /\ q # None /\ UNCHANGED <<versions, flags, q, store, asked>> /\ a'.of = Len(versions)
      /\ a'.head = Respond(File, flags, q)
      /\ a'.etag = EtagOf(File, flags) /\ a'.modified = ModifiedOf(File, flags)
  BY DEF Serve
<1>2. Len(versions) \in DOMAIN versions /\ File = versions[Len(versions)]
  BY DEF Inv, Types, File
<1>3. Answering'
  BY <1>1, <1>2 DEF Answering
<1>5. asked' \in Nat /\ asked' >= asked
  BY <1>1 DEF Inv, Types
<1>6. Types' /\ Distinct' /\ Copying'
  BY <1>1, <1>5, SameCopy
<1>7. DatesAreNumbers' /\ Asking'
  BY <1>1 DEF Inv, DatesAreNumbers, Asking
<1> QED
  BY <1>3, <1>6, <1>7 DEF Inv

LEMMA ReplaceStep == ASSUME Inv, Replace PROVE Inv'
<1>1. PICK i \in Inodes, l \in Lengths, t \in Times :
        /\ NewVersion([ino |-> i, len |-> l, mtime |-> t])
        /\ versions' = Append(versions, [ino |-> i, len |-> l, mtime |-> t])
  BY DEF Replace
<1>2. UNCHANGED <<flags, q, a, store, asked>>
  BY DEF Replace
<1>3. PICK n \in Version : n = [ino |-> i, len |-> l, mtime |-> t]
  BY DEF Version
<1>4. versions \in Seq(Version) /\ versions # <<>> /\ versions' = Append(versions, n) /\ NewVersion(n)
  BY <1>1, <1>3 DEF Inv, Types
<1>5. /\ versions' \in Seq(Version) /\ versions' # <<>>
      /\ Len(versions') = Len(versions) + 1 /\ Len(versions) \in Nat
      /\ DOMAIN versions = 1..Len(versions) /\ DOMAIN versions' = 1..Len(versions) + 1
      /\ \A k \in DOMAIN versions : versions'[k] = versions[k]
      /\ versions'[Len(versions) + 1] = n
  BY <1>4
<1>6. DOMAIN versions \subseteq DOMAIN versions'
  BY <1>5
<1>7. Types'
  BY <1>2, <1>5 DEF Inv, Types
<1>8. Distinct'
  <2> SUFFICES ASSUME NEW j \in DOMAIN versions', NEW k \in DOMAIN versions', versions'[j] = versions'[k]
               PROVE  j = k
    BY DEF Distinct
  <2>1. CASE j \in DOMAIN versions /\ k \in DOMAIN versions
    BY <2>1, <1>5 DEF Inv, Distinct
  <2>2. CASE j \notin DOMAIN versions /\ k \notin DOMAIN versions
    BY <2>2, <1>5
  <2>3. CASE j \in DOMAIN versions /\ k \notin DOMAIN versions
    <3>1. k = Len(versions) + 1
      BY <2>3, <1>5
    <3> QED
      BY <2>3, <3>1, <1>4, <1>5 DEF NewVersion
  <2>4. CASE j \notin DOMAIN versions /\ k \in DOMAIN versions
    <3>1. j = Len(versions) + 1
      BY <2>4, <1>5
    <3> QED
      BY <2>4, <3>1, <1>4, <1>5 DEF NewVersion
  <2> QED
    BY <2>1, <2>2, <2>3, <2>4
<1>9. Answering'
  BY <1>2, <1>5, <1>6 DEF Inv, Answering
<1>10. ASSUME store # None PROVE Copying'
  <2>1. PICK v \in DOMAIN versions : IsOf(v)
    BY <1>10 DEF Inv, Copying
  <2>2. store \in Copy /\ \A k \in DOMAIN store.bytes : store.bytes[k] \in Nat
    BY <1>10 DEF Inv, Copying, Copy
  <2>3. IsOf(v)'
    BY <2>1, <2>2, <1>2, <1>5 DEF IsOf
  <2>4. v \in DOMAIN versions'
    BY <1>6
  <2> QED
    BY <2>2, <2>3, <2>4, <1>2, <1>10 DEF Inv, Copying
<1>11. Copying'
  BY <1>2, <1>10 DEF Copying
<1>12. DatesAreNumbers' /\ Asking'
  BY <1>2 DEF Inv, DatesAreNumbers, Asking
<1> QED
  BY <1>7, <1>8, <1>9, <1>11, <1>12 DEF Inv

\* Bytes are added to a copy.
LEMMA Longer ==
  ASSUME NEW s \in Seq(Nat), NEW n \in Int, 0 <= n, NEW v \in Nat
  PROVE  LET s2 == s \o [i \in 1..n |-> v] IN
           /\ s2 \in Seq(Nat)
           /\ \A i \in DOMAIN s2 : (i \in DOMAIN s /\ s2[i] = s[i]) \/ s2[i] = v
<1>1. [i \in 1..n |-> v] \in Seq(Nat) /\ Len([i \in 1..n |-> v]) = n
  OBVIOUS
<1> DEFINE w == [i \in 1..n |-> v]
<1>2. \A i \in 1..n : w[i] = v
  OBVIOUS
<1> HIDE DEF w
<1>3. s \o w \in Seq(Nat) /\ DOMAIN (s \o w) = 1..(Len(s) + Len(w))
        /\ \A i \in 1..(Len(s) + Len(w)) : (s \o w)[i] = IF i <= Len(s) THEN s[i] ELSE w[i - Len(s)]
  BY <1>1 DEF w
<1>4. Len(s) \in Nat /\ DOMAIN s = 1..Len(s) /\ Len(w) = n
  BY <1>1 DEF w
<1> QED
  BY <1>2, <1>3, <1>4 DEF w

LEMMA ReceiveStep == ASSUME Inv, Receive PROVE Inv'
<1>1. /\ a # None /\ q # None /\ q' = None /\ a' = None /\ UNCHANGED <<versions, flags, asked>>
      /\ asked > 0 /\ a.of \in DOMAIN versions /\ a.head = Respond(versions[a.of], flags, q)
      /\ a.etag = EtagOf(versions[a.of], flags) /\ a.modified = ModifiedOf(versions[a.of], flags)
  BY DEF Receive, Inv, Answering, Asking
<1>2. Types' /\ Distinct' /\ DatesAreNumbers' /\ Answering' /\ Asking'
  BY <1>1 DEF Inv, Types, Distinct, DatesAreNumbers, Answering, Asking
<1>3. versions[a.of] \in Version /\ a.of \in Nat /\ a.of <= Len(versions) /\ flags \in BOOLEAN
        /\ Len(versions) \in Nat
  BY <1>1 DEF Inv, Types
<1>4. Copying'
  <2>1. CASE a.head.status = 200
    <3>1. PICK n \in 0..a.head.length :
            store' = [bytes |-> [i \in 1..n |-> a.of], len |-> a.head.length,
                      etag |-> a.etag, modified |-> a.modified, byIfRange |-> FALSE]
      BY <2>1 DEF Receive, Begun
    <3>2. a.head.length \in Lengths /\ a.etag \in Etags /\ a.modified \in Int \cup {None}
      BY <1>1, <1>3, <2>1, StatusOf, VersionFacts
    <3>3. n \in Int /\ 0 <= n
      OBVIOUS
    <3>4. [i \in 1..n |-> a.of] \in Seq(Nat)
      BY <1>3, <3>3
    <3>5. store' \in Copy
      BY <3>1, <3>2, <3>4 DEF Copy
    <3>6. /\ store'.etag = EtagOf(versions'[a.of], flags')
          /\ \A i \in DOMAIN store'.bytes : store'.bytes[i] = a.of
      BY <1>1, <3>1, <3>3
    <3>7. PICK v \in DOMAIN versions : v = a.of
      BY <1>1
    <3>8. IsOf(v)'
      BY <1>1, <1>3, <3>6, <3>7 DEF IsOf
    <3> QED
      BY <1>1, <3>5, <3>8 DEF Copying
  <2>2. CASE a.head.status = 206 /\ store # None /\ a.head.offset = Len(store.bytes)
    <3>1. PICK n \in 0..a.head.length : store' = Continued(n)
      <4>1. a.head.status # 200
        BY <2>2
      <4> QED
        BY <2>2, <4>1 DEF Receive
    <3>2. store \in Copy
      BY <1>1, <2>2 DEF Inv, Copying
    <3>3. PICK v \in DOMAIN versions : IsOf(v)
      BY <2>2 DEF Inv, Copying
    <3>4. n \in Int /\ 0 <= n /\ store.bytes \in Seq(Nat) /\ store.byIfRange \in BOOLEAN
      BY <3>2 DEF Copy
    <3> DEFINE s2 == store.bytes \o [i \in 1..n |-> a.of]
    <3>5. s2 \in Seq(Nat) /\ \A i \in DOMAIN s2 : (i \in DOMAIN store.bytes /\ s2[i] = store.bytes[i]) \/ s2[i] = a.of
      BY <1>3, <3>4, Longer
    <3>6. store' = [store EXCEPT !.bytes = s2, !.byIfRange = store.byIfRange \/ q.ifRange # None]
      BY <3>1 DEF Continued
    <3> HIDE DEF s2
    <3>7. /\ store' \in Copy /\ store'.bytes = s2 /\ store'.etag = store.etag
          /\ store'.byIfRange = (store.byIfRange \/ q.ifRange # None)
      BY <3>2, <3>5, <3>6 DEF Copy
    <3>8. v \in Nat /\ versions[v] \in Version
      BY <3>3 DEF Inv, Types
    <3>9. q.range # None /\ AnyMatch(EtagOf(versions[a.of], flags), q.ifMatch)
      BY <1>1, <2>2, StatusOf
    <3>10. q.ifRange = None => EtagOf(versions[a.of], flags) = store.etag /\ store.etag # None
      <4>1. q.ifRange = None => q.ifMatch = {store.etag} /\ store.etag # None
        BY <1>1, <2>2, <3>9 DEF Inv, Asking
      <4>2. store.etag # None => {store.etag} \notin {None, Bad, Any}
        BY <3>2, TagsAssumption DEF Copy, Etags
      <4> QED
        BY <3>9, <4>1, <4>2 DEF AnyMatch
    <3>11. q.ifRange = None => a.of = v
      <4> SUFFICES ASSUME q.ifRange = None PROVE a.of = v
        OBVIOUS
      <4>1. EtagOf(versions[a.of], flags) = EtagOf(versions[v], flags) /\ EtagOf(versions[v], flags) # None
        BY <3>3, <3>10 DEF IsOf
      <4>2. versions[a.of] = versions[v]
        BY <4>1, <1>3, <3>8, EtagTells
      <4> QED
        BY <4>2, <1>1, <3>3 DEF Inv, Distinct
    <3>12. v <= a.of
      BY <1>1, <3>3 DEF IsOf
    <3>13. IsOf(v)'
      BY <1>1, <1>3, <3>3, <3>5, <3>7, <3>11, <3>12 DEF IsOf
    <3> QED
      BY <1>1, <3>3, <3>7, <3>13 DEF Copying
  <2>3. CASE a.head.status \in {412, 416}
    BY <2>3 DEF Receive, Copying
  <2>4. CASE store' = store
    <3>1. ASSUME store # None PROVE Copying'
      <4>1. PICK v \in DOMAIN versions : IsOf(v)
        BY <3>1 DEF Inv, Copying
      <4>2. IsOf(v)'
        BY <4>1, <1>1, <2>4 DEF IsOf
      <4> QED
        BY <3>1, <4>2, <1>1, <2>4 DEF Inv, Copying
    <3> QED
      BY <3>1, <2>4 DEF Copying
  <2> QED
    BY <2>1, <2>2, <2>3, <2>4 DEF Receive
<1> QED
  BY <1>2, <1>4 DEF Inv

LEMMA Invariance == Spec => []Inv
<1>1. Init => Inv
  BY Start
<1>2. Inv /\ [Next]_vars => Inv'
  <2> SUFFICES ASSUME Inv, [Next]_vars PROVE Inv'
    OBVIOUS
  <2>1. CASE Replace
    BY <2>1, ReplaceStep
  <2>2. CASE AskPlain
    BY <2>2, PlainStep
  <2>3. CASE AskRevalidate
    BY <2>3, RevalidateStep
  <2>4. CASE AskMatch
    BY <2>4, MatchStep
  <2>5. CASE AskIfRange
    BY <2>5, IfRangeStep
  <2>6. CASE AskAny
    BY <2>6, AnyStep
  <2>7. CASE Serve
    BY <2>7, ServeStep
  <2>8. CASE Receive
    BY <2>8, ReceiveStep
  <2>9. CASE UNCHANGED vars
    BY <2>9 DEF vars, Inv, Types, Distinct, DatesAreNumbers, Answering, Copying, IsOf, Asking
  <2> QED
    BY <2>1, <2>2, <2>3, <2>4, <2>5, <2>6, <2>7, <2>8, <2>9 DEF Next
<1> QED
  BY <1>1, <1>2, PTL DEF Spec

-----------------------------------------------------------------------------
(* The theorems. *)

\* The status of every answer is the one RFC 9110 asks for, whatever the conditions of its
\* request: the order of send_inner is the order of the RFC.
THEOREM StatusIsThatOfTheRfc == Spec => []AgreesWithRfc
<1>1. Inv => AgreesWithRfc
  <2> SUFFICES ASSUME Inv, a # None, q.ifMatch = None \/ q.ifUnmodifiedSince = None
               PROVE  IF RfcStatus(versions[a.of], flags, q) = 200
                      THEN a.head.status \in {200, 206, 400, 416}
                      ELSE a.head.status = RfcStatus(versions[a.of], flags, q)
    BY DEF AgreesWithRfc
  <2>1. q # None /\ a.of \in DOMAIN versions /\ a.head = Respond(versions[a.of], flags, q)
    BY DEF Inv, Answering
  <2>2. flags \in BOOLEAN /\ versions[a.of] \in Version
    BY <2>1 DEF Inv, Types
  <2>3. versions[a.of].mtime \in Int
    BY <2>2, VersionFacts
  <2>4. q.ifUnmodifiedSince \in Int \cup {None, Bad} /\ q.ifModifiedSince \in Int \cup {None, Bad}
    BY <2>1 DEF Inv, DatesAreNumbers
  <2> QED
    BY <2>1, <2>2, <2>3, <2>4, Agreement
<1> QED
  BY <1>1, Invariance, PTL

\* A client that is told by its ETag that its copy is good has the version the server opened:
\* no later version, were its time older or its length the same, passes for it.
THEOREM ToldItsOwn == Spec => []ValidatedIsSame
<1>1. Inv => ValidatedIsSame
  <2> SUFFICES ASSUME Inv, a # None, store # None, q.ifNoneMatch \notin {None, Any, Bad},
                      a.head.status = 304, NEW i \in DOMAIN store.bytes
               PROVE  store.bytes[i] = a.of
    BY DEF ValidatedIsSame
  <2>1. /\ q # None /\ a.of \in DOMAIN versions /\ a.head = Respond(versions[a.of], flags, q)
        /\ flags \in BOOLEAN /\ versions[a.of] \in Version
    BY DEF Inv, Types, Answering
  <2>2. q.ifNoneMatch = {store.etag} /\ store.etag # None
    BY <2>1 DEF Inv, Asking
  <2>3. EtagOf(versions[a.of], flags) = store.etag
    BY <2>1, <2>2, StatusOf DEF NoneMatch
  <2>4. PICK v \in DOMAIN versions : IsOf(v)
    BY DEF Inv, Copying
  <2>5. versions[v] \in Version
    BY <2>4 DEF Inv, Types
  <2>6. EtagOf(versions[a.of], flags) = EtagOf(versions[v], flags) /\ EtagOf(versions[v], flags) # None
    BY <2>2, <2>3, <2>4 DEF IsOf
  <2>7. v = a.of
    BY <2>1, <2>4, <2>5, <2>6, EtagTells DEF Inv, Distinct
  <2>8. v \in Nat /\ store.bytes[i] \in Nat
    BY <2>4 DEF Inv, Types, Copying, Copy
  <2> QED
    BY <2>4, <2>7, <2>8 DEF IsOf
<1> QED
  BY <1>1, Invariance, PTL

\* A download that is resumed under If-Match, however often it is cut and whatever takes the
\* place of the file meanwhile, is made of one version.
THEOREM ResumedUnderIfMatch == Spec => []ResumedIsWhole
<1>1. Inv => ResumedIsWhole
  BY DEF Inv, Copying, IsOf, ResumedIsWhole, OneVersion
<1> QED
  BY <1>1, Invariance, PTL

-----------------------------------------------------------------------------
(* What is sent of a file. *)

\* A range that parses: its last byte is not before its first.
RangeSpec ==
  [suffix : Nat] \cup
  {r \in [first : Nat, last : Nat \cup {None}] : r.last = None \/ r.first <= r.last}

\* A Range header that is text is a sequence of ranges.
RangesAreSound == q # None /\ q.range \notin {None, Bad} => q.range \in Seq(RangeSpec)

\* A range that begins inside a file is cut to what there is of it.
LEMMA CutIsInside ==
  ASSUME NEW r \in RangeSpec, NEW size \in Nat, Begins(r, size)
  PROVE  /\ Cut(r, size).start \in Nat /\ Cut(r, size).length \in Nat
         /\ Cut(r, size).start + Cut(r, size).length <= size
<1>1. CASE r \in [suffix : Nat]
  <2>1. "suffix" \in DOMAIN r /\ r.suffix \in Nat
    BY <1>1
  <2>2. Cut(r, size) = [start |-> size - MinOf(r.suffix, size), length |-> MinOf(r.suffix, size)]
    BY <2>1 DEF Cut
  <2> QED
    BY <2>1, <2>2 DEF MinOf
<1>2. CASE r \in [first : Nat, last : Nat \cup {None}] /\ (r.last = None \/ r.first <= r.last)
  <2>1. "suffix" \notin DOMAIN r /\ r.first \in Nat /\ r.last \in Nat \cup {None}
    BY <1>2
  <2>2. r.first < size
    BY <2>1 DEF Begins
  <2>3. Cut(r, size) = [start |-> r.first,
          length |-> (IF r.last = None THEN size ELSE MinOf(r.last + 1, size)) - r.first]
    BY <2>1 DEF Cut
  <2>4. CASE r.last = None
    BY <2>1, <2>2, <2>3, <2>4
  <2>5. CASE r.last # None
    <3>1. r.last \in Nat /\ r.first <= r.last
      BY <1>2, <2>1, <2>5
    <3>2. MinOf(r.last + 1, size) \in Nat /\ r.first <= MinOf(r.last + 1, size)
            /\ MinOf(r.last + 1, size) <= size
      BY <3>1, <2>1, <2>2 DEF MinOf
    <3>3. Cut(r, size).start = r.first /\ Cut(r, size).length = MinOf(r.last + 1, size) - r.first
      BY <2>3, <2>5
    <3> QED
      BY <3>2, <3>3, <2>1
  <2> QED
    BY <2>4, <2>5
<1> QED
  BY <1>1, <1>2 DEF RangeSpec

\* The one range of a header that begins inside a file is one of the header's, cut.
LEMMA OnlyIsInside ==
  ASSUME NEW ranges \in Seq(RangeSpec), NEW size \in Nat, Single(HttpRange(ranges, size))
  PROVE  LET o == Only(HttpRange(ranges, size)) IN
           o.start \in Nat /\ o.length \in Nat /\ o.start + o.length <= size
<1> DEFINE h == HttpRange(ranges, size)
<1>1. DOMAIN h = {i \in DOMAIN ranges : Begins(ranges[i], size)}
  BY DEF HttpRange
<1>2. \A i \in DOMAIN h : h[i] = Cut(ranges[i], size) /\ ranges[i] \in RangeSpec
  BY DEF HttpRange
<1> HIDE DEF h
<1>3. PICK i : i \in DOMAIN h /\ h[i] = Only(h)
  <2>1. DOMAIN h # {}
    BY DEF h, Single
  <2> QED
    BY <2>1 DEF Only
<1>4. ranges[i] \in RangeSpec /\ Begins(ranges[i], size) /\ Only(h) = Cut(ranges[i], size)
  BY <1>1, <1>2, <1>3
<1> QED
  BY <1>4, CutIsInside DEF h

LEMMA RangesStep == ASSUME Inv, RangesAreSound, [Next]_vars PROVE RangesAreSound'
<1>1. ASSUME NEW r, Ask(r), r.range \in {None, Bad} \cup Seq(RangeSpec) PROVE RangesAreSound'
  BY <1>1 DEF Ask, RangesAreSound
<1>2. CASE AskPlain
  BY <1>1, <1>2 DEF AskPlain, Plain
<1>3. CASE AskRevalidate
  <2> DEFINE r == [Plain EXCEPT !.ifNoneMatch = {store.etag}, !.ifModifiedSince = Date(store.modified)]
  <2>1. Ask(r) /\ r.range = None
    BY <1>3 DEF AskRevalidate, Plain
  <2> HIDE DEF r
  <2> QED
    BY <1>1, <2>1
<1>4. ASSUME store # None PROVE Rest \in Seq(RangeSpec)
  <2>1. Len(store.bytes) \in Nat
    BY <1>4 DEF Inv, Copying, Copy
  <2>2. [first |-> Len(store.bytes), last |-> None] \in RangeSpec
    BY <2>1 DEF RangeSpec
  <2> QED
    BY <2>2 DEF Rest
<1>5. CASE AskMatch
  <2> DEFINE r == [Plain EXCEPT !.ifMatch = {store.etag}, !.range = Rest]
  <2>1. Ask(r) /\ r.range = Rest
    BY <1>5 DEF AskMatch, Plain
  <2> HIDE DEF r
  <2>2. store # None
    BY <1>5 DEF AskMatch
  <2> QED
    BY <1>1, <1>4, <2>1, <2>2
<1>6. CASE AskIfRange
  <2> DEFINE r == [Plain EXCEPT !.ifRange = {store.etag}, !.range = Rest]
  <2>1. Ask(r) /\ r.range = Rest
    BY <1>6 DEF AskIfRange, Plain
  <2> HIDE DEF r
  <2>2. store # None
    BY <1>6 DEF AskIfRange
  <2> QED
    BY <1>1, <1>4, <2>1, <2>2
<1>7. CASE AskAny
  <2>0. PICK im \in Tags, inm \in Tags, ius \in Dates, ims \in Dates, rg \in Ranges :
          Ask([Plain EXCEPT !.ifMatch = im, !.ifUnmodifiedSince = ius, !.ifNoneMatch = inm,
                            !.ifModifiedSince = ims, !.range = rg])
    BY <1>7 DEF AskAny
  <2> DEFINE r == [Plain EXCEPT !.ifMatch = im, !.ifUnmodifiedSince = ius, !.ifNoneMatch = inm,
                                !.ifModifiedSince = ims, !.range = rg]
  <2>1. Ask(r) /\ r.range \in Ranges
    BY <2>0 DEF Plain
  <2> HIDE DEF r
  <2>2. /\ [first |-> 0, last |-> 0] \in RangeSpec /\ [first |-> 1, last |-> 1] \in RangeSpec
        /\ [first |-> 1, last |-> None] \in RangeSpec
        /\ [suffix |-> 0] \in RangeSpec /\ [suffix |-> 1] \in RangeSpec
    BY DEF RangeSpec
  <2>3. Ranges \subseteq {None, Bad} \cup Seq(RangeSpec)
    BY <2>2 DEF Ranges
  <2> QED
    BY <1>1, <2>1, <2>3
<1>8. CASE Replace
  BY <1>8 DEF Replace, RangesAreSound
<1>9. CASE Serve
  BY <1>9 DEF Serve, RangesAreSound
<1>10. CASE Receive
  BY <1>10 DEF Receive, RangesAreSound
<1>11. CASE UNCHANGED vars
  BY <1>11 DEF vars, RangesAreSound
<1> QED
  BY <1>2, <1>3, <1>5, <1>6, <1>7, <1>8, <1>9, <1>10, <1>11 DEF Next

\* A partial answer is of a part of the file.
LEMMA PartOfFile ==
  ASSUME NEW file, NEW f, NEW r, file.len \in Nat, Respond(file, f, r).status = 206,
         r.range \notin {None, Bad} => r.range \in Seq(RangeSpec)
  PROVE  LET h == Respond(file, f, r) IN
           h.offset \in Nat /\ h.length \in Nat /\ h.offset + h.length <= file.len
<1> DEFINE h == Respond(file, f, r)
           o == Only(HttpRange(r.range, file.len))
<1>1. /\ r.range \notin {None, Bad} /\ Single(HttpRange(r.range, file.len))
      /\ h.offset = o.start /\ h.length = Clamped(o.start, o.length, file.len)
  BY DEF Respond, Answer, Empty
<1>2. o.start \in Nat /\ o.length \in Nat /\ o.start + o.length <= file.len
  BY <1>1, OnlyIsInside
<1> HIDE DEF h, o
<1>3. Clamped(o.start, o.length, file.len) = o.length
  BY <1>2 DEF Clamped, MinOf
<1> QED
  BY <1>1, <1>2, <1>3 DEF h

LEMMA LengthIsNat == \A v \in Version : v.len \in Nat
<1>1. \A v \in Version : v.len \in Lengths
  BY DEF Version
<1>2. \A l \in Lengths : l \in Nat
  BY RevalidationAssumption
<1> QED
  BY <1>1, <1>2, Zenon

\* A head and the plan read back from it.
Agrees(h, size) ==
  LET plan == Upgrade(h)
  IN IF plan = None THEN h.length = 0
     ELSE /\ plan.remaining = h.length /\ plan.offset + plan.remaining <= size
          /\ plan.offset = h.offset
          /\ h.status = 206 => ContentRange(h).last <= size - 1

LEMMA HeadAgrees ==
  ASSUME NEW h, NEW size \in Nat,
         \/ h.status = 200 /\ h.offset = 0 /\ h.length = size
         \/ h.status = 206 /\ h.offset \in Nat /\ h.length \in Nat /\ h.offset + h.length <= size
  PROVE  Agrees(h, size)
<1>1. h.length \in Nat /\ h.offset \in Nat /\ h.offset + h.length <= size /\ h.status \in {200, 206}
  OBVIOUS
<1>2. CASE h.length = 0
  BY <1>1, <1>2 DEF Agrees, Upgrade
<1>3. CASE h.length > 0 /\ h.status = 200
  <2>1. Upgrade(h) = [offset |-> 0, remaining |-> size]
    BY <1>3 DEF Upgrade
  <2>2. Upgrade(h).offset = 0 /\ Upgrade(h).remaining = size
    BY <2>1
  <2>3. h.length = size /\ h.offset = 0 /\ 0 + size <= size
    BY <1>3
  <2>4. Upgrade(h).offset + Upgrade(h).remaining <= size
    BY <2>2, <2>3
  <2>5. Upgrade(h) \in [offset : Int, remaining : Int] /\ h.status # 206
    BY <1>3, <2>1
  <2>6. Upgrade(h) # None
    BY <2>5, HeaderAssumption
  <2>7. Upgrade(h).remaining = h.length /\ Upgrade(h).offset = h.offset
    BY <2>2, <2>3
  <2> QED
    BY <2>4, <2>5, <2>6, <2>7, Zenon DEF Agrees
<1>4. CASE h.length > 0 /\ h.status = 206
  <2>1. ContentRange(h) = [start |-> h.offset, last |-> h.offset + h.length - 1]
    BY <1>4 DEF ContentRange
  <2>2. PICK c : c = ContentRange(h) /\ c.start = h.offset /\ c.last = h.offset + h.length - 1
                   /\ c \in [start : Int, last : Int]
    BY <1>1, <2>1
  <2>3. ContentRange(h) # None
    BY <2>2, HeaderAssumption
  <2>4. Upgrade(h) = [offset |-> h.offset, remaining |-> h.length]
    BY <1>4, <2>2, <2>3 DEF Upgrade
  <2>5. Upgrade(h).offset = h.offset /\ Upgrade(h).remaining = h.length
    BY <2>4
  <2>6. ContentRange(h).last <= size - 1
    BY <1>1, <2>2
  <2>7. Upgrade(h).offset + Upgrade(h).remaining <= size
    BY <1>1, <2>5
  <2>8. Upgrade(h) \in [offset : Int, remaining : Int]
    BY <1>1, <2>4
  <2>9. Upgrade(h) # None
    BY <2>8, HeaderAssumption
  <2> QED
    BY <2>5, <2>6, <2>7, <2>9, Zenon DEF Agrees
<1> QED
  BY <1>1, <1>2, <1>3, <1>4

\* Whatever Range is asked for, what the head of an answer says, the bytes that sendfile is told
\* to send and the file agree, and all lie inside the version that was opened.
THEOREM RangeIsServed == Spec => []RangeAgrees
<1>1. Init => RangesAreSound
  BY DEF Init, RangesAreSound
<1>2. Inv /\ RangesAreSound => RangeAgrees
  <2> SUFFICES ASSUME Inv, RangesAreSound, a # None, a.head.status \in {200, 206}
               PROVE  Agrees(a.head, versions[a.of].len)
    BY DEF RangeAgrees, Agrees
  <2>1. PICK file \in Version : file = versions[a.of] /\ a.head = Respond(file, flags, q) /\ q # None
    BY DEF Inv, Answering, Types
  <2>2. file.len \in Nat
    BY LengthIsNat
  <2>3. CASE a.head.status = 200
    <3>1. a.head.length = file.len /\ a.head.offset = 0
      BY <2>1, <2>3 DEF Respond, Answer, Empty
    <3> QED
      BY <2>1, <2>2, <2>3, <3>1, HeadAgrees
  <2>4. CASE a.head.status = 206
    <3>1. a.head.offset \in Nat /\ a.head.length \in Nat /\ a.head.offset + a.head.length <= file.len
      BY <2>1, <2>2, <2>4, PartOfFile DEF RangesAreSound
    <3> QED
      BY <2>1, <2>2, <2>4, <3>1, HeadAgrees
  <2> QED
    BY <2>3, <2>4
<1> QED
  BY <1>1, <1>2, RangesStep, Invariance, PTL DEF Spec
=============================================================================
