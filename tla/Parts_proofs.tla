---------------------------- MODULE Parts_proofs ----------------------------
(***************************************************************************)
(* The properties of the parts, for every value of the constants: of       *)
(* ChunkedFile, Browser, LanAddress, AccessLine, Listing and PullUrls.     *)
(***************************************************************************)
EXTENDS Parts, Sequences, Functions, SequenceTheorems, WellFoundedInduction, TLAPS

\* Steps of one part, and of the others.
LEMMA OtherParts ==
  ASSUME [Next]_vars
  PROVE  /\ part' = part
         /\ part = "urls" => Urls!Next \/ UNCHANGED urlsVars
         /\ part = "chunked" => Chunked!Next \/ UNCHANGED chunkedVars
         /\ part = "lan" => Lan!Next \/ UNCHANGED lanVars
         /\ part = "listing" => List!Next \/ UNCHANGED listingVars
         /\ part = "access" => Access!Next \/ UNCHANGED accessVars
         /\ part = "browser" => Pages!Next \/ UNCHANGED browserVars
<1>1. CASE UNCHANGED vars
  BY <1>1 DEF vars, urlsVars, chunkedVars, lanVars, listingVars, accessVars, browserVars
<1>2. CASE Next
  BY <1>2, Zenon DEF Next
<1> QED
  BY <1>1, <1>2

LEMMA FirstStates ==
  ASSUME Init
  PROVE  /\ part = "urls" => Urls!Init
         /\ part = "chunked" => Chunked!Init
         /\ part = "lan" => Lan!Init
         /\ part = "listing" => List!Init
         /\ part = "access" => Access!Init
         /\ part = "browser" => Pages!Init
  BY DEF Init, UrlsInit, ListingInit, LanInit, AccessInit, ChunkedInit, BrowserInit

-----------------------------------------------------------------------------
(* ChunkedFile.  What a body gives is what it should when no other body    *)
(* reads through its file description.                                     *)

Thread == [at : {"none", "seek", "read", "done", "eof", "dup failed"}, max : Nat, bytes : Seq(Nat)]

ChunkedTypes ==
  /\ size \in Nat
  /\ position \in [Chunked!Descriptions -> Nat]
  /\ state \in [Bodies -> {"File", "Future", "ended", "failed", "dropped"}]
  /\ thread \in [Bodies -> Thread]
  /\ offset \in [Bodies -> Nat] /\ readSize \in [Bodies -> Nat]
  /\ body \in [Bodies -> Seq(Nat)]

\* What a body has given.
Given(b) ==
  /\ Len(body[b]) = readSize[b] /\ offset[b] = Start[b] + readSize[b] /\ readSize[b] <= Total[b]
  /\ \A i \in DOMAIN body[b] : body[b][i] = Start[b] + i
  /\ state[b] = "ended" => readSize[b] = Total[b]

\* What its thread reads, as long as the body waits for it.
Reading(b) ==
  /\ state[b] = "File" => thread[b].at \in {"none", "done"}
  /\ state[b] = "Future" =>
       /\ thread[b].max <= Total[b] - readSize[b]
       /\ thread[b].at = "read" => position[Description[b]] = offset[b]
       /\ thread[b].at = "done" =>
            /\ Len(thread[b].bytes) <= thread[b].max
            /\ \A i \in DOMAIN thread[b].bytes : thread[b].bytes[i] = offset[b] + i

ChunkedInv == ChunkedTypes /\ \A b \in Bodies : Given(b) /\ Reading(b)

\* Every body has a file description of its own.
OwnDescriptions == \A b, c \in Bodies : Description[b] = Description[c] => b = c

LEMMA BodiesFacts ==
  /\ Start \in [Bodies -> Nat] /\ Total \in [Bodies -> Nat]
  /\ BufferSize \in Nat \ {0} /\ FileSize \in Nat
  BY PartsAssumption DEF Chunked!BodiesAssumption

LEMMA ChunkedStart == ASSUME Chunked!Init PROVE ChunkedInv
<1>1. ChunkedTypes
  BY BodiesFacts DEF Chunked!Init, ChunkedTypes, Thread
<1>2. ASSUME NEW b \in Bodies PROVE Given(b) /\ Reading(b)
  BY BodiesFacts DEF Chunked!Init, Given, Reading
<1> QED
  BY <1>1, <1>2 DEF ChunkedInv

LEMMA PollStep ==
  ASSUME ChunkedInv, NEW b \in Bodies, Chunked!Poll(b)
  PROVE  ChunkedInv'
<1>1. CASE Total[b] = readSize[b]
  <2>1. /\ state[b] = "File" /\ state' = [state EXCEPT ![b] = "ended"]
        /\ UNCHANGED <<size, position, thread, offset, readSize, body>>
    BY <1>1 DEF Chunked!Poll
  <2>2. ChunkedTypes'
    BY <2>1 DEF ChunkedInv, ChunkedTypes
  <2>3. ASSUME NEW c \in Bodies PROVE (Given(c) /\ Reading(c))'
    BY <2>1, <1>1 DEF ChunkedInv, ChunkedTypes, Given, Reading
  <2> QED
    BY <2>2, <2>3 DEF ChunkedInv
<1>2. CASE Total[b] # readSize[b]
  <2>1. PICK r : /\ r = [at |-> "seek", max |-> Chunked!MinOf(Total[b] - readSize[b], BufferSize), bytes |-> <<>>]
                 /\ state[b] = "File" /\ state' = [state EXCEPT ![b] = "Future"]
                 /\ thread' = [thread EXCEPT ![b] = r]
                 /\ UNCHANGED <<size, position, offset, readSize, body>>
    BY <1>2 DEF Chunked!Poll
  <2>2. Total[b] \in Nat /\ readSize[b] \in Nat /\ readSize[b] <= Total[b] /\ BufferSize \in Nat
    BY BodiesFacts DEF ChunkedInv, ChunkedTypes, Given
  <2>3. /\ Chunked!MinOf(Total[b] - readSize[b], BufferSize) \in Nat
        /\ Chunked!MinOf(Total[b] - readSize[b], BufferSize) <= Total[b] - readSize[b]
    BY <2>2 DEF Chunked!MinOf
  <2>4. r \in Thread /\ r.at = "seek" /\ r.max <= Total[b] - readSize[b]
    BY <2>1, <2>3 DEF Thread
  <2>5. ChunkedTypes'
    BY <2>1, <2>4 DEF ChunkedInv, ChunkedTypes
  <2>6. ASSUME NEW c \in Bodies PROVE Given(c)'
    BY <2>1 DEF ChunkedInv, ChunkedTypes, Given
  <2>7. ASSUME NEW c \in Bodies PROVE Reading(c)'
    BY <2>1, <2>4 DEF ChunkedInv, ChunkedTypes, Reading
  <2> QED
    BY <2>5, <2>6, <2>7 DEF ChunkedInv
<1> QED
  BY <1>1, <1>2

LEMMA SeekStep ==
  ASSUME ChunkedInv, OwnDescriptions, NEW b \in Bodies, Chunked!Seek(b)
  PROVE  ChunkedInv'
<1>1. thread[b].at = "seek" /\ UNCHANGED <<size, state, offset, readSize, body>>
  BY DEF Chunked!Seek
<1>2. PICK at : /\ at \in {"read", "dup failed"}
                /\ thread' = [thread EXCEPT ![b].at = at]
                /\ position' = IF at = "read" THEN [position EXCEPT ![Description[b]] = offset[b]] ELSE position
  BY DEF Chunked!Seek
<1>3. Description[b] \in Chunked!Descriptions /\ offset[b] \in Nat /\ thread[b] \in Thread
        /\ position \in [Chunked!Descriptions -> Nat]
  BY DEF Chunked!Descriptions, ChunkedInv, ChunkedTypes
<1>4. PICK r \in Thread : r.at = at /\ r.max = thread[b].max /\ thread' = [thread EXCEPT ![b] = r]
  <2>1. [thread[b] EXCEPT !.at = at] \in Thread
    BY <1>2, <1>3 DEF Thread
  <2>2. thread' = [thread EXCEPT ![b] = [thread[b] EXCEPT !.at = at]]
    BY <1>2 DEF ChunkedInv, ChunkedTypes
  <2> QED
    BY <2>1, <2>2, <1>3 DEF Thread
<1>5. position' \in [Chunked!Descriptions -> Nat]
  BY <1>2, <1>3
<1>6. ChunkedTypes'
  BY <1>1, <1>4, <1>5 DEF ChunkedInv, ChunkedTypes
<1>7. ASSUME NEW c \in Bodies PROVE Given(c)'
  BY <1>1 DEF ChunkedInv, Given
<1>8. Reading(b)'
  BY <1>1, <1>2, <1>3, <1>4 DEF ChunkedInv, ChunkedTypes, Reading
<1>9. ASSUME NEW c \in Bodies, c # b PROVE Reading(c)'
  <2>1. thread'[c] = thread[c]
    BY <1>4, <1>9 DEF ChunkedInv, ChunkedTypes
  <2>2. Description[c] # Description[b] /\ Description[c] \in Chunked!Descriptions
    BY <1>9 DEF OwnDescriptions, Chunked!Descriptions
  <2>3. position'[Description[c]] = position[Description[c]]
    BY <1>2, <1>3, <2>2
  <2> QED
    BY <1>1, <2>1, <2>3 DEF ChunkedInv, Reading
<1> QED
  BY <1>6, <1>7, <1>8, <1>9 DEF ChunkedInv

LEMMA Counted ==
  ASSUME NEW n \in Nat, NEW k \in Nat
  PROVE  \E s \in Seq(Nat) : s = [i \in 1..n |-> k + i] /\ Len(s) = n /\ DOMAIN s = 1..n
                              /\ \A i \in 1..n : s[i] = k + i
<1>1. [i \in 1..n |-> k + i] \in Seq(Nat) /\ Len([i \in 1..n |-> k + i]) = n
  OBVIOUS
<1> QED
  BY <1>1

LEMMA ReadStep ==
  ASSUME ChunkedInv, OwnDescriptions, NEW b \in Bodies, Chunked!Read(b)
  PROVE  ChunkedInv'
<1> DEFINE from == position[Description[b]]
<1>1. thread[b].at = "read" /\ UNCHANGED <<size, state, offset, readSize, body>>
  BY DEF Chunked!Read
<1>2. Description[b] \in Chunked!Descriptions /\ from \in Nat /\ thread[b] \in Thread /\ size \in Nat
        /\ position \in [Chunked!Descriptions -> Nat]
  BY DEF Chunked!Descriptions, ChunkedInv, ChunkedTypes
<1>3. PICK r \in Thread :
        /\ r.max = thread[b].max /\ thread' = [thread EXCEPT ![b] = r]
        /\ r.at \in {"eof", "done"}
        /\ r.at = "done" => Len(r.bytes) <= r.max /\ \A i \in DOMAIN r.bytes : r.bytes[i] = from + i
  <2>1. CASE from >= size
    <3>1. thread' = [thread EXCEPT ![b].at = "eof"]
      BY <2>1 DEF Chunked!Read
    <3>2. [thread[b] EXCEPT !.at = "eof"] \in Thread
      BY <1>2 DEF Thread
    <3>3. thread' = [thread EXCEPT ![b] = [thread[b] EXCEPT !.at = "eof"]]
      BY <3>1 DEF ChunkedInv, ChunkedTypes
    <3> QED
      BY <3>2, <3>3, <1>2 DEF Thread
  <2>2. CASE ~(from >= size)
    <3>1. PICK n \in 1..Chunked!MinOf(thread[b].max, size - from) :
            thread' = [thread EXCEPT ![b].at = "done", ![b].bytes = [i \in 1..n |-> from + i]]
      BY <2>2 DEF Chunked!Read
    <3>2. PICK m \in Nat, k \in Nat : m = thread[b].max /\ k = size - from
      <4>1. thread[b].max \in Nat
        BY <1>2 DEF Thread
      <4>2. size - from \in Nat
        BY <1>2, <2>2
      <4> QED
        BY <4>1, <4>2
    <3>3. n \in Nat /\ n <= thread[b].max
      BY <3>2 DEF Chunked!MinOf
    <3>4. PICK s \in Seq(Nat) : s = [i \in 1..n |-> from + i] /\ Len(s) = n /\ DOMAIN s = 1..n
                                  /\ \A i \in 1..n : s[i] = from + i
      BY <1>2, <3>3, Counted
    <3>5. [thread[b] EXCEPT !.at = "done", !.bytes = s] \in Thread
      BY <1>2 DEF Thread
    <3>6. thread' = [thread EXCEPT ![b] = [thread[b] EXCEPT !.at = "done", !.bytes = s]]
      BY <3>1, <3>4 DEF ChunkedInv, ChunkedTypes
    <3> QED
      BY <3>3, <3>4, <3>5, <3>6, <1>2 DEF Thread
  <2> QED
    BY <2>1, <2>2
<1>4. \E m \in Nat : position' = [position EXCEPT ![Description[b]] = m]
  <2>1. CASE from >= size
    BY <2>1, <1>2 DEF Chunked!Read
  <2>2. CASE ~(from >= size)
    <3>1. PICK n \in 1..Chunked!MinOf(thread[b].max, size - from) :
            position' = [position EXCEPT ![Description[b]] = from + n]
      BY <2>2 DEF Chunked!Read
    <3>2. from + n \in Nat
      BY <1>2
    <3> QED
      BY <3>1, <3>2
  <2> QED
    BY <2>1, <2>2
<1>5. ChunkedTypes'
  BY <1>1, <1>2, <1>3, <1>4 DEF ChunkedInv, ChunkedTypes
<1>6. ASSUME NEW c \in Bodies PROVE Given(c)'
  BY <1>1 DEF ChunkedInv, Given
<1>7. Reading(b)'
  <2>1. state[b] # "File"
    BY <1>1 DEF ChunkedInv, Reading
  <2>2. CASE state[b] = "Future"
    <3>1. from = offset[b] /\ thread'[b] = r
      BY <1>1, <1>3, <2>2 DEF ChunkedInv, ChunkedTypes, Reading
    <3> QED
      BY <1>1, <1>3, <2>2, <3>1 DEF ChunkedInv, Reading
  <2>3. CASE state[b] # "Future"
    BY <1>1, <2>1, <2>3 DEF Reading
  <2> QED
    BY <2>2, <2>3
<1>8. ASSUME NEW c \in Bodies, c # b PROVE Reading(c)'
  <2>1. thread'[c] = thread[c]
    BY <1>3, <1>8 DEF ChunkedInv, ChunkedTypes
  <2>2. Description[c] # Description[b] /\ Description[c] \in Chunked!Descriptions
    BY <1>8 DEF OwnDescriptions, Chunked!Descriptions
  <2>3. position'[Description[c]] = position[Description[c]]
    BY <1>2, <1>4, <2>2
  <2> QED
    BY <1>1, <2>1, <2>3 DEF ChunkedInv, Reading
<1> QED
  BY <1>5, <1>6, <1>7, <1>8 DEF ChunkedInv

LEMMA Appended ==
  ASSUME NEW p \in Seq(Nat), NEW s \in Seq(Nat), NEW k \in Nat,
         \A i \in DOMAIN p : p[i] = k + i,
         \A i \in DOMAIN s : s[i] = (k + Len(p)) + i
  PROVE  \E w \in Seq(Nat) : w = p \o s /\ Len(w) = Len(p) + Len(s) /\ \A i \in DOMAIN w : w[i] = k + i
<1>1. /\ p \o s \in Seq(Nat) /\ Len(p \o s) = Len(p) + Len(s)
      /\ DOMAIN (p \o s) = 1..(Len(p) + Len(s)) /\ Len(p) \in Nat /\ Len(s) \in Nat
      /\ DOMAIN p = 1..Len(p) /\ DOMAIN s = 1..Len(s)
  OBVIOUS
<1>2. PICK w \in Seq(Nat) : w = p \o s
  BY <1>1
<1>3. \A i \in 1..(Len(p) + Len(s)) : w[i] = IF i <= Len(p) THEN p[i] ELSE s[i - Len(p)]
  BY <1>1, <1>2
<1>4. ASSUME NEW i \in 1..(Len(p) + Len(s)) PROVE w[i] = k + i
  <2>1. CASE i <= Len(p)
    <3>1. i \in DOMAIN p /\ w[i] = p[i]
      BY <1>1, <1>3, <2>1
    <3> QED
      BY <3>1
  <2>2. CASE i > Len(p)
    <3>1. PICK j \in DOMAIN s : j = i - Len(p)
      BY <1>1, <2>2
    <3>2. w[i] = s[j]
      BY <1>1, <1>3, <2>2, <3>1
    <3>3. i = Len(p) + j /\ j \in Nat
      BY <1>1, <3>1
    <3> QED
      BY <1>1, <3>2, <3>3
  <2> QED
    BY <1>1, <2>1, <2>2
<1> QED
  BY <1>1, <1>2, <1>4

LEMMA CompleteStep ==
  ASSUME ChunkedInv, NEW b \in Bodies, Chunked!Complete(b)
  PROVE  ChunkedInv'
<1>1. /\ state[b] = "Future" /\ thread[b].at = "done" /\ thread[b] \in Thread
      /\ UNCHANGED <<size, position, thread>>
  BY DEF Chunked!Complete, ChunkedInv, ChunkedTypes
<1>2. PICK s \in Seq(Nat) :
        /\ s = thread[b].bytes
        /\ offset' = [offset EXCEPT ![b] = offset[b] + Len(s)]
        /\ readSize' = [readSize EXCEPT ![b] = readSize[b] + Len(s)]
        /\ body' = [body EXCEPT ![b] = body[b] \o s]
        /\ state' = [state EXCEPT ![b] = "File"]
        /\ Len(s) <= Total[b] - readSize[b] /\ \A i \in DOMAIN s : s[i] = offset[b] + i
  <2>1. thread[b].bytes \in Seq(Nat) /\ thread[b].max \in Nat
    BY <1>1 DEF Thread
  <2>2. /\ Len(thread[b].bytes) <= thread[b].max /\ thread[b].max <= Total[b] - readSize[b]
        /\ \A i \in DOMAIN thread[b].bytes : thread[b].bytes[i] = offset[b] + i
    BY <1>1 DEF ChunkedInv, Reading
  <2>3. Total[b] \in Nat /\ readSize[b] \in Nat /\ Len(thread[b].bytes) \in Nat
    BY <2>1, BodiesFacts DEF ChunkedInv, ChunkedTypes
  <2>4. Len(thread[b].bytes) <= Total[b] - readSize[b]
    BY <2>1, <2>2, <2>3
  <2>5. /\ offset' = [offset EXCEPT ![b] = offset[b] + Len(thread[b].bytes)]
        /\ readSize' = [readSize EXCEPT ![b] = readSize[b] + Len(thread[b].bytes)]
        /\ body' = [body EXCEPT ![b] = body[b] \o thread[b].bytes]
        /\ state' = [state EXCEPT ![b] = "File"]
    BY DEF Chunked!Complete, ChunkedInv, ChunkedTypes
  <2> QED
    BY <2>1, <2>2, <2>4, <2>5
<1>3. /\ offset[b] \in Nat /\ readSize[b] \in Nat /\ Start[b] \in Nat /\ Total[b] \in Nat
      /\ body[b] \in Seq(Nat) /\ Len(s) \in Nat
      /\ Len(body[b]) = readSize[b] /\ offset[b] = Start[b] + readSize[b] /\ readSize[b] <= Total[b]
      /\ \A i \in DOMAIN body[b] : body[b][i] = Start[b] + i
  BY BodiesFacts DEF ChunkedInv, ChunkedTypes, Given
<1>4. PICK w \in Seq(Nat) :
        /\ w = body[b] \o s /\ Len(w) = readSize[b] + Len(s)
        /\ \A i \in DOMAIN w : w[i] = Start[b] + i
  <2>1. PICK p \in Seq(Nat), k \in Nat : p = body[b] /\ k = Start[b]
    BY <1>3
  <2>2. \A i \in DOMAIN p : p[i] = k + i
    BY <1>3, <2>1
  <2>3. Len(p) = readSize[b] /\ offset[b] = k + Len(p) /\ Len(p) \in Nat
    BY <1>3, <2>1
  <2>4. \A i \in DOMAIN s : s[i] = (k + Len(p)) + i
    BY <1>2, <2>3
  <2>5. PICK w \in Seq(Nat) : w = p \o s /\ Len(w) = Len(p) + Len(s) /\ \A i \in DOMAIN w : w[i] = k + i
    BY <2>2, <2>4, Appended
  <2> QED
    BY <2>1, <2>3, <2>5
<1>5. ChunkedTypes'
  <2> PICK o \in Nat, r \in Nat : o = offset[b] + Len(s) /\ r = readSize[b] + Len(s)
    BY <1>3
  <2>1. offset' \in [Bodies -> Nat]
    <3>1. offset' = [offset EXCEPT ![b] = o]
      BY <1>2
    <3> QED
      BY <3>1 DEF ChunkedInv, ChunkedTypes
  <2>2. readSize' \in [Bodies -> Nat]
    <3>1. readSize' = [readSize EXCEPT ![b] = r]
      BY <1>2
    <3> QED
      BY <3>1 DEF ChunkedInv, ChunkedTypes
  <2>3. body' \in [Bodies -> Seq(Nat)]
    BY <1>2, <1>4 DEF ChunkedInv, ChunkedTypes
  <2>4. state' \in [Bodies -> {"File", "Future", "ended", "failed", "dropped"}]
    BY <1>2 DEF ChunkedInv, ChunkedTypes
  <2> QED
    BY <1>1, <2>1, <2>2, <2>3, <2>4 DEF ChunkedInv, ChunkedTypes
<1>6. body'[b] = w /\ offset'[b] = offset[b] + Len(s) /\ readSize'[b] = readSize[b] + Len(s)
        /\ state'[b] = "File"
  BY <1>2, <1>4 DEF ChunkedInv, ChunkedTypes
<1>7. Given(b)'
  <2>1. Len(body'[b]) = readSize'[b] /\ \A i \in DOMAIN body'[b] : body'[b][i] = Start[b] + i
    BY <1>4, <1>6
  <2>2. offset'[b] = Start[b] + readSize'[b] /\ readSize'[b] <= Total[b]
    <3>1. PICK n \in Nat, r \in Nat, o \in Nat, f \in Nat, m \in Nat :
            n = Len(s) /\ r = readSize[b] /\ o = offset[b] /\ f = Start[b] /\ m = Total[b]
      BY <1>3
    <3>2. n <= m - r /\ o = f + r
      BY <1>2, <1>3, <3>1
    <3>3. readSize'[b] = r + n /\ offset'[b] = o + n
      BY <1>6, <3>1
    <3>4. o + n = f + (r + n) /\ r + n <= m
      BY <3>2
    <3> QED
      BY <3>1, <3>3, <3>4
  <2> QED
    BY <1>6, <2>1, <2>2 DEF Given
<1>8. Reading(b)'
  BY <1>1, <1>6 DEF Reading
<1>9. ASSUME NEW c \in Bodies, c # b PROVE (Given(c) /\ Reading(c))'
  <2>1. body'[c] = body[c] /\ offset'[c] = offset[c] /\ readSize'[c] = readSize[c] /\ state'[c] = state[c]
    BY <1>2, <1>9 DEF ChunkedInv, ChunkedTypes
  <2> QED
    BY <1>1, <2>1 DEF ChunkedInv, Given, Reading
<1> QED
  BY <1>5, <1>7, <1>8, <1>9 DEF ChunkedInv

\* A body is given up.
LEMMA StopStep ==
  ASSUME ChunkedInv, NEW b \in Bodies, NEW how \in {"failed", "dropped"},
         state' = [state EXCEPT ![b] = how],
         UNCHANGED <<size, position, thread, offset, readSize, body>>
  PROVE  ChunkedInv'
<1>1. ChunkedTypes'
  BY DEF ChunkedInv, ChunkedTypes
<1>2. ASSUME NEW c \in Bodies PROVE (Given(c) /\ Reading(c))'
  BY DEF ChunkedInv, ChunkedTypes, Given, Reading
<1> QED
  BY <1>1, <1>2 DEF ChunkedInv

LEMMA ChunkedStep ==
  ASSUME ChunkedInv, OwnDescriptions, Chunked!Next \/ UNCHANGED chunkedVars
  PROVE  ChunkedInv'
<1>1. CASE UNCHANGED chunkedVars
  BY <1>1 DEF chunkedVars, ChunkedInv, ChunkedTypes, Given, Reading
<1>2. CASE Chunked!Shorten
  <2>1. size' \in Nat /\ UNCHANGED <<position, state, thread, offset, readSize, body>>
    BY <1>2 DEF Chunked!Shorten, ChunkedInv, ChunkedTypes
  <2> QED
    BY <2>1 DEF ChunkedInv, ChunkedTypes, Given, Reading
<1>3. ASSUME NEW b \in Bodies, Chunked!Step(b) \/ Chunked!Drop(b) PROVE ChunkedInv'
  <2>1. CASE Chunked!Poll(b)
    BY <2>1, PollStep
  <2>2. CASE Chunked!Seek(b)
    BY <2>2, SeekStep
  <2>3. CASE Chunked!Read(b)
    BY <2>3, ReadStep
  <2>4. CASE Chunked!Complete(b)
    BY <2>4, CompleteStep
  <2>5. CASE Chunked!Fail(b)
    BY <2>5, StopStep DEF Chunked!Fail
  <2>6. CASE Chunked!Drop(b)
    BY <2>6, StopStep DEF Chunked!Drop
  <2> QED
    BY <1>3, <2>1, <2>2, <2>3, <2>4, <2>5, <2>6 DEF Chunked!Step
<1> QED
  BY <1>1, <1>2, <1>3 DEF Chunked!Next

\* Whatever the reads give and whatever happens to the file: a body that ends without an error is
\* the range it was made for, and no body gives other bytes, if each has a file description of
\* its own.
THEOREM BodiesAreRanges == ASSUME OwnDescriptions PROVE Spec => []BodyIsRange
<1> DEFINE I == part = "chunked" => ChunkedInv
<1>1. Init => I
  BY FirstStates, ChunkedStart
<1>2. I /\ [Next]_vars => I'
  <2> SUFFICES ASSUME I, [Next]_vars PROVE I'
    OBVIOUS
  <2>1. part' = part /\ (part = "chunked" => Chunked!Next \/ UNCHANGED chunkedVars)
    BY OtherParts
  <2>2. CASE part = "chunked"
    BY <2>1, <2>2, ChunkedStep
  <2>3. CASE part # "chunked"
    BY <2>1, <2>3
  <2> QED
    BY <2>2, <2>3
<1>3. I => BodyIsRange
  BY DEF ChunkedInv, Given, BodyIsRange, Chunked!BodyIsRange
<1> HIDE DEF I
<1> QED
  BY <1>1, <1>2, <1>3, PTL DEF Spec

-----------------------------------------------------------------------------
(* Browser.                                                                *)

BrowserTypes ==
  /\ hash \in Dirs /\ started \in Nat /\ events \in Nat
  /\ rows \in Seq([of : Dirs, under : Dirs])
  /\ loads \subseteq [path : Dirs, number : Nat, headed : BOOLEAN]
  /\ \A l \in loads : l.number <= started

\* No two requests have a number, and unless loads have crossed only the last is under way.
LoadsAreNumbered ==
  /\ \A l, m \in loads : l.number = m.number => l = m
  /\ ~crossed => \A l \in loads : l.number = started

\* A request that is under way is for the directory the hash names, and the table is empty; then
\* it holds the one listing, or there is an error.
PageFollows ==
  events = 0 /\ ~crossed =>
    /\ loads # {} => rows = <<>> /\ ~error /\ \A l \in loads : l.path = hash
    /\ loads = {} =>
         IF error THEN rows = <<>> ELSE rows = <<[of |-> hash, under |-> hash]>> /\ crumb = hash

\* While the last load is under way nothing has been shown, whatever the hash names by now.
TableIsClear == ~crossed /\ loads # {} => rows = <<>> /\ ~error

\* The notice of a load is shown only while one is under way.
NoticeOfLoads == loads = {} => ~loading

BrowserInv ==
  /\ BrowserTypes /\ LoadsAreNumbered /\ PageFollows /\ TableIsClear /\ NoticeOfLoads
  /\ Pages!LinksLeadToTheirEntries

LEMMA BrowserStart == ASSUME Pages!Init PROVE BrowserInv
<1>1. PICK l : l = [path |-> hash, number |-> 1, headed |-> FALSE] /\ loads = {l}
  BY DEF Pages!Init, Pages!Load
<1>2. /\ hash \in Dirs /\ l \in [path : Dirs, number : Nat, headed : BOOLEAN]
      /\ l.path = hash /\ l.number = 1 /\ events = 0 /\ started = 1 /\ rows = <<>> /\ ~error
  BY <1>1 DEF Pages!Init
<1>3. BrowserTypes /\ LoadsAreNumbered
  BY <1>1, <1>2 DEF BrowserTypes, LoadsAreNumbered
<1>4. PageFollows /\ TableIsClear /\ NoticeOfLoads /\ Pages!LinksLeadToTheirEntries
  BY <1>1, <1>2 DEF PageFollows, TableIsClear, NoticeOfLoads, Pages!LinksLeadToTheirEntries
<1> QED
  BY <1>3, <1>4 DEF BrowserInv

LEMMA NavigateStep == ASSUME BrowserInv, Pages!Navigate PROVE BrowserInv'
<1>1. /\ events' = events + 1 /\ hash' \in Dirs
      /\ UNCHANGED <<loads, rows, crumb, loading, error, crossed, started>>
  BY DEF Pages!Navigate
<1>2. events' \in Nat /\ events' # 0
  BY <1>1 DEF BrowserInv, BrowserTypes
<1> QED
  BY <1>1, <1>2 DEF BrowserInv, BrowserTypes, LoadsAreNumbered, PageFollows,
         TableIsClear, NoticeOfLoads, Pages!LinksLeadToTheirEntries

LEMMA LoadListingStep == ASSUME BrowserInv, Pages!LoadListing PROVE BrowserInv'
<1>1. PICK l : l = [path |-> hash, number |-> started + 1, headed |-> FALSE]
  OBVIOUS
<1>2. /\ events > 0 /\ events' = events - 1 /\ ~error' /\ rows' = <<>>
      /\ loads' = loads \cup {l} /\ started' = started + 1 /\ crossed' = (loads # {})
      /\ UNCHANGED <<hash, crumb, moves>>
  BY <1>1 DEF Pages!LoadListing, Pages!Cleared, Pages!Load
<1>3. /\ l.number = started + 1 /\ l.path = hash
      /\ l \in [path : Dirs, number : Nat, headed : BOOLEAN]
  BY <1>1 DEF BrowserInv, BrowserTypes
<1>4. \A m \in loads : m.number \in Nat /\ m.number <= started /\ m.number # started + 1
  BY DEF BrowserInv, BrowserTypes
<1>5. BrowserTypes'
  <2>1. loads' \subseteq [path : Dirs, number : Nat, headed : BOOLEAN] /\ hash' \in Dirs
    BY <1>2, <1>3 DEF BrowserInv, BrowserTypes
  <2>2. started' \in Nat /\ events' \in Nat /\ rows' \in Seq([of : Dirs, under : Dirs])
    BY <1>2 DEF BrowserInv, BrowserTypes
  <2>3. \A m \in loads' : m.number <= started'
    BY <1>2, <1>3, <1>4 DEF BrowserInv, BrowserTypes
  <2> QED
    BY <2>1, <2>2, <2>3 DEF BrowserTypes
<1>6. LoadsAreNumbered'
  <2>1. \A m, n \in loads : m.number = n.number => m = n
    BY DEF BrowserInv, LoadsAreNumbered
  <2>2. \A m, n \in loads' : m.number = n.number => m = n
    BY <1>2, <1>3, <1>4, <2>1
  <2>3. loads = {} => \A m \in loads' : m.number = started'
    BY <1>2, <1>3
  <2> QED
    BY <1>2, <2>2, <2>3 DEF LoadsAreNumbered
<1>7. PageFollows' /\ TableIsClear' /\ NoticeOfLoads'
  BY <1>2, <1>3 DEF PageFollows, TableIsClear, NoticeOfLoads
<1>8. Pages!LinksLeadToTheirEntries'
  BY <1>2 DEF Pages!LinksLeadToTheirEntries
<1> QED
  BY <1>5, <1>6, <1>7, <1>8 DEF BrowserInv

LEMMA HeadComesStep == ASSUME BrowserInv, Pages!HeadComes PROVE BrowserInv'
<1>1. PICK l \in loads : loads' = (loads \ {l}) \cup {[l EXCEPT !.headed = TRUE]}
  BY DEF Pages!HeadComes
<1>2. UNCHANGED <<hash, events, rows, crumb, loading, error, crossed, started>>
  BY DEF Pages!HeadComes
<1>3. PICK h \in [path : Dirs, number : Nat, headed : BOOLEAN] :
        h = [l EXCEPT !.headed = TRUE] /\ h.number = l.number /\ h.path = l.path
  <2>1. l \in [path : Dirs, number : Nat, headed : BOOLEAN]
    BY DEF BrowserInv, BrowserTypes
  <2>2. PICK m \in [path : Dirs, number : Nat, headed : BOOLEAN] : m = l
    BY <2>1
  <2>3. [m EXCEPT !.headed = TRUE] \in [path : Dirs, number : Nat, headed : BOOLEAN]
    OBVIOUS
  <2>4. [m EXCEPT !.headed = TRUE].number = m.number /\ [m EXCEPT !.headed = TRUE].path = m.path
    OBVIOUS
  <2> QED
    BY <2>2, <2>3, <2>4
<1>4. loads' = (loads \ {l}) \cup {h} /\ loads' # {} /\ loads # {}
  BY <1>1, <1>3
<1>5. BrowserTypes'
  BY <1>2, <1>3, <1>4 DEF BrowserInv, BrowserTypes
<1>6. LoadsAreNumbered'
  <2>1. ASSUME NEW m \in loads', NEW n \in loads', m.number = n.number PROVE m = n
    <3>1. \A i, j \in loads : i.number = j.number => i = j
      BY DEF BrowserInv, LoadsAreNumbered
    <3>2. \A k \in loads' : k = h \/ (k \in loads /\ k # l)
      BY <1>4
    <3>3. \A k \in loads : k # l => k.number # h.number
      BY <1>3, <3>1
    <3>4. CASE m = h
      BY <2>1, <3>2, <3>3, <3>4
    <3>5. CASE m # h /\ n = h
      BY <2>1, <3>2, <3>3, <3>5
    <3>6. CASE m # h /\ n # h
      BY <2>1, <3>1, <3>2, <3>6
    <3> QED
      BY <3>4, <3>5, <3>6
  <2>2. ~crossed' => \A m \in loads' : m.number = started'
    BY <1>2, <1>3, <1>4 DEF BrowserInv, LoadsAreNumbered
  <2> QED
    BY <2>1, <2>2 DEF LoadsAreNumbered
<1>7. PageFollows' /\ TableIsClear' /\ NoticeOfLoads' /\ Pages!LinksLeadToTheirEntries'
  BY <1>2, <1>3, <1>4 DEF BrowserInv, PageFollows, TableIsClear, NoticeOfLoads, Pages!LinksLeadToTheirEntries
<1> QED
  BY <1>5, <1>6, <1>7 DEF BrowserInv

\* Without one of its loads, a page on which no two have crossed has none.
LEMMA LastOfLoads ==
  ASSUME BrowserInv, ~crossed, NEW l \in loads
  PROVE  loads \ {l} = {}
  BY DEF BrowserInv, LoadsAreNumbered

LEMMA RenderStep == ASSUME BrowserInv, Pages!Render PROVE BrowserInv'
<1>1. PICK l \in loads : /\ loads' = loads \ {l} /\ crumb' = l.path
                         /\ rows' = Append(rows, [of |-> l.path, under |-> l.path])
  BY DEF Pages!Render, Pages!Prefix
<1>2. loading' = FALSE /\ UNCHANGED <<hash, events, error, crossed, moves, started>>
  BY DEF Pages!Render
<1>3. BrowserTypes' /\ LoadsAreNumbered' /\ NoticeOfLoads'
  BY <1>1, <1>2 DEF BrowserInv, BrowserTypes, LoadsAreNumbered, NoticeOfLoads
<1>4. ~crossed' => loads' = {}
  BY <1>1, <1>2, LastOfLoads
<1>5. TableIsClear'
  BY <1>4 DEF TableIsClear
<1>6. PageFollows'
  <2> SUFFICES ASSUME events = 0, ~crossed
               PROVE  ~error /\ rows' = <<[of |-> hash, under |-> hash]>> /\ crumb' = hash
    BY <1>2, <1>4 DEF PageFollows
  <2>1. rows = <<>> /\ ~error /\ l.path = hash
    BY DEF BrowserInv, PageFollows
  <2> QED
    BY <1>1, <2>1
<1>7. Pages!LinksLeadToTheirEntries'
  BY <1>1 DEF BrowserInv, Pages!LinksLeadToTheirEntries
<1> QED
  BY <1>3, <1>5, <1>6, <1>7 DEF BrowserInv

LEMMA LoadFailsStep == ASSUME BrowserInv, Pages!LoadFails PROVE BrowserInv'
<1>1. PICK l \in loads : loads' = loads \ {l}
  BY DEF Pages!LoadFails
<1>2. ~loading' /\ error' = TRUE /\ UNCHANGED <<hash, events, rows, crumb, crossed, moves, started>>
  BY DEF Pages!LoadFails, Pages!AfterFailure
<1>3. BrowserTypes' /\ LoadsAreNumbered' /\ NoticeOfLoads'
  BY <1>1, <1>2 DEF BrowserInv, BrowserTypes, LoadsAreNumbered, NoticeOfLoads
<1>4. ~crossed' => loads' = {}
  BY <1>1, <1>2, LastOfLoads
<1>5. TableIsClear' /\ PageFollows'
  BY <1>1, <1>2, <1>4 DEF BrowserInv, TableIsClear, PageFollows
<1> QED
  BY <1>2, <1>3, <1>5 DEF BrowserInv, Pages!LinksLeadToTheirEntries

\* Wherever the user goes and however late listings come: links lead to what they name, and at
\* rest the page shows what its address names, or the error, and no notice of a load.
THEOREM PageShowsItsAddress == Spec => []PageIsOfItsAddress
<1> DEFINE I == part = "browser" => BrowserInv
<1>1. Init => I
  BY FirstStates, BrowserStart
<1>2. I /\ [Next]_vars => I'
  <2> SUFFICES ASSUME I, [Next]_vars, part = "browser" PROVE BrowserInv'
    BY OtherParts
  <2>1. CASE UNCHANGED browserVars
    BY <2>1 DEF browserVars, BrowserInv, BrowserTypes, LoadsAreNumbered, PageFollows,
         TableIsClear, NoticeOfLoads, Pages!LinksLeadToTheirEntries
  <2>2. CASE Pages!Next
    BY <2>2, NavigateStep, LoadListingStep, HeadComesStep, RenderStep, LoadFailsStep DEF Pages!Next
  <2> QED
    BY <2>1, <2>2, OtherParts
<1>3. I => PageIsOfItsAddress
  BY DEF BrowserInv, PageFollows, NoticeOfLoads, PageIsOfItsAddress, Pages!LinksLeadToTheirEntries,
         Pages!ShowsWhereItIs, Pages!NoticeGoes, Pages!Quiet
<1> HIDE DEF I
<1> QED
  BY <1>1, <1>2, <1>3, PTL DEF Spec

-----------------------------------------------------------------------------
(* LanAddress.                                                             *)

LEMMA LanFacts ==
  /\ Interfaces \subseteq [class : {"vpn", "lan", "other"}, addr : STRING \cup {None}]
  /\ Ttl \in Nat \ {0} /\ Stall \in Nat /\ MaxTime \in Nat /\ MaxInterfaces \in Nat
  BY PartsAssumption DEF Lan!LanAssumption

\* The first of some numbers.
LEMMA FirstPlace ==
  ASSUME NEW places, places \subseteq Nat, places # {}
  PROVE  \E k \in places : \A j \in places : k <= j
<1> DEFINE R == {p \in Nat \X Nat : p[1] < p[2]}
<1>1. IsWellFoundedOn(R, Nat)
  BY NatLessThanWellFounded, Zenon DEF OpToRel
<1>2. \A x, y \in places : <<y, x>> \in R <=> y < x
  OBVIOUS
<1> HIDE DEF R
<1>3. PICK x \in places : \A y \in places : <<y, x>> \notin R
  BY <1>1, WFMin, Zenon
<1>4. \A y \in places : ~(y < x)
  BY <1>2, <1>3, Zenon
<1>5. \A y \in places : x <= y
  BY <1>4
<1> QED
  BY <1>5

\* The choice takes the candidate of one of the places it is given.
LEMMA FirstIsOne ==
  ASSUME NEW s, NEW places, places \subseteq Nat, places # {}
  PROVE  \E k \in places : Lan!FirstOf(s, places) = Lan!Candidate(s[k])
  BY FirstPlace DEF Lan!FirstOf

LEMMA ChoiceIsRightOfLists ==
  ASSUME interfaces \in Lan!Lists
  PROVE  Lan!ChoiceIsRight
<1> DEFINE ip == Lan!DetectLanIp(interfaces)
<1>1. DOMAIN interfaces \subseteq Nat
        /\ \A k \in DOMAIN interfaces : interfaces[k] \in [class : {"vpn", "lan", "other"}, addr : STRING \cup {None}]
  BY LanFacts DEF Lan!Lists
<1>2. Range(interfaces) = {interfaces[k] : k \in DOMAIN interfaces}
  BY DEF Range
<1>3. CASE Lan!Named(interfaces) # {}
  <2>1. PICK k \in Lan!Named(interfaces) : ip = Lan!Candidate(interfaces[k])
    BY <1>1, <1>3, FirstIsOne DEF Lan!DetectLanIp, Lan!Named, Lan!Usable
  <2>2. k \in DOMAIN interfaces /\ interfaces[k].class = "lan" /\ interfaces[k].addr # None
          /\ ip = interfaces[k].addr
    BY <2>1 DEF Lan!Named, Lan!Usable, Lan!Candidate
  <2>3. interfaces[k] \in Lan!WithAddress("lan")
    BY <1>2, <2>2 DEF Lan!Range, Lan!WithAddress
  <2>4. \E i \in Lan!WithAddress("lan") : i.addr = ip
    BY <2>2, <2>3
  <2> QED
    BY <2>4 DEF Lan!ChoiceIsRight
<1>4. CASE Lan!Named(interfaces) = {}
  <2>1. Lan!WithAddress("lan") = {}
    BY <1>1, <1>2, <1>4 DEF Lan!Range, Lan!WithAddress, Lan!Named, Lan!Usable, Lan!Candidate
  <2>2. CASE Lan!Usable(interfaces) # {}
    <3>1. PICK k \in Lan!Usable(interfaces) : ip = Lan!Candidate(interfaces[k])
      BY <1>1, <1>4, <2>2, FirstIsOne DEF Lan!DetectLanIp, Lan!Usable
    <3>2. k \in DOMAIN interfaces /\ interfaces[k].class \notin {"vpn", "lan"} /\ interfaces[k].addr # None
            /\ ip = interfaces[k].addr
      BY <1>4, <3>1 DEF Lan!Named, Lan!Usable, Lan!Candidate
    <3>3. interfaces[k] \in Lan!WithAddress("other")
      BY <1>1, <1>2, <3>2 DEF Lan!Range, Lan!WithAddress
    <3>4. \E i \in Lan!WithAddress("other") : i.addr = ip
      BY <3>2, <3>3
    <3> QED
      BY <2>1, <3>4 DEF Lan!ChoiceIsRight
  <2>3. CASE Lan!Usable(interfaces) = {}
    <3>1. ip = None
      BY <1>4, <2>3 DEF Lan!DetectLanIp, Lan!FirstOf
    <3>2. Lan!WithAddress("other") = {}
      BY <1>1, <1>2, <2>3 DEF Lan!Range, Lan!WithAddress, Lan!Usable, Lan!Candidate
    <3> QED
      BY <2>1, <3>1, <3>2 DEF Lan!ChoiceIsRight
  <2> QED
    BY <2>2, <2>3
<1> QED
  BY <1>3, <1>4

\* What a detection can find, the failure included.
Findable == {Lan!DetectLanIp(s) : s \in Lan!Lists} \cup {None}

LanTypes ==
  /\ now \in 0..MaxTime
  /\ interfaces \in Lan!Lists
  /\ found \in [0..MaxTime -> SUBSET Findable]
  /\ DOMAIN req = Workers
  /\ \A w \in Workers : req[w].since \in 0..now

\* An address could be found at a time not before the one given, nor after the other.
RightWithin(ip, from, to) == \E t \in 0..to : from <= t /\ ip \in found[t]

RightNow == Lan!DetectLanIp(interfaces) \in found[now]

CacheWasRight ==
  cache.fetchedAt # None =>
    cache.fetchedAt \in 0..now /\ RightWithin(cache.ip, cache.fetchedAt - Stall, cache.fetchedAt)

\* A detection does not take longer than it may, and what it has found could be found meanwhile.
DetectionWasRight(w) ==
  /\ req[w].at \in {"detect", "store"} => now - req[w].since <= Stall
  /\ req[w].at = "store" => RightWithin(req[w].ip, req[w].since, now)

AnswerWasRight(w) ==
  req[w].at = "answered" => RightWithin(req[w].ip, req[w].since - Ttl - Stall, req[w].since)

LanInv ==
  /\ LanTypes /\ RightNow /\ CacheWasRight
  /\ \A w \in Workers : DetectionWasRight(w) /\ AnswerWasRight(w)

LEMMA LanStart == ASSUME Lan!Init PROVE LanInv
<1>1. /\ now = 0 /\ interfaces \in Lan!Lists /\ cache.fetchedAt = None
      /\ found = [t \in 0..MaxTime |-> IF t = 0 THEN {Lan!DetectLanIp(interfaces)} ELSE {}]
      /\ DOMAIN req = Workers /\ \A w \in Workers : req[w].since = 0 /\ req[w].at = "idle"
  BY DEF Lan!Init, Lan!Idle
<1>2. 0 \in 0..MaxTime
  BY LanFacts
<1>3. LanTypes
  BY <1>1, <1>2 DEF LanTypes, Findable
<1>4. RightNow
  BY <1>1, <1>2 DEF RightNow
<1> QED
  BY <1>1, <1>3, <1>4 DEF LanInv, CacheWasRight, DetectionWasRight, AnswerWasRight

\* What could be found in the past stays so.
LEMMA PastStays ==
  ASSUME LanTypes, LanTypes', NEW ip, NEW from \in Int, NEW to \in 0..now,
         \A t \in 0..now : found[t] \subseteq found'[t], RightWithin(ip, from, to)
  PROVE  RightWithin(ip, from, to)'
<1>1. PICK t \in 0..to : from <= t /\ ip \in found[t]
  BY DEF RightWithin
<1>2. t \in 0..now
  BY DEF LanTypes
<1> QED
  BY <1>1, <1>2 DEF RightWithin


\* A longer span of time holds what a shorter one does.
LEMMA Wider ==
  ASSUME NEW ip, NEW from \in Int, NEW to \in Int, NEW a \in Int, NEW b \in Int,
         a <= from, to <= b, RightWithin(ip, from, to)
  PROVE  RightWithin(ip, a, b)
<1>1. PICK t \in 0..to : from <= t /\ ip \in found[t]
  BY DEF RightWithin
<1>2. t \in 0..b /\ a <= t
  BY <1>1
<1> QED
  BY <1>1, <1>2 DEF RightWithin

LEMMA LoadStep == ASSUME LanInv, NEW w \in Workers, Lan!Load(w) PROVE LanInv'
<1>1. UNCHANGED <<now, switches, interfaces, found, cache>>
  BY DEF Lan!Load
<1>2. PICK r : /\ req' = [req EXCEPT ![w] = r] /\ r.since = now
               /\ r.at \in {"answered", "detect"}
               /\ r.at = "answered" => r.ip = cache.ip /\ Lan!Fresh
  <2>1. CASE Lan!Fresh
    <3>1. PICK r : /\ r = [at |-> "answered", ip |-> cache.ip, since |-> now]
                   /\ req' = [req EXCEPT ![w] = r]
      BY <2>1 DEF Lan!Load
    <3>2. r.at = "answered" /\ r.ip = cache.ip /\ r.since = now
      BY <3>1
    <3> QED
      BY <2>1, <3>1, <3>2
  <2>2. CASE ~Lan!Fresh
    <3>1. PICK r : /\ r = [at |-> "detect", ip |-> None, since |-> now]
                   /\ req' = [req EXCEPT ![w] = r]
      BY <2>2 DEF Lan!Load
    <3>2. r.at = "detect" /\ r.since = now
      BY <3>1
    <3> QED
      BY <3>1, <3>2
  <2> QED
    BY <2>1, <2>2
<1>3. /\ DOMAIN req' = Workers /\ req'[w] = r
      /\ \A v \in Workers : v # w => req'[v] = req[v]
  BY <1>2 DEF LanInv, LanTypes
<1>4. now \in Nat /\ Ttl \in Nat /\ Stall \in Nat
  BY LanFacts DEF LanInv, LanTypes
<1>5. LanTypes' /\ RightNow' /\ CacheWasRight'
  <2>1. \A v \in Workers : req'[v].since \in 0..now'
    BY <1>1, <1>2, <1>3, <1>4 DEF LanInv, LanTypes
  <2>2. LanTypes'
    BY <1>1, <1>3, <2>1 DEF LanInv, LanTypes
  <2> QED
    BY <1>1, <2>2 DEF LanInv, RightNow, CacheWasRight, RightWithin
<1>6. ASSUME NEW v \in Workers, v # w PROVE DetectionWasRight(v)' /\ AnswerWasRight(v)'
  BY <1>1, <1>3, <1>6 DEF LanInv, DetectionWasRight, AnswerWasRight, RightWithin
<1>7. DetectionWasRight(w)'
  BY <1>1, <1>2, <1>3, <1>4 DEF DetectionWasRight
<1>8. AnswerWasRight(w)'
  <2> SUFFICES ASSUME r.at = "answered" PROVE RightWithin(cache.ip, now - Ttl - Stall, now)'
    BY <1>1, <1>2, <1>3 DEF AnswerWasRight, RightWithin
  <2>1. PICK f \in 0..now : f = cache.fetchedAt /\ RightWithin(cache.ip, f - Stall, f) /\ now - f < Ttl
    BY <1>2 DEF Lan!Fresh, LanInv, CacheWasRight
  <2>2. now - Ttl - Stall <= f - Stall /\ f <= now /\ now - Ttl - Stall \in Int /\ f - Stall \in Int
    BY <1>4, <2>1
  <2>3. RightWithin(cache.ip, now - Ttl - Stall, now)
    BY <1>4, <2>1, <2>2, Wider
  <2> QED
    BY <1>1, <2>3 DEF RightWithin
<1> QED
  BY <1>5, <1>6, <1>7, <1>8 DEF LanInv

LEMMA DetectStep == ASSUME LanInv, NEW w \in Workers, Lan!Detect(w) PROVE LanInv'
<1>1. req[w].at = "detect" /\ UNCHANGED <<now, switches, interfaces, found, cache>>
  BY DEF Lan!Detect
<1>2. /\ DOMAIN req' = Workers /\ req'[w].at = "store" /\ req'[w].since = req[w].since
      /\ req'[w].ip = Lan!DetectLanIp(interfaces)
      /\ \A v \in Workers : v # w => req'[v] = req[v]
  BY DEF Lan!Detect, LanInv, LanTypes
<1>3. now \in Nat /\ req[w].since \in 0..now
  BY LanFacts DEF LanInv, LanTypes
<1>4. LanTypes' /\ RightNow' /\ CacheWasRight'
  BY <1>1, <1>2 DEF LanInv, LanTypes, RightNow, CacheWasRight, RightWithin
<1>5. ASSUME NEW v \in Workers, v # w PROVE DetectionWasRight(v)' /\ AnswerWasRight(v)'
  BY <1>1, <1>2, <1>5 DEF LanInv, DetectionWasRight, AnswerWasRight, RightWithin
<1>6. RightWithin(Lan!DetectLanIp(interfaces), req[w].since, now)
  BY <1>3 DEF LanInv, RightNow, RightWithin
<1>7. DetectionWasRight(w)' /\ AnswerWasRight(w)'
  BY <1>1, <1>2, <1>6 DEF LanInv, DetectionWasRight, AnswerWasRight, RightWithin
<1> QED
  BY <1>4, <1>5, <1>7 DEF LanInv

\* A failure is found too, at the time it happens.
LEMMA DetectFailsStep == ASSUME LanInv, NEW w \in Workers, Lan!DetectFails(w) PROVE LanInv'
<1>1. /\ req[w].at = "detect" /\ UNCHANGED <<now, switches, interfaces, cache>>
      /\ found' = [found EXCEPT ![now] = found[now] \cup {None}]
  BY DEF Lan!DetectFails
<1>2. /\ DOMAIN req' = Workers /\ req'[w].at = "store" /\ req'[w].since = req[w].since
      /\ req'[w].ip = None
      /\ \A v \in Workers : v # w => req'[v] = req[v]
  BY DEF Lan!DetectFails, LanInv, LanTypes
<1>3. /\ now \in Nat /\ now \in 0..MaxTime /\ req[w].since \in 0..now
      /\ Ttl \in Nat /\ Stall \in Nat /\ MaxTime \in Nat
      /\ found \in [0..MaxTime -> SUBSET Findable] /\ None \in Findable
  <2>1. None \in Findable
    BY DEF Findable
  <2> QED
    BY <2>1, LanFacts DEF LanInv, LanTypes
<1>4. /\ found' \in [0..MaxTime -> SUBSET Findable] /\ None \in found'[now]
      /\ \A t \in 0..now : found[t] \subseteq found'[t]
  BY <1>1, <1>3
<1>5. LanTypes'
  BY <1>1, <1>2, <1>4 DEF LanInv, LanTypes
<1>6. RightNow'
  BY <1>1, <1>3, <1>4 DEF LanInv, RightNow
<1>7. CacheWasRight'
  <2> SUFFICES ASSUME cache.fetchedAt # None
               PROVE  /\ cache.fetchedAt \in 0..now
                      /\ RightWithin(cache.ip, cache.fetchedAt - Stall, cache.fetchedAt)'
    BY <1>1 DEF CacheWasRight, RightWithin
  <2>1. PICK f \in 0..now : f = cache.fetchedAt /\ RightWithin(cache.ip, f - Stall, f)
    BY DEF LanInv, CacheWasRight
  <2>2. PICK t \in 0..f : f - Stall <= t /\ cache.ip \in found[t]
    BY <2>1 DEF RightWithin
  <2>3. t \in 0..now /\ cache.ip \in found'[t]
    BY <1>3, <1>4, <2>1, <2>2
  <2> QED
    BY <1>1, <2>1, <2>2, <2>3 DEF RightWithin
<1>8. ASSUME NEW v \in Workers, v # w PROVE DetectionWasRight(v)' /\ AnswerWasRight(v)'
  <2>1. PICK r : r = req[v] /\ r = req'[v] /\ r.since \in 0..now /\ DetectionWasRight(v) /\ AnswerWasRight(v)
    BY <1>2, <1>8 DEF LanInv, LanTypes
  <2>2. ASSUME r.at = "store" PROVE RightWithin(r.ip, r.since, now)'
    <3>1. PICK t \in 0..now : r.since <= t /\ r.ip \in found[t]
      BY <2>1, <2>2 DEF DetectionWasRight, RightWithin
    <3> QED
      BY <1>1, <1>4, <3>1 DEF RightWithin
  <2>3. ASSUME r.at = "answered" PROVE RightWithin(r.ip, r.since - Ttl - Stall, r.since)'
    <3>1. PICK t \in 0..r.since : r.since - Ttl - Stall <= t /\ r.ip \in found[t]
      BY <2>1, <2>3 DEF AnswerWasRight, RightWithin
    <3>2. t \in 0..now
      BY <1>3, <2>1, <3>1
    <3> QED
      BY <1>4, <3>1, <3>2 DEF RightWithin
  <2> QED
    BY <1>1, <2>1, <2>2, <2>3 DEF DetectionWasRight, AnswerWasRight, RightWithin
<1>9. DetectionWasRight(w)' /\ AnswerWasRight(w)'
  <2>1. now - req[w].since <= Stall
    BY <1>1 DEF LanInv, DetectionWasRight
  <2>2. now \in 0..now /\ req[w].since <= now
    BY <1>3
  <2> QED
    BY <1>1, <1>2, <1>4, <2>1, <2>2 DEF DetectionWasRight, AnswerWasRight, RightWithin
<1> QED
  BY <1>5, <1>6, <1>7, <1>8, <1>9 DEF LanInv

LEMMA StoreStep == ASSUME LanInv, NEW w \in Workers, Lan!Store(w) PROVE LanInv'
<1>1. /\ req[w].at = "store" /\ UNCHANGED <<now, switches, interfaces, found>>
      /\ cache'.ip = req[w].ip /\ cache'.fetchedAt = now
  BY DEF Lan!Store
<1>2. /\ DOMAIN req' = Workers /\ req'[w].at = "answered" /\ req'[w].since = now /\ req'[w].ip = req[w].ip
      /\ \A v \in Workers : v # w => req'[v] = req[v]
  BY DEF Lan!Store, LanInv, LanTypes
<1>3. PICK s \in 0..now : s = req[w].since /\ now - s <= Stall /\ RightWithin(req[w].ip, s, now)
  BY <1>1 DEF LanInv, LanTypes, DetectionWasRight
<1>4. now \in Nat /\ Ttl \in Nat /\ Stall \in Nat
  BY LanFacts DEF LanInv, LanTypes
<1>5. RightWithin(req[w].ip, now - Stall, now) /\ RightWithin(req[w].ip, now - Ttl - Stall, now)
  BY <1>3, <1>4, Wider
<1>6. LanTypes'
  <2>1. \A v \in Workers : req'[v].since \in 0..now'
    BY <1>1, <1>2, <1>4 DEF LanInv, LanTypes
  <2> QED
    BY <1>1, <1>2, <2>1 DEF LanInv, LanTypes
<1>7. RightNow' /\ CacheWasRight'
  BY <1>1, <1>4, <1>5 DEF LanInv, RightNow, CacheWasRight, RightWithin
<1>8. ASSUME NEW v \in Workers, v # w PROVE DetectionWasRight(v)' /\ AnswerWasRight(v)'
  BY <1>1, <1>2, <1>8 DEF LanInv, DetectionWasRight, AnswerWasRight, RightWithin
<1>9. DetectionWasRight(w)' /\ AnswerWasRight(w)'
  BY <1>1, <1>2, <1>5 DEF DetectionWasRight, AnswerWasRight, RightWithin
<1> QED
  BY <1>6, <1>7, <1>8, <1>9 DEF LanInv


LEMMA DetectedOne == ASSUME NEW s \in Lan!Lists
                     PROVE  Lan!DetectLanIp(s) \in Findable
  BY DEF Findable

\* A step that leaves cache and requests alone and takes nothing from the past keeps what was right.
LEMMA HistoryGrows ==
  ASSUME LanInv, LanTypes', RightNow', now \in 0..now', UNCHANGED <<cache, req>>,
         \A t \in 0..now : found[t] \subseteq found'[t],
         \A w \in Workers : req[w].at \in {"detect", "store"} => now' - req[w].since <= Stall
  PROVE  LanInv'
<1>1. LanTypes /\ now \in Nat /\ now' \in Nat /\ Stall \in Nat /\ Ttl \in Nat
  BY LanFacts DEF LanInv, LanTypes
<1>2. CacheWasRight'
  <2> SUFFICES ASSUME cache.fetchedAt # None
               PROVE  /\ cache.fetchedAt \in 0..now'
                      /\ RightWithin(cache.ip, cache.fetchedAt - Stall, cache.fetchedAt)'
    BY DEF CacheWasRight, RightWithin
  <2>1. PICK f \in 0..now : f = cache.fetchedAt /\ RightWithin(cache.ip, f - Stall, f)
    BY DEF LanInv, CacheWasRight
  <2>2. PICK t \in 0..f : f - Stall <= t /\ cache.ip \in found[t]
    BY <2>1 DEF RightWithin
  <2>3. t \in 0..now /\ cache.ip \in found'[t]
    BY <1>1, <2>1, <2>2
  <2> QED
    BY <1>1, <2>1, <2>2, <2>3 DEF RightWithin
<1>3. ASSUME NEW w \in Workers PROVE DetectionWasRight(w)'
  <2>1. req'[w].at \in {"detect", "store"} => now' - req'[w].since <= Stall
    OBVIOUS
  <2> SUFFICES ASSUME req[w].at = "store"
               PROVE  \E t \in 0..now' : req[w].since <= t /\ req[w].ip \in found'[t]
    BY <2>1 DEF DetectionWasRight, RightWithin
  <2>2. PICK t \in 0..now : req[w].since <= t /\ req[w].ip \in found[t]
    BY DEF LanInv, DetectionWasRight, RightWithin
  <2>3. t \in 0..now' /\ req[w].ip \in found'[t]
    BY <1>1, <2>2
  <2> QED
    BY <2>2, <2>3
<1>4. ASSUME NEW w \in Workers PROVE AnswerWasRight(w)'
  <2> SUFFICES ASSUME req[w].at = "answered"
               PROVE  \E t \in 0..req[w].since : /\ req[w].since - Ttl - Stall <= t
                                                 /\ req[w].ip \in found'[t]
    BY DEF AnswerWasRight, RightWithin
  <2>1. PICK t \in 0..req[w].since : req[w].since - Ttl - Stall <= t /\ req[w].ip \in found[t]
    BY DEF LanInv, AnswerWasRight, RightWithin
  <2>2. req[w].since \in 0..now
    BY <1>1 DEF LanTypes
  <2>3. t \in 0..now /\ req[w].ip \in found'[t]
    BY <1>1, <2>1, <2>2
  <2> QED
    BY <2>1, <2>3
<1> QED
  BY <1>2, <1>3, <1>4 DEF LanInv

LEMMA InterfacesChangeStep == ASSUME LanInv, Lan!InterfacesChange PROVE LanInv'
<1>1. PICK d : /\ d = Lan!DetectLanIp(interfaces')
               /\ found' = [found EXCEPT ![now] = found[now] \cup {d}]
  BY DEF Lan!InterfacesChange
<1>2. interfaces' \in Lan!Lists /\ UNCHANGED <<now, cache, req>>
  BY DEF Lan!InterfacesChange
<1>3. /\ now \in 0..MaxTime /\ d \in Findable
      /\ found \in [0..MaxTime -> SUBSET Findable]
  BY <1>1, <1>2, DetectedOne DEF LanInv, LanTypes
<1>4. found' \in [0..MaxTime -> SUBSET Findable]
  BY <1>1, <1>3
<1>5. LanTypes'
  BY <1>2, <1>4 DEF LanInv, LanTypes
<1>6. RightNow'
  <2>1. d \in found'[now]
    BY <1>1, <1>3
  <2> QED
    BY <1>1, <1>2, <2>1 DEF RightNow
<1>7. \A t \in 0..now : found[t] \subseteq found'[t]
  BY <1>1, <1>3, LanFacts
<1>8. now \in 0..now' /\ \A w \in Workers : req[w].at \in {"detect", "store"} => now' - req[w].since <= Stall
  BY <1>2, <1>3, LanFacts DEF LanInv, DetectionWasRight
<1> QED
  BY <1>2, <1>5, <1>6, <1>7, <1>8, HistoryGrows

LEMMA LanTickStep == ASSUME LanInv, Lan!Tick PROVE LanInv'
<1>1. PICK d : d = Lan!DetectLanIp(interfaces) /\ found' = [found EXCEPT ![now + 1] = {d}]
  BY DEF Lan!Tick
<1>2. now < MaxTime /\ now' = now + 1 /\ UNCHANGED <<interfaces, cache, req>>
  BY DEF Lan!Tick
<1>3. /\ now \in 0..MaxTime /\ now + 1 \in 0..MaxTime /\ d \in Findable
      /\ found \in [0..MaxTime -> SUBSET Findable]
  <2>1. now \in 0..MaxTime /\ MaxTime \in Nat
    BY LanFacts DEF LanInv, LanTypes
  <2>2. now + 1 \in 0..MaxTime
    BY <1>2, <2>1
  <2>3. d \in Findable
    BY <1>1, DetectedOne DEF LanInv, LanTypes
  <2> QED
    BY <2>1, <2>2, <2>3 DEF LanInv, LanTypes
<1>4. found' \in [0..MaxTime -> SUBSET Findable]
  BY <1>1, <1>3
<1>5. \A w \in Workers : req'[w].since \in 0..now'
  BY <1>2, <1>3 DEF LanInv, LanTypes
<1>6. LanTypes'
  BY <1>2, <1>3, <1>4, <1>5 DEF LanInv, LanTypes
<1>7. RightNow'
  <2>1. found'[now + 1] = {d}
    BY <1>1, <1>3
  <2> QED
    BY <1>1, <1>2, <2>1 DEF RightNow
<1>8. \A t \in 0..now : found[t] \subseteq found'[t]
  <2> SUFFICES ASSUME NEW t \in 0..now PROVE found'[t] = found[t]
    OBVIOUS
  <2>1. t \in 0..MaxTime /\ t # now + 1
    BY <1>3, LanFacts
  <2> QED
    BY <1>1, <1>3, <2>1
<1>9. \A w \in Workers : req[w].at \in {"detect", "store"} => now' - req[w].since <= Stall
  <2> SUFFICES ASSUME NEW w \in Workers, req[w].at \in {"detect", "store"}
               PROVE  now' - req[w].since <= Stall
    OBVIOUS
  <2>1. now - req[w].since < Stall
    BY DEF Lan!Tick
  <2>2. PICK s \in 0..now : s = req[w].since
    BY DEF LanInv, LanTypes
  <2> QED
    BY <1>2, <1>3, <2>1, <2>2, LanFacts
<1>10. now \in 0..now'
  BY <1>2, <1>3
<1> QED
  BY <1>2, <1>6, <1>7, <1>8, <1>9, <1>10, HistoryGrows

\* However detections race and fail and interfaces change: an answer gives an address that was right,
\* or none when a detection failed, no longer ago than the cache's second and the time of a
\* detection; and the choice is right.
THEOREM AddressIsRecent == Spec => []AddressIsRight
<1> DEFINE I == part = "lan" => LanInv
<1>1. Init => I
  BY FirstStates, LanStart
<1>2. I /\ [Next]_vars => I'
  <2> SUFFICES ASSUME I, [Next]_vars, part = "lan" PROVE LanInv'
    BY OtherParts
  <2>1. CASE UNCHANGED lanVars
    BY <2>1 DEF lanVars, LanInv, LanTypes, RightNow, CacheWasRight, DetectionWasRight,
         AnswerWasRight, RightWithin
  <2>2. CASE Lan!Next
    BY <2>2, LoadStep, DetectStep, DetectFailsStep, StoreStep, InterfacesChangeStep, LanTickStep DEF Lan!Next
  <2> QED
    BY <2>1, <2>2, OtherParts
<1>3. I => AddressIsRight
  <2> SUFFICES ASSUME LanInv PROVE Lan!AnswerIsRecent /\ Lan!ChoiceIsRight
    BY DEF AddressIsRight
  <2>1. Lan!ChoiceIsRight
    BY ChoiceIsRightOfLists DEF LanInv, LanTypes
  <2>2. ASSUME NEW w \in Workers, req[w].at = "answered"
        PROVE  \E t \in 0..req[w].since : t >= req[w].since - Ttl - Stall /\ req[w].ip \in found[t]
    <3>1. PICK t \in 0..req[w].since : req[w].since - Ttl - Stall <= t /\ req[w].ip \in found[t]
      BY <2>2 DEF LanInv, AnswerWasRight, RightWithin
    <3>2. req[w].since \in Nat /\ Ttl \in Nat /\ Stall \in Nat /\ t \in Nat
      BY LanFacts DEF LanInv, LanTypes
    <3> QED
      BY <3>1, <3>2
  <2> QED
    BY <2>1, <2>2 DEF Lan!AnswerIsRecent
<1> HIDE DEF I
<1> QED
  BY <1>1, <1>2, <1>3, PTL DEF Spec


-----------------------------------------------------------------------------
(* AccessLine.                                                             *)

LEMMA AccessFacts ==
  /\ Fixed \in Nat /\ Stack \in Nat /\ Keep \in Nat
  /\ Requests \subseteq [via : {"fast", "salvo"}, ip : {"None", "V4", "V6"}, path : Nat]
  BY PartsAssumption DEF Access!AccessLineAssumption

\* Whole lines whose time is due.
DueLines ==
  {l \in [req : Requests, pieces : {Access!Pieces}, read : Nat, shows : Nat, at : Nat] :
     l.read <= l.shows /\ l.shows <= l.at}

AccessTypes ==
  /\ second \in Nat /\ coarse \in Nat /\ coarse <= second
  /\ stamp \in [Threads -> [key : Nat, text : Nat]]
  /\ buffer \in [Threads -> Nat]
  /\ DOMAIN task = Threads
  /\ answered \in [Threads -> Seq(Requests)]
  /\ lines \in [Threads -> Seq(DueLines)]

\* The text a thread keeps is not older than the second it was made for; when a line is written
\* that is the second its thread read.
StampFollows(t) ==
  /\ stamp[t].key <= stamp[t].text /\ stamp[t].text <= second
  /\ task[t].pc = "write" => stamp[t].key = task[t].read

\* A thread is at a request that it has answered last, and only when there is a log.
TaskFollows(t) ==
  /\ task[t].pc \in {"idle", "stamp", "write"}
  /\ task[t].pc # "idle" =>
       /\ log # "Off" /\ task[t].req \in Requests
       /\ task[t].read \in Nat /\ task[t].read <= second
       /\ answered[t] # <<>> /\ answered[t][Len(answered[t])] = task[t].req

\* The lines of a thread are of the requests it has answered, but for the one it is at.
LinesFollow(t) ==
  /\ Len(lines[t]) = IF log = "Off" THEN 0
                     ELSE IF task[t].pc # "idle" THEN Len(answered[t]) - 1 ELSE Len(answered[t])
  /\ \A i \in 1..Len(lines[t]) : lines[t][i].req = answered[t][i]

AccessInv ==
  /\ AccessTypes /\ Access!BufferIsSmall
  /\ \A t \in Threads : StampFollows(t) /\ TaskFollows(t) /\ LinesFollow(t)

LEMMA AccessStart == ASSUME Access!Init PROVE AccessInv
<1>1. AccessTypes
  BY DEF Access!Init, AccessTypes
<1>2. Access!BufferIsSmall
  BY AccessFacts DEF Access!Init, Access!BufferIsSmall
<1>3. ASSUME NEW t \in Threads PROVE StampFollows(t) /\ TaskFollows(t) /\ LinesFollow(t)
  BY DEF Access!Init, Access!Idle, StampFollows, TaskFollows, LinesFollow
<1> QED
  BY <1>1, <1>2, <1>3 DEF AccessInv

LEMMA AccessTickStep == ASSUME AccessInv, Access!Tick PROVE AccessInv'
<1>1. UNCHANGED <<log, stamp, buffer, task, answered, lines>>
  BY DEF Access!Tick
<1>2. second' \in Nat /\ coarse' \in Nat /\ coarse' <= second' /\ second <= second' /\ second \in Nat
  BY DEF Access!Tick, AccessInv, AccessTypes
<1>3. AccessTypes' /\ Access!BufferIsSmall'
  BY <1>1, <1>2 DEF AccessInv, AccessTypes, Access!BufferIsSmall
<1>4. ASSUME NEW t \in Threads PROVE (StampFollows(t) /\ TaskFollows(t) /\ LinesFollow(t))'
  <2>1. stamp[t].text \in Nat
    BY DEF AccessInv, AccessTypes
  <2>2. StampFollows(t)'
    BY <1>1, <1>2, <2>1 DEF AccessInv, StampFollows
  <2>3. TaskFollows(t)' /\ LinesFollow(t)'
    BY <1>1, <1>2 DEF AccessInv, TaskFollows, LinesFollow
  <2> QED
    BY <2>2, <2>3
<1> QED
  BY <1>3, <1>4 DEF AccessInv

LEMMA AnswerStep == ASSUME AccessInv, NEW t \in Threads, Access!Answer(t) PROVE AccessInv'
<1>1. PICK r \in Requests, q \in Seq(Requests) :
        /\ q = Append(answered[t], r)
        /\ answered' = [answered EXCEPT ![t] = q]
        /\ task' = IF log # "Off"
                   THEN [task EXCEPT ![t] = [pc |-> "stamp", req |-> r, read |-> coarse]] ELSE task
  <2>1. PICK r \in Requests :
          /\ answered' = [answered EXCEPT ![t] = Append(answered[t], r)]
          /\ task' = IF log # "Off"
                     THEN [task EXCEPT ![t] = [pc |-> "stamp", req |-> r, read |-> coarse]] ELSE task
    BY Zenon DEF Access!Answer, Access!Logs, Access!Calls
  <2>2. Append(answered[t], r) \in Seq(Requests)
    BY DEF AccessInv, AccessTypes
  <2> QED
    BY <2>1, <2>2, Zenon
<1>2. task[t].pc = "idle" /\ UNCHANGED <<log, second, coarse, stamp, buffer, lines>>
  BY DEF Access!Answer
<1>3. /\ Len(q) = Len(answered[t]) + 1 /\ q # <<>> /\ q[Len(q)] = r /\ Len(answered[t]) \in Nat
      /\ \A i \in 1..Len(answered[t]) : q[i] = answered[t][i]
  BY <1>1 DEF AccessInv, AccessTypes
<1>4. /\ DOMAIN task' = Threads
      /\ log = "Off" => task' = task
      /\ log # "Off" => task'[t].pc = "stamp" /\ task'[t].req = r /\ task'[t].read = coarse
      /\ \A u \in Threads : u # t => task'[u] = task[u]
  <2>1. DOMAIN task = Threads
    BY DEF AccessInv, AccessTypes
  <2>2. CASE log = "Off"
    BY <1>1, <2>1, <2>2
  <2>3. CASE log # "Off"
    BY <1>1, <2>1, <2>3
  <2> QED
    BY <2>2, <2>3
<1>5. AccessTypes' /\ Access!BufferIsSmall'
  BY <1>1, <1>2, <1>4 DEF AccessInv, AccessTypes, Access!BufferIsSmall
<1>6. answered'[t] = q /\ \A u \in Threads : u # t => answered'[u] = answered[u]
  BY <1>1 DEF AccessInv, AccessTypes
<1>7. ASSUME NEW u \in Threads, u # t PROVE (StampFollows(u) /\ TaskFollows(u) /\ LinesFollow(u))'
  <2>1. StampFollows(u)'
    BY <1>2, <1>4, <1>6, <1>7 DEF AccessInv, StampFollows
  <2>2. TaskFollows(u)'
    BY <1>2, <1>4, <1>6, <1>7 DEF AccessInv, TaskFollows
  <2>3. LinesFollow(u)'
    BY <1>2, <1>4, <1>6, <1>7 DEF AccessInv, LinesFollow
  <2> QED
    BY <2>1, <2>2, <2>3
<1>8. StampFollows(t)'
  BY <1>2, <1>4 DEF AccessInv, StampFollows
<1>9. TaskFollows(t)'
  BY <1>2, <1>3, <1>4, <1>6 DEF AccessInv, AccessTypes, TaskFollows
<1>10. LinesFollow(t)'
  <2>1. Len(lines[t]) = IF log = "Off" THEN 0 ELSE Len(answered[t])
    BY <1>2 DEF AccessInv, LinesFollow
  <2>2. \A i \in 1..Len(lines[t]) : lines[t][i].req = answered[t][i]
    BY DEF AccessInv, LinesFollow
  <2>3. CASE log = "Off"
    BY <1>2, <1>6, <2>1, <2>3 DEF LinesFollow
  <2>4. CASE log # "Off"
    BY <1>2, <1>3, <1>4, <1>6, <2>1, <2>2, <2>4 DEF LinesFollow
  <2> QED
    BY <2>3, <2>4
<1> QED
  BY <1>5, <1>7, <1>8, <1>9, <1>10 DEF AccessInv

LEMMA StampStep == ASSUME AccessInv, NEW t \in Threads, Access!Stamp(t) PROVE AccessInv'
<1>1. task[t].pc = "stamp" /\ UNCHANGED <<log, second, coarse, buffer, answered, lines>>
  BY DEF Access!Stamp
<1>2. /\ DOMAIN task' = Threads /\ \A u \in Threads : u # t => task'[u] = task[u]
      /\ task'[t].pc = "write" /\ task'[t].req = task[t].req /\ task'[t].read = task[t].read
  BY DEF Access!Stamp, AccessInv, AccessTypes
<1>3. task[t].read \in Nat /\ task[t].read <= second /\ second \in Nat
  BY <1>1 DEF AccessInv, AccessTypes, TaskFollows
<1>4. /\ stamp' \in [Threads -> [key : Nat, text : Nat]]
      /\ \A u \in Threads : u # t => stamp'[u] = stamp[u]
      /\ stamp'[t].key = task[t].read /\ stamp'[t].key <= stamp'[t].text /\ stamp'[t].text <= second
  <2>1. CASE Access!Stale(t)
    <3>1. PICK p \in [key : Nat, text : Nat] :
            p.key = task[t].read /\ p.text = second /\ stamp' = [stamp EXCEPT ![t] = p]
      <4>1. PICK p : p = [key |-> task[t].read, text |-> second] /\ stamp' = [stamp EXCEPT ![t] = p]
        BY <2>1 DEF Access!Stamp
      <4> QED
        BY <1>3, <4>1
    <3> QED
      BY <1>3, <3>1 DEF AccessInv, AccessTypes
  <2>2. CASE ~Access!Stale(t)
    <3>1. stamp' = stamp /\ stamp[t].key = task[t].read
      BY <2>2 DEF Access!Stamp, Access!Stale
    <3> QED
      BY <3>1 DEF AccessInv, AccessTypes, StampFollows
  <2> QED
    BY <2>1, <2>2
<1>5. AccessTypes' /\ Access!BufferIsSmall'
  BY <1>1, <1>2, <1>4 DEF AccessInv, AccessTypes, Access!BufferIsSmall
<1>6. ASSUME NEW u \in Threads, u # t PROVE (StampFollows(u) /\ TaskFollows(u) /\ LinesFollow(u))'
  <2>1. task'[u] = task[u] /\ stamp'[u] = stamp[u]
    BY <1>2, <1>4, <1>6
  <2>2. StampFollows(u)'
    BY <1>1, <2>1 DEF AccessInv, StampFollows
  <2>3. TaskFollows(u)'
    BY <1>1, <2>1 DEF AccessInv, TaskFollows
  <2>4. LinesFollow(u)'
    BY <1>1, <2>1 DEF AccessInv, LinesFollow
  <2> QED
    BY <2>2, <2>3, <2>4
<1>7. StampFollows(t)'
  BY <1>1, <1>2, <1>4 DEF StampFollows
<1>8. TaskFollows(t)' /\ LinesFollow(t)'
  BY <1>1, <1>2 DEF AccessInv, TaskFollows, LinesFollow
<1> QED
  BY <1>5, <1>6, <1>7, <1>8 DEF AccessInv


\* A writer on the stack.
PieceNames == {"stamp", "ip", "path", "rest"}
Writer == [out : Seq(PieceNames), len : Int, fits : BOOLEAN]

LEMMA PushOne ==
  ASSUME NEW t \in Threads, NEW w \in Writer, NEW piece \in PieceNames, Access!Width(t, piece) \in Nat
  PROVE  /\ Access!Push(t, w, piece) \in Writer
         /\ Access!Push(t, w, piece).fits => w.fits /\ Access!Push(t, w, piece).out = Append(w.out, piece)
<1>1. w.out \in Seq(PieceNames) /\ w.len \in Int /\ w.fits \in BOOLEAN
  BY DEF Writer
<1> DEFINE fits == w.fits /\ w.len + Access!Width(t, piece) <= Stack
                     /\ ~(piece = "ip" /\ task[t].req.ip = "V6")
<1>2. CASE fits
  <2>1. PICK n \in Writer : /\ n = [out |-> Append(w.out, piece), len |-> w.len + Access!Width(t, piece), fits |-> TRUE]
                            /\ n.out = Append(w.out, piece)
    <3>1. PICK o \in Seq(PieceNames), l \in Int : o = Append(w.out, piece) /\ l = w.len + Access!Width(t, piece)
      <4>1. Append(w.out, piece) \in Seq(PieceNames)
        BY <1>1
      <4>2. w.len + Access!Width(t, piece) \in Int
        BY <1>1
      <4> QED
        BY <4>1, <4>2
    <3>2. [out |-> o, len |-> l, fits |-> TRUE] \in Writer
      BY DEF Writer
    <3> QED
      BY <3>1, <3>2
  <2>2. Access!Push(t, w, piece) = n
    BY <1>2, <2>1 DEF Access!Push
  <2> QED
    BY <1>2, <2>1, <2>2
<1>3. CASE ~fits
  <2>1. Access!Push(t, w, piece) = [w EXCEPT !.fits = FALSE]
    BY <1>3 DEF Access!Push
  <2>2. [w EXCEPT !.fits = FALSE] \in Writer /\ [w EXCEPT !.fits = FALSE].fits = FALSE
    BY DEF Writer
  <2> QED
    BY <2>1, <2>2
<1> QED
  BY <1>2, <1>3

LEMMA Widths ==
  ASSUME NEW t \in Threads, task[t].req \in Requests
  PROVE  \A piece \in PieceNames : Access!Width(t, piece) \in Nat
<1>1. task[t].req.path \in Nat
  BY AccessFacts
<1> QED
  BY <1>1, AccessFacts DEF Access!Width

\* A line that fits on the stack is whole there.
LEMMA StackHoldsAll ==
  ASSUME NEW t \in Threads, task[t].req \in Requests, Access!Fits(t)
  PROVE  Access!OnStack(t).out = Access!Pieces
<1> DEFINE Wide(piece) == piece \in PieceNames /\ Access!Width(t, piece) \in Nat
<1>a. Wide("stamp") /\ Wide("ip") /\ Wide("path") /\ Wide("rest")
  <2>1. "stamp" \in PieceNames /\ "ip" \in PieceNames /\ "path" \in PieceNames /\ "rest" \in PieceNames
    BY DEF PieceNames
  <2> QED
    BY <2>1, Widths, Zenon
<1>1. PICK w0 \in Writer : w0 = Access!Blank /\ w0.out = <<>>
  <2>1. <<>> \in Seq(PieceNames)
    OBVIOUS
  <2>2. Access!Blank \in Writer
    BY <2>1 DEF Access!Blank, Writer
  <2>3. Access!Blank.out = <<>>
    BY DEF Access!Blank
  <2> QED
    BY <2>2, <2>3
<1>2. PICK w1 \in Writer : /\ w1 = Access!Push(t, w0, "stamp")
                           /\ w1.fits => w0.fits /\ w1.out = Append(w0.out, "stamp")
  BY <1>a, PushOne
<1>3. PICK w2 \in Writer : /\ w2 = Access!Push(t, w1, "ip")
                           /\ w2.fits => w1.fits /\ w2.out = Append(w1.out, "ip")
  BY <1>a, PushOne
<1>4. PICK w3 \in Writer : /\ w3 = Access!Push(t, w2, "path")
                           /\ w3.fits => w2.fits /\ w3.out = Append(w2.out, "path")
  BY <1>a, PushOne
<1>5. PICK w4 \in Writer : /\ w4 = Access!Push(t, w3, "rest")
                           /\ w4.fits => w3.fits /\ w4.out = Append(w3.out, "rest")
  BY <1>a, PushOne
<1>6. Access!OnStack(t) = w4
  BY <1>1, <1>2, <1>3, <1>4, <1>5, Zenon DEF Access!OnStack
<1>7. w4.fits
  BY <1>6 DEF Access!Fits
<1>8. w4.out = <<"stamp", "ip", "path", "rest">>
  <2>1. w3.fits /\ w2.fits /\ w1.fits
    BY <1>3, <1>4, <1>5, <1>7
  <2>2. w1.out = <<"stamp">>
    BY <1>1, <1>2, <2>1
  <2>3. w2.out = <<"stamp", "ip">>
    BY <1>3, <2>1, <2>2
  <2>4. w3.out = <<"stamp", "ip", "path">>
    BY <1>4, <2>1, <2>3
  <2> QED
    BY <1>5, <1>7, <2>4
<1> QED
  BY <1>6, <1>8 DEF Access!Pieces

LEMMA WriteStep == ASSUME AccessInv, NEW t \in Threads, Access!Write(t) PROVE AccessInv'
<1>1. task[t].pc = "write" /\ UNCHANGED <<log, second, coarse, stamp, answered>>
  BY DEF Access!Write
<1>2. /\ DOMAIN task' = Threads /\ \A u \in Threads : u # t => task'[u] = task[u]
      /\ task'[t].pc = "idle"
  BY DEF Access!Write, Access!Idle, AccessInv, AccessTypes
<1>3. /\ task[t].req \in Requests /\ task[t].read \in Nat /\ stamp[t].text \in Nat /\ second \in Nat
      /\ task[t].read <= stamp[t].text /\ stamp[t].text <= second
      /\ log # "Off" /\ answered[t] # <<>> /\ answered[t][Len(answered[t])] = task[t].req
  BY <1>1 DEF AccessInv, AccessTypes, TaskFollows, StampFollows
<1>4. PICK line \in DueLines, q \in Seq(DueLines) :
        /\ line.req = task[t].req /\ q = Append(lines[t], line)
        /\ lines' = [lines EXCEPT ![t] = q]
  <2>1. lines' = [lines EXCEPT ![t] = Append(lines[t], Access!Line(t, Access!Pieces))]
    <3>1. Access!Fits(t) => Access!OnStack(t).out = Access!Pieces
      BY <1>3, StackHoldsAll
    <3> QED
      BY <3>1, Zenon DEF Access!Write
  <2>2. PICK line \in DueLines : line = Access!Line(t, Access!Pieces) /\ line.req = task[t].req
    <3>1. PICK r \in Requests, p \in {Access!Pieces}, e \in Nat, k \in Nat, n \in Nat :
            r = task[t].req /\ p = Access!Pieces /\ e = task[t].read /\ k = stamp[t].text /\ n = second
      BY <1>3
    <3>2. PICK l : l = [req |-> r, pieces |-> p, read |-> e, shows |-> k, at |-> n]
      OBVIOUS
    <3>3. l \in [req : Requests, pieces : {Access!Pieces}, read : Nat, shows : Nat, at : Nat]
      BY <3>2
    <3>4. l.req = r /\ l.read = e /\ l.shows = k /\ l.at = n
      BY <3>2
    <3>5. e <= k /\ k <= n
      BY <1>3, <3>1
    <3>6. l \in DueLines
      BY <3>3, <3>4, <3>5 DEF DueLines
    <3>7. l = Access!Line(t, Access!Pieces)
      BY <3>1, <3>2, Zenon DEF Access!Line
    <3> QED
      BY <3>1, <3>4, <3>6, <3>7
  <2>3. Append(lines[t], line) \in Seq(DueLines)
    BY <2>2 DEF AccessInv, AccessTypes
  <2> QED
    BY <2>1, <2>2, <2>3, Zenon
<1>5. /\ buffer' \in [Threads -> Nat] /\ \A u \in Threads : buffer'[u] <= Keep
  <2>1. buffer \in [Threads -> Nat] /\ \A u \in Threads : buffer[u] <= Keep
    BY DEF AccessInv, AccessTypes, Access!BufferIsSmall
  <2>2. CASE buffer' = buffer
    BY <2>1, <2>2
  <2>3. CASE buffer' = [buffer EXCEPT ![t] = Access!Kept(Access!Grown(buffer[t], Access!Length(t)))]
    <3>1. "stamp" \in PieceNames /\ "ip" \in PieceNames /\ "path" \in PieceNames /\ "rest" \in PieceNames
      BY DEF PieceNames
    <3>a. /\ Access!Width(t, "stamp") \in Nat /\ Access!Width(t, "ip") \in Nat
          /\ Access!Width(t, "path") \in Nat /\ Access!Width(t, "rest") \in Nat
      BY <1>3, <3>1, Widths, Zenon
    <3>2. Access!Length(t) \in Nat
      BY <3>a DEF Access!Length
    <3>3. Access!Grown(buffer[t], Access!Length(t)) \in Nat
      BY <2>1, <3>2 DEF Access!Grown
    <3>4. PICK k \in Nat : k = Access!Kept(Access!Grown(buffer[t], Access!Length(t))) /\ k <= Keep
      BY <3>3, AccessFacts DEF Access!Kept
    <3> QED
      BY <2>1, <2>3, <3>4
  <2> QED
    BY <2>2, <2>3, Zenon DEF Access!Write
<1>6. AccessTypes' /\ Access!BufferIsSmall'
  BY <1>1, <1>2, <1>4, <1>5 DEF AccessInv, AccessTypes, Access!BufferIsSmall
<1>7. lines'[t] = q /\ \A u \in Threads : u # t => lines'[u] = lines[u]
  BY <1>4 DEF AccessInv, AccessTypes
<1>8. ASSUME NEW u \in Threads, u # t PROVE (StampFollows(u) /\ TaskFollows(u) /\ LinesFollow(u))'
  <2>1. StampFollows(u)'
    BY <1>1, <1>2, <1>7, <1>8 DEF AccessInv, StampFollows
  <2>2. TaskFollows(u)'
    BY <1>1, <1>2, <1>7, <1>8 DEF AccessInv, TaskFollows
  <2>3. LinesFollow(u)'
    BY <1>1, <1>2, <1>7, <1>8 DEF AccessInv, LinesFollow
  <2> QED
    BY <2>1, <2>2, <2>3
<1>9. StampFollows(t)' /\ TaskFollows(t)'
  BY <1>1, <1>2 DEF AccessInv, StampFollows, TaskFollows
<1>10. LinesFollow(t)'
  <2>1. Len(answered[t]) \in Nat /\ Len(lines[t]) = Len(answered[t]) - 1
    BY <1>1, <1>3 DEF AccessInv, AccessTypes, LinesFollow
  <2>2. \A i \in 1..Len(lines[t]) : lines[t][i].req = answered[t][i]
    BY DEF AccessInv, LinesFollow
  <2>3. /\ Len(q) = Len(lines[t]) + 1 /\ q[Len(q)] = line /\ Len(lines[t]) \in Nat
        /\ \A i \in 1..Len(lines[t]) : q[i] = lines[t][i]
    BY <1>4 DEF AccessInv, AccessTypes
  <2>4. Len(q) = Len(answered[t])
    BY <2>1, <2>3
  <2>5. ASSUME NEW i \in 1..Len(q) PROVE q[i].req = answered[t][i]
    <3>1. CASE i = Len(q)
      BY <1>3, <1>4, <2>3, <2>4, <3>1
    <3>2. CASE i # Len(q)
      <4>1. i \in 1..Len(lines[t])
        BY <2>3, <3>2
      <4> QED
        BY <2>2, <2>3, <4>1
    <3> QED
      BY <3>1, <3>2
  <2> QED
    BY <1>1, <1>2, <1>3, <1>7, <2>4, <2>5 DEF LinesFollow
<1> QED
  BY <1>6, <1>8, <1>9, <1>10 DEF AccessInv

\* Whatever threads answer at once, and however late the coarse clock is: every answer has its
\* one line, whole and with the time it is due, and no thread keeps a large buffer.
THEOREM EveryAnswerIsLogged == Spec => []AnswersAreLogged
<1> DEFINE I == part = "access" => AccessInv
<1>1. Init => I
  BY FirstStates, AccessStart
<1>2. I /\ [Next]_vars => I'
  <2> SUFFICES ASSUME I, [Next]_vars, part = "access" PROVE AccessInv'
    BY OtherParts
  <2>1. CASE UNCHANGED accessVars
    BY <2>1 DEF accessVars, AccessInv, AccessTypes, StampFollows, TaskFollows, LinesFollow,
         Access!BufferIsSmall
  <2>2. CASE Access!Next
    BY <2>2, AccessTickStep, AnswerStep, StampStep, WriteStep DEF Access!Next
  <2> QED
    BY <2>1, <2>2, OtherParts
<1>3. I => AnswersAreLogged
  <2> SUFFICES ASSUME AccessInv
               PROVE  /\ Access!OneLineEach /\ Access!LineIsWhole /\ Access!StampIsDue
                      /\ Access!BufferIsSmall
    BY DEF AnswersAreLogged
  <2>1. ASSUME NEW t \in Threads, NEW i \in DOMAIN lines[t]
        PROVE  /\ lines[t][i].pieces = Access!Pieces
               /\ lines[t][i].read <= lines[t][i].shows /\ lines[t][i].shows <= lines[t][i].at
    <3>1. lines[t][i] \in DueLines
      BY DEF AccessInv, AccessTypes
    <3> QED
      BY <3>1 DEF DueLines
  <2>2. Access!LineIsWhole /\ Access!StampIsDue
    BY <2>1 DEF Access!LineIsWhole, Access!StampIsDue
  <2>3. ASSUME NEW t \in Threads
        PROVE  [i \in DOMAIN lines[t] |-> lines[t][i].req] =
                 IF log = "Off" THEN <<>>
                 ELSE IF Access!Busy(t) THEN Access!Front(answered[t]) ELSE answered[t]
    <3>1. PICK n \in Nat : n = Len(lines[t]) /\ DOMAIN lines[t] = 1..n
      BY DEF AccessInv, AccessTypes
    <3>2. [i \in DOMAIN lines[t] |-> lines[t][i].req] = [i \in 1..n |-> answered[t][i]]
      BY <3>1 DEF AccessInv, LinesFollow
    <3>3. answered[t] \in Seq(Requests)
      BY DEF AccessInv, AccessTypes
    <3>4. n = IF log = "Off" THEN 0
              ELSE IF Access!Busy(t) THEN Len(answered[t]) - 1 ELSE Len(answered[t])
      BY <3>1 DEF AccessInv, LinesFollow, Access!Busy
    <3>5. CASE log = "Off"
      BY <3>2, <3>4, <3>5
    <3>6. CASE log # "Off" /\ Access!Busy(t)
      <4>1. Access!Front(answered[t]) = SubSeq(answered[t], 1, n)
        BY <3>4, <3>6 DEF Access!Front
      <4>2. SubSeq(answered[t], 1, n) = [i \in 1..n |-> answered[t][i]]
        BY <3>1, <3>3, <3>4, <3>6
      <4> QED
        BY <3>2, <3>6, <4>1, <4>2
    <3>7. CASE log # "Off" /\ ~Access!Busy(t)
      <4>1. answered[t] = [i \in 1..n |-> answered[t][i]]
        BY <3>3, <3>4, <3>7
      <4> QED
        BY <3>2, <3>7, <4>1
    <3> QED
      BY <3>5, <3>6, <3>7
  <2> QED
    BY <2>2, <2>3 DEF AccessInv, Access!OneLineEach
<1> HIDE DEF I
<1> QED
  BY <1>1, <1>2, <1>3, PTL DEF Spec


-----------------------------------------------------------------------------
(* Listing.                                                                *)

LEMMA ListingFacts == Objects \subseteq [kind : {"file", "dir", "link"}, size : Nat]
  BY PartsAssumption DEF List!ListingAssumption

Row == [name : Files, type : {"file", "dir"}, size : Nat \cup {None}]

ListingTypes ==
  /\ dir \in [Files -> Objects \cup {None}]
  /\ was \in [Files -> SUBSET (Objects \cup {None})]
  /\ \A n \in Files : dir[n] \in was[n]
  /\ step \in {"walk", "stat", "done"} /\ unread \subseteq Files
  /\ entries \in Seq(Row)

\* The entry that is looked at is of a name given once, with a type it has had, if any.
DirentFollows ==
  step = "stat" =>
    /\ dirent.name \in Files \ unread
    /\ dirent.type = None \/ \E o \in was[dirent.name] \ {None} : o.kind = dirent.type

\* A name that is still to be listed, the rows of one, and those due to it.
Waiting(n) == n \in unread \/ (step = "stat" /\ dirent.name = n)
ShownOf(n) == {e \in List!Range(entries) : e.name = n}
DueOf(n) == IF dir[n] = None \/ dir[n].kind = "link" THEN {} ELSE {List!Entry(n, dir[n])}

\* No name is listed before its turn; after it a name nobody touched has what is due to it.
ListedSo(n) ==
  /\ Waiting(n) => ShownOf(n) = {}
  /\ ~Waiting(n) /\ was[n] = {dir[n]} => ShownOf(n) = DueOf(n)

WasSo(e) ==
  /\ \E o \in was[e.name] \ {None} : o.kind = e.type
  /\ e.type = "file" => \E o \in was[e.name] \ {None} : o.size = e.size

ListingInv ==
  /\ ListingTypes /\ DirentFollows
  /\ step = "done" => unread = {}
  /\ \A n \in Files : ListedSo(n)
  /\ \A e \in List!Range(entries) : WasSo(e)

LEMMA ListingStart == ASSUME List!Init PROVE ListingInv
<1>1. ListingTypes
  BY DEF List!Init, ListingTypes
<1>2. List!Range(entries) = {}
  BY DEF List!Init, List!Range
<1>3. unread = Files /\ step = "walk"
  BY DEF List!Init
<1>4. ASSUME NEW n \in Files PROVE ListedSo(n)
  BY <1>2, <1>3 DEF ListedSo, Waiting, ShownOf
<1> QED
  BY <1>1, <1>2, <1>3, <1>4 DEF ListingInv, DirentFollows

LEMMA ChangeStep == ASSUME ListingInv, List!Change PROVE ListingInv'
<1>1. step # "done" /\ UNCHANGED <<step, unread, dirent, entries>>
  BY DEF List!Change
<1>2. PICK n \in Files, o \in Objects \cup {None}, w \in SUBSET (Objects \cup {None}) :
        /\ dir[n] # o /\ dir' = [dir EXCEPT ![n] = o]
        /\ w = was[n] \cup {o} /\ was' = [was EXCEPT ![n] = w]
  BY DEF List!Change, ListingInv, ListingTypes
<1>3. /\ dir'[n] = o /\ \A m \in Files : m # n => dir'[m] = dir[m]
      /\ was'[n] = w /\ \A m \in Files : m # n => was'[m] = was[m]
      /\ dir[n] \in was[n]
  BY <1>2 DEF ListingInv, ListingTypes
<1>4. \A m \in Files : was[m] \subseteq was'[m]
  BY <1>2, <1>3
<1>5. ListingTypes'
  BY <1>1, <1>2, <1>3 DEF ListingInv, ListingTypes
<1>6. DirentFollows' /\ (step = "done" => unread = {})'
  BY <1>1, <1>4 DEF ListingInv, DirentFollows
<1>7. was'[n] # {dir'[n]}
  BY <1>2, <1>3
<1>8. ASSUME NEW m \in Files PROVE ListedSo(m)'
  <2>1. ListedSo(m) /\ Waiting(m)' = Waiting(m) /\ ShownOf(m)' = ShownOf(m)
    BY <1>1 DEF ListingInv, Waiting, ShownOf
  <2>2. CASE m = n
    BY <1>7, <2>1, <2>2 DEF ListedSo
  <2>3. CASE m # n
    BY <1>3, <2>1, <2>3 DEF ListedSo, DueOf
  <2> QED
    BY <2>2, <2>3
<1>9. ASSUME NEW e \in List!Range(entries) PROVE WasSo(e)'
  <2>1. e \in Row
    BY DEF ListingInv, ListingTypes, List!Range
  <2>2. was[e.name] \subseteq was'[e.name]
    BY <1>4, <2>1 DEF Row
  <2> QED
    BY <2>2 DEF ListingInv, WasSo
<1> QED
  BY <1>1, <1>5, <1>6, <1>8, <1>9 DEF ListingInv

LEMMA DirentStep == ASSUME ListingInv, List!Dirent PROVE ListingInv'
<1>1. step = "walk" /\ UNCHANGED <<dir, was, entries>>
  BY DEF List!Dirent
<1>2. PICK n \in unread :
        /\ unread' = unread \ {n}
        /\ \/ /\ \E o \in was[n] \ {None}, typed \in WithTypes :
                   dirent' = [name |-> n, type |-> IF typed THEN o.kind ELSE None]
              /\ step' = "stat"
           \/ /\ (None \in was[n] \/ was[n] # {dir[n]})
              /\ dirent' = dirent /\ step' = step
  BY DEF List!Dirent
<1>3. ASSUME NEW e \in List!Range(entries) PROVE WasSo(e)'
  BY <1>1 DEF ListingInv, WasSo
<1>4. \A m \in Files : ShownOf(m)' = ShownOf(m) /\ DueOf(m)' = DueOf(m)
  BY <1>1 DEF ShownOf, DueOf
<1>5. unread \subseteq Files
  BY DEF ListingInv, ListingTypes
<1>6. CASE /\ \E o \in was[n] \ {None}, typed \in WithTypes :
                dirent' = [name |-> n, type |-> IF typed THEN o.kind ELSE None]
           /\ step' = "stat"
  <2>1. dirent'.name = n /\ (dirent'.type = None \/ \E o \in was[n] \ {None} : o.kind = dirent'.type)
    BY <1>6
  <2>2. ListingTypes' /\ DirentFollows'
    BY <1>1, <1>2, <1>5, <1>6, <2>1 DEF ListingInv, ListingTypes, DirentFollows
  <2>3. ASSUME NEW m \in Files PROVE ListedSo(m)'
    <3>1. Waiting(m)' <=> Waiting(m)
      BY <1>1, <1>2, <1>6, <2>1 DEF Waiting
    <3> QED
      BY <1>1, <1>4, <3>1 DEF ListingInv, ListedSo
  <2> QED
    BY <1>1, <1>3, <1>6, <2>2, <2>3 DEF ListingInv
<1>7. CASE /\ (None \in was[n] \/ was[n] # {dir[n]})
           /\ dirent' = dirent /\ step' = step
  <2>1. ListingTypes' /\ DirentFollows'
    BY <1>1, <1>2, <1>5, <1>7 DEF ListingInv, ListingTypes, DirentFollows
  <2>2. ASSUME NEW m \in Files, m # n PROVE ListedSo(m)'
    <3>1. Waiting(m)' <=> Waiting(m)
      BY <1>1, <1>2, <1>7, <2>2 DEF Waiting
    <3> QED
      BY <1>1, <1>4, <2>2, <3>1 DEF ListingInv, ListedSo
  <2>3. ListedSo(n)'
    <3>1. n \in Files /\ ShownOf(n) = {}
      BY <1>2, <1>5 DEF ListingInv, ListedSo, Waiting
    <3>2. was[n] = {dir[n]} => DueOf(n) = {}
      BY <1>7 DEF DueOf
    <3> QED
      BY <1>1, <1>4, <3>1, <3>2 DEF ListedSo
  <2> QED
    BY <1>1, <1>3, <1>7, <2>1, <2>2, <2>3 DEF ListingInv
<1> QED
  BY <1>2, <1>6, <1>7


\* A row at the end is a row more.
LEMMA OneRowMore ==
  ASSUME NEW s \in Seq(Row), NEW e
  PROVE  List!Range(Append(s, e)) = List!Range(s) \cup {e}
<1>1. /\ DOMAIN Append(s, e) = 1..(Len(s) + 1) /\ DOMAIN s = 1..Len(s) /\ Len(s) \in Nat
      /\ Append(s, e)[Len(s) + 1] = e /\ \A i \in 1..Len(s) : Append(s, e)[i] = s[i]
  OBVIOUS
<1>2. 1..(Len(s) + 1) = (1..Len(s)) \cup {Len(s) + 1}
  BY <1>1
<1>3. List!Range(s) = {s[i] : i \in 1..Len(s)}
  BY <1>1 DEF List!Range
<1>4. List!Range(Append(s, e)) = {Append(s, e)[i] : i \in (1..Len(s)) \cup {Len(s) + 1}}
  BY <1>1, <1>2 DEF List!Range
<1>5. List!Range(s) \cup {e} \subseteq List!Range(Append(s, e))
  BY <1>1, <1>3, <1>4
<1>6. List!Range(Append(s, e)) \subseteq List!Range(s) \cup {e}
  BY <1>1, <1>3, <1>4
<1> QED
  BY <1>5, <1>6

\* What a stat of a name that is something and no link, as far as is known, adds to the rows.
LEMMA StatRow ==
  ASSUME ListingInv, step = "stat", NEW n \in Files, NEW o, n = dirent.name, o = dir[n], o # None,
         NEW type, type = List!TypeOf(dirent, o), type # "link"
  PROVE  \E e \in Row :
           /\ e = [name |-> n, type |-> IF type = "dir" THEN "dir" ELSE "file",
                   size |-> IF type = "dir" THEN None ELSE o.size]
           /\ e.name = n /\ WasSo(e)
           /\ was[n] = {dir[n]} => o.kind # "link" /\ e = List!Entry(n, o)
<1>1. o \in Objects /\ o.kind \in {"file", "dir", "link"} /\ o.size \in Nat /\ o \in was[n]
  BY ListingFacts DEF ListingInv, ListingTypes
<1>2. \E p \in was[n] \ {None} : p.kind = type
  BY <1>1 DEF ListingInv, DirentFollows, List!TypeOf
<1>3. type \in {"file", "dir"}
  <2>1. PICK p \in was[n] \ {None} : p.kind = type
    BY <1>2
  <2>2. p \in Objects
    BY <2>1 DEF ListingInv, ListingTypes
  <2> QED
    BY <2>1, <2>2, ListingFacts
<1>4. PICK z \in Nat \cup {None} : z = IF type = "dir" THEN None ELSE o.size
  BY <1>1
<1>5. PICK e : e = [name |-> n, type |-> type, size |-> z]
  OBVIOUS
<1>6. e \in Row /\ e.name = n /\ e.type = type /\ e.size = z
  BY <1>3, <1>4, <1>5 DEF Row
<1>7. WasSo(e)
  <2>1. type = "file" => z = o.size
    BY <1>4
  <2> QED
    BY <1>1, <1>2, <1>6, <2>1 DEF WasSo
<1>8. ASSUME was[n] = {dir[n]} PROVE o.kind # "link" /\ e = List!Entry(n, o)
  <2>1. o.kind = type
    BY <1>2, <1>8
  <2> QED
    BY <1>4, <1>5, <2>1 DEF List!Entry
<1>9. e = [name |-> n, type |-> IF type = "dir" THEN "dir" ELSE "file",
           size |-> IF type = "dir" THEN None ELSE o.size]
  BY <1>3, <1>4, <1>5
<1> QED
  BY <1>6, <1>7, <1>8, <1>9

LEMMA StatStep == ASSUME ListingInv, List!Stat PROVE ListingInv'
<1>1. step = "stat" /\ step' = "walk" /\ UNCHANGED <<dir, was, unread>>
  BY DEF List!Stat
<1>2. PICK n \in Files : n = dirent.name /\ n \notin unread
  BY <1>1 DEF ListingInv, DirentFollows
<1>3. PICK o : o = dir[n]
  OBVIOUS
<1>4. ShownOf(n) = {}
  BY <1>1, <1>2 DEF ListingInv, ListedSo, Waiting
<1>5. \A m \in Files : m # n => (Waiting(m)' <=> Waiting(m))
  BY <1>1, <1>2 DEF Waiting
<1>6. ~Waiting(n)'
  BY <1>1, <1>2 DEF Waiting
<1>7. \A m \in Files : DueOf(m)' = DueOf(m)
  BY <1>1 DEF DueOf
<1>8. \A e \in List!Range(entries) : WasSo(e)'
  BY <1>1 DEF ListingInv, WasSo
<1>9. CASE entries' = entries /\ (o = None \/ List!TypeOf(dirent, o) = "link")
  <2>1. was[n] = {dir[n]} => DueOf(n) = {}
    <3> SUFFICES ASSUME was[n] = {dir[n]}, o # None PROVE o.kind = "link"
      BY <1>3 DEF DueOf
    <3>1. List!TypeOf(dirent, o) = o.kind
      BY <1>1, <1>2, <1>3 DEF ListingInv, DirentFollows, List!TypeOf
    <3> QED
      BY <1>9, <3>1
  <2>2. \A m \in Files : ShownOf(m)' = ShownOf(m)
    BY <1>9 DEF ShownOf
  <2>3. ListedSo(n)'
    BY <1>1, <1>4, <1>6, <1>7, <2>1, <2>2 DEF ListedSo
  <2>4. ASSUME NEW m \in Files, m # n PROVE ListedSo(m)'
    BY <1>1, <1>5, <1>7, <2>2, <2>4 DEF ListingInv, ListedSo
  <2>5. ListingTypes' /\ DirentFollows'
    BY <1>1, <1>9 DEF ListingInv, ListingTypes, DirentFollows
  <2> QED
    BY <1>1, <1>8, <1>9, <2>3, <2>4, <2>5 DEF ListingInv
<1>10. CASE /\ o # None /\ List!TypeOf(dirent, o) # "link"
            /\ entries' = Append(entries, [name |-> n,
                 type |-> IF List!TypeOf(dirent, o) = "dir" THEN "dir" ELSE "file",
                 size |-> IF List!TypeOf(dirent, o) = "dir" THEN None ELSE o.size])
  <2>1. PICK type : type = List!TypeOf(dirent, o)
    OBVIOUS
  <2>2. PICK e \in Row :
          /\ e = [name |-> n, type |-> IF type = "dir" THEN "dir" ELSE "file",
                  size |-> IF type = "dir" THEN None ELSE o.size]
          /\ e.name = n /\ WasSo(e)
          /\ was[n] = {dir[n]} => o.kind # "link" /\ e = List!Entry(n, o)
    BY <1>1, <1>2, <1>3, <1>10, <2>1, StatRow
  <2>3. entries' = Append(entries, e)
    BY <1>10, <2>1, <2>2
  <2>4. entries \in Seq(Row)
    BY DEF ListingInv, ListingTypes
  <2>5. List!Range(entries)' = List!Range(entries) \cup {e}
    <3>1. List!Range(Append(entries, e)) = List!Range(entries) \cup {e}
      BY <2>4, OneRowMore
    <3> QED
      BY <2>3, <3>1
  <2>6. ListingTypes' /\ DirentFollows'
    BY <1>1, <2>3, <2>4 DEF ListingInv, ListingTypes, DirentFollows
  <2>7. \A x \in List!Range(entries)' : WasSo(x)'
    <3>1. WasSo(e)'
      BY <1>1, <2>2 DEF WasSo
    <3> QED
      BY <1>8, <2>5, <3>1
  <2>8. ShownOf(n)' = {e}
    BY <1>4, <2>2, <2>5 DEF ShownOf
  <2>9. was[n] = {dir[n]} => DueOf(n) = {e}
    BY <1>3, <1>10, <2>2 DEF DueOf
  <2>10. ListedSo(n)'
    BY <1>1, <1>6, <1>7, <2>8, <2>9 DEF ListedSo
  <2>11. ASSUME NEW m \in Files, m # n PROVE ListedSo(m)'
    <3>1. ShownOf(m)' = ShownOf(m)
      BY <2>2, <2>5, <2>11 DEF ShownOf
    <3> QED
      BY <1>1, <1>5, <1>7, <2>11, <3>1 DEF ListingInv, ListedSo
  <2> QED
    BY <1>1, <2>6, <2>7, <2>10, <2>11 DEF ListingInv
<1>11. entries' = IF o = None THEN entries
                  ELSE IF List!TypeOf(dirent, o) = "link" THEN entries
                  ELSE Append(entries, [name |-> n,
                         type |-> IF List!TypeOf(dirent, o) = "dir" THEN "dir" ELSE "file",
                         size |-> IF List!TypeOf(dirent, o) = "dir" THEN None ELSE o.size])
  BY <1>2, <1>3, Zenon DEF List!Stat
<1> QED
  BY <1>9, <1>10, <1>11

LEMMA FinishStep == ASSUME ListingInv, List!Finish PROVE ListingInv'
<1>1. unread = {} /\ step' = "done" /\ UNCHANGED <<dir, was, unread, dirent>> /\ step = "walk"
  BY DEF List!Finish
<1>2. PICK sorted \in [DOMAIN entries -> List!Range(entries)] :
        List!Range(sorted) = List!Range(entries) /\ entries' = sorted
  BY DEF List!Finish
<1>3. entries' \in Seq(Row)
  <2>1. entries \in Seq(Row) /\ DOMAIN entries = 1..Len(entries) /\ Len(entries) \in Nat
    BY DEF ListingInv, ListingTypes
  <2>2. List!Range(entries) \subseteq Row
    BY <2>1 DEF List!Range
  <2>3. sorted \in [1..Len(entries) -> Row]
    BY <1>2, <2>1, <2>2
  <2> QED
    BY <1>2, <2>1, <2>3
<1>4. List!Range(entries)' = List!Range(entries)
  BY <1>2
<1>5. ListingTypes' /\ DirentFollows'
  BY <1>1, <1>3 DEF ListingInv, ListingTypes, DirentFollows
<1>6. ASSUME NEW n \in Files PROVE ListedSo(n)'
  BY <1>1, <1>4 DEF ListingInv, ListedSo, Waiting, ShownOf, DueOf
<1>7. \A e \in List!Range(entries)' : WasSo(e)'
  BY <1>1, <1>4 DEF ListingInv, WasSo
<1> QED
  BY <1>1, <1>5, <1>6, <1>7 DEF ListingInv

\* Whatever other programs do to the directory meanwhile: a finished listing has what nobody
\* touched as what it is, and of the rest nothing that it has not been.
THEOREM ListingTellsItsTime == Spec => []ListingIsOfItsTime
<1> DEFINE I == part = "listing" => ListingInv
<1>1. Init => I
  BY FirstStates, ListingStart
<1>2. I /\ [Next]_vars => I'
  <2> SUFFICES ASSUME I, [Next]_vars, part = "listing" PROVE ListingInv'
    BY OtherParts
  <2>1. CASE UNCHANGED listingVars
    BY <2>1 DEF listingVars, ListingInv, ListingTypes, DirentFollows, ListedSo, Waiting, ShownOf,
         DueOf, WasSo
  <2>2. CASE List!Next
    BY <2>2, ChangeStep, DirentStep, StatStep, FinishStep DEF List!Next
  <2> QED
    BY <2>1, <2>2, OtherParts
<1>3. I => ListingIsOfItsTime
  <2> SUFFICES ASSUME ListingInv PROVE List!StableIsListed /\ List!EntryWasSo
    BY DEF ListingIsOfItsTime
  <2>1. ASSUME step = "done", NEW n \in Files, was[n] = {dir[n]}
        PROVE  {e \in List!Range(entries) : e.name = n} =
                 IF dir[n] = None \/ dir[n].kind = "link" THEN {} ELSE {List!Entry(n, dir[n])}
    <3>1. ~Waiting(n)
      BY <2>1 DEF ListingInv, Waiting
    <3> QED
      BY <2>1, <3>1 DEF ListingInv, ListedSo, ShownOf, DueOf
  <2>2. ASSUME NEW i \in DOMAIN entries PROVE WasSo(entries[i])
    BY DEF ListingInv, List!Range
  <2> QED
    BY <2>1, <2>2 DEF List!StableIsListed, List!EntryWasSo, WasSo
<1> HIDE DEF I
<1> QED
  BY <1>1, <1>2, <1>3, PTL DEF Spec

-----------------------------------------------------------------------------
(* PullUrls.  What joins, encodes and decodes the names of a path is         *)
(* defined by recursion; what it gives is proved by induction, in the form   *)
(* of a set of numbers, or of texts, that has the first one and with each    *)
(* one the next.                                                             *)

LEMMA Induct ==
  ASSUME NEW T, T \subseteq Nat, 0 \in T, \A n \in T : n + 1 \in T
  PROVE  T = Nat
<1> SUFFICES ASSUME Nat \ T # {} PROVE FALSE
  OBVIOUS
<1> DEFINE R == {p \in Nat \X Nat : p[1] < p[2]}
<1>1. IsWellFoundedOn(R, Nat)
  BY NatLessThanWellFounded, Zenon DEF OpToRel
<1>2. \A x, y \in Nat : <<y, x>> \in R <=> y < x
  OBVIOUS
<1> HIDE DEF R
<1>3. PICK x \in Nat \ T : \A y \in Nat \ T : <<y, x>> \notin R
  BY <1>1, WFMin, Zenon
<1>4. \A y \in Nat \ T : ~(y < x)
  BY <1>2, <1>3, Zenon
<1>5. x # 0 /\ x - 1 \in Nat /\ x - 1 < x /\ (x - 1) + 1 = x
  BY <1>3
<1>6. x - 1 \in T
  BY <1>4, <1>5
<1> QED
  BY <1>3, <1>5, <1>6

\* The characters that can be in a text, and the words that stand for one.
Words == {"/", "%", "#", "?", "h", "files", "pull", "api", "zip", "list", "other", "dst", "-f", "--flat"}
Chars == STRING \cup DOMAIN Escape \cup Digits \cup Words
Text == Seq(Chars)

LEMMA UrlFacts ==
  /\ \A n \in Names : n \in Text /\ n # <<>> /\ \A i \in DOMAIN n : n[i] # "/"
  /\ "%" \in DOMAIN Escape /\ "#" \in DOMAIN Escape /\ "?" \in DOMAIN Escape
  /\ "/" \notin DOMAIN Escape /\ "/" \notin Digits
  /\ \A c \in DOMAIN Escape : c \notin Digits /\ Escape[c] \in Digits \X Digits
  /\ \A c, d \in DOMAIN Escape : Escape[c] = Escape[d] => c = d
<1> USE PartsAssumption DEF Urls!NamesAssumption
<1>1. ASSUME NEW n \in Names PROVE n \in Text /\ n # <<>> /\ \A i \in DOMAIN n : n[i] # "/"
  <2>1. n \in Seq(STRING) /\ n # <<>>
    OBVIOUS
  <2>2. n \in Text
    BY <2>1 DEF Text, Chars
  <2>3. \A i \in DOMAIN n : n[i] # "/"
    BY DEF Urls!Range
  <2> QED
    BY <2>1, <2>2, <2>3
<1>2. "%" \in DOMAIN Escape /\ "#" \in DOMAIN Escape /\ "?" \in DOMAIN Escape
  OBVIOUS
<1>3. "/" \notin DOMAIN Escape /\ "/" \notin Digits
  OBVIOUS
<1>4. \A c \in DOMAIN Escape : c \notin Digits
  OBVIOUS
<1>5. \A c \in DOMAIN Escape : Escape[c] \in Digits \X Digits
  OBVIOUS
<1>6. \A c, d \in DOMAIN Escape : Escape[c] = Escape[d] => c = d
  OBVIOUS
<1> QED
  BY <1>1, <1>2, <1>3, <1>4, <1>5, <1>6, Zenon

Flattens(g, ss) ==
  \A i \in 1..Len(ss) : g[i] = IF i = 1 THEN ss[i] ELSE g[i - 1] \o ss[i]

LEMMA FlattenDef ==
  ASSUME NEW S, NEW ss \in Seq(Seq(S)), ss # <<>>
  PROVE  \E g : Urls!FlattenSeq(ss) = g[Len(ss)] /\ Flattens(g, ss)
<1> DEFINE Rec(g, n) == g = [i \in 1..n |-> IF i = 1 THEN ss[i] ELSE g[i - 1] \o ss[i]]
           T == {n \in Nat : \E g : Rec(g, n)}
<1>1. 0 \in T
  <2>1. Rec([i \in 1..0 |-> <<>>], 0)
    OBVIOUS
  <2> QED
    BY <2>1
<1>2. \A n \in T : n + 1 \in T
  <2> TAKE n \in T
  <2>0. PICK g : n \in Nat /\ Rec(g, n)
    OBVIOUS
  <2>1. \A i \in 1..n : g[i] = IF i = 1 THEN ss[i] ELSE g[i - 1] \o ss[i]
    BY <2>0
  <2> HIDE DEF Rec
  <2> DEFINE k == [i \in 1..(n + 1) |-> IF i = n + 1 THEN IF n = 0 THEN ss[1] ELSE g[n] \o ss[i]
                                       ELSE g[i]]
  <2>2. \A i \in 1..(n + 1) : k[i] = IF i = 1 THEN ss[i] ELSE k[i - 1] \o ss[i]
    <3> TAKE i \in 1..(n + 1)
    <3>1. CASE i = n + 1
      BY <2>0, <3>1
    <3>2. CASE i \in 2..n
      <4>1. i - 1 \in 1..n /\ i \in 1..n /\ i # 1 /\ i # n + 1 /\ i - 1 # n + 1
        BY <2>0, <3>2
      <4>2. k[i] = g[i] /\ k[i - 1] = g[i - 1]
        BY <2>0, <4>1
      <4> QED
        BY <2>1, <4>1, <4>2
    <3>3. CASE i = 1 /\ n # 0
      <4>1. 1 \in 1..n
        BY <2>0, <3>3
      <4> QED
        BY <2>1, <3>3, <4>1
    <3> QED
      BY <2>0, <3>1, <3>2, <3>3
  <2>3. k = [i \in 1..(n + 1) |-> k[i]]
    OBVIOUS
  <2> HIDE DEF k
  <2>4. Rec(k, n + 1)
    BY <2>2, <2>3 DEF Rec
  <2> QED
    BY <2>0, <2>4
<1> HIDE DEF Rec
<1>3. T = Nat
  BY <1>1, <1>2, Induct
<1>4. Len(ss) \in Nat /\ Len(ss) # 0
  OBVIOUS
<1>5. \E g : Rec(g, Len(ss))
  BY <1>3, <1>4
<1> DEFINE f == CHOOSE g : g = [i \in 1..Len(ss) |-> IF i = 1 THEN ss[i] ELSE g[i - 1] \o ss[i]]
<1>6. Rec(f, Len(ss))
  BY <1>5 DEF Rec
<1>7. Urls!FlattenSeq(ss) = f[Len(ss)]
  BY <1>4 DEF Urls!FlattenSeq
<1> HIDE DEF f
<1>8. \A i \in 1..Len(ss) : f[i] = IF i = 1 THEN ss[i] ELSE f[i - 1] \o ss[i]
  BY <1>6 DEF Rec
<1>9. Flattens(f, ss)
  BY <1>8 DEF Flattens
<1> QED
  BY <1>7, <1>9

LEMMA FlattensIn ==
  ASSUME NEW S, NEW ss \in Seq(Seq(S)), NEW g, Flattens(g, ss)
  PROVE  \A i \in 1..Len(ss) : g[i] \in Seq(S)
<1> DEFINE T == {i \in Nat : i \in 1..Len(ss) => g[i] \in Seq(S)}
<1>1. 0 \in T
  OBVIOUS
<1>2. \A i \in T : i + 1 \in T
  <2> SUFFICES ASSUME NEW i \in Nat, i \in 1..Len(ss) => g[i] \in Seq(S), i + 1 \in 1..Len(ss)
               PROVE  g[i + 1] \in Seq(S)
    BY \A i \in Nat : i + 1 \in Nat, Zenon
  <2>1. ss[i + 1] \in Seq(S) /\ i \in Nat /\ (i + 1) - 1 = i
    OBVIOUS
  <2>2. CASE i = 0
    BY <2>1, <2>2 DEF Flattens
  <2>3. CASE i # 0
    <3>1. i \in 1..Len(ss) /\ i + 1 # 1
      BY <2>1, <2>3
    <3>2. g[i] \in Seq(S) /\ g[i + 1] = g[i] \o ss[i + 1]
      BY <2>1, <3>1 DEF Flattens
    <3> QED
      BY <2>1, <3>2
  <2> QED
    BY <2>2, <2>3
<1>3. T = Nat
  BY <1>1, <1>2, Induct
<1> QED
  BY <1>3

LEMMA FlattensAlike ==
  ASSUME NEW S, NEW ss \in Seq(Seq(S)), NEW tt \in Seq(Seq(S)), Len(ss) <= Len(tt),
         \A i \in 1..Len(ss) : ss[i] = tt[i],
         NEW f, Flattens(f, ss), NEW g, Flattens(g, tt)
  PROVE  \A i \in 1..Len(ss) : f[i] = g[i]
<1> DEFINE T == {i \in Nat : i \in 1..Len(ss) => f[i] = g[i]}
<1>1. 0 \in T
  OBVIOUS
<1>2. \A i \in T : i + 1 \in T
  <2> SUFFICES ASSUME NEW i \in Nat, i \in 1..Len(ss) => f[i] = g[i], i + 1 \in 1..Len(ss)
               PROVE  f[i + 1] = g[i + 1]
    BY \A i \in Nat : i + 1 \in Nat, Zenon
  <2>1. ss[i + 1] = tt[i + 1] /\ i \in Nat /\ (i + 1) - 1 = i /\ i + 1 \in 1..Len(tt)
    OBVIOUS
  <2>2. CASE i = 0
    BY <2>1, <2>2 DEF Flattens
  <2>3. CASE i # 0
    <3>1. i \in 1..Len(ss) /\ i + 1 # 1
      BY <2>1, <2>3
    <3>2. f[i] = g[i]
      BY <3>1
    <3> QED
      BY <2>1, <3>1, <3>2 DEF Flattens
  <2> QED
    BY <2>2, <2>3
<1>3. T = Nat
  BY <1>1, <1>2, Induct
<1>4. \A i \in 1..Len(ss) : i \in Nat
  OBVIOUS
<1> QED
  BY <1>3, <1>4, Zenon

\* The concatenation of sequences is one of the same elements, and grows by the last.
LEMMA FlattenEmpty == Urls!FlattenSeq(<<>>) = <<>>
  BY DEF Urls!FlattenSeq

LEMMA FlattenIn ==
  ASSUME NEW S, NEW ss \in Seq(Seq(S))
  PROVE  Urls!FlattenSeq(ss) \in Seq(S)
<1>1. CASE ss = <<>>
  <2>1. Urls!FlattenSeq(ss) = <<>>
    BY <1>1, FlattenEmpty
  <2> QED
    BY <2>1
<1>2. CASE ss # <<>>
  <2>1. PICK g : Urls!FlattenSeq(ss) = g[Len(ss)] /\ Flattens(g, ss)
    BY <1>2, FlattenDef
  <2>2. Len(ss) \in 1..Len(ss)
    BY <1>2
  <2> QED
    BY <2>1, <2>2, FlattensIn
<1> QED
  BY <1>1, <1>2

LEMMA FlattenAppend ==
  ASSUME NEW S, NEW ss \in Seq(Seq(S)), NEW s \in Seq(S)
  PROVE  Urls!FlattenSeq(Append(ss, s)) = Urls!FlattenSeq(ss) \o s
<1>1. PICK tt : tt = Append(ss, s)
  OBVIOUS
<1>2. /\ tt \in Seq(Seq(S)) /\ tt # <<>> /\ Len(tt) = Len(ss) + 1 /\ tt[Len(ss) + 1] = s
      /\ \A i \in 1..Len(ss) : ss[i] = tt[i]
  BY <1>1, AppendProperties
<1>3. PICK g : Urls!FlattenSeq(tt) = g[Len(tt)] /\ Flattens(g, tt)
  BY <1>2, FlattenDef
<1>4. Len(ss) \in Nat /\ Len(tt) \in 1..Len(tt) /\ Len(tt) - 1 = Len(ss)
  BY <1>2
<1>5. CASE ss = <<>>
  <2>1. Len(tt) = 1
    BY <1>2, <1>5
  <2>2. Urls!FlattenSeq(tt) = s
    BY <1>2, <1>3, <1>4, <2>1 DEF Flattens
  <2>3. Urls!FlattenSeq(ss) = <<>>
    BY <1>5, FlattenEmpty
  <2> QED
    BY <1>1, <2>2, <2>3
<1>6. CASE ss # <<>>
  <2>1. PICK f : Urls!FlattenSeq(ss) = f[Len(ss)] /\ Flattens(f, ss)
    BY <1>6, FlattenDef
  <2>2. Len(ss) \in 1..Len(ss) /\ Len(tt) # 1
    BY <1>2, <1>4, <1>6
  <2>3. f[Len(ss)] = g[Len(ss)]
    <3>1. Len(ss) <= Len(tt)
      BY <1>2, <1>4
    <3>2. \A i \in 1..Len(ss) : f[i] = g[i]
      <4>1. tt \in Seq(Seq(S)) /\ Flattens(f, ss) /\ Flattens(g, tt)
        BY <1>2, <1>3, <2>1
      <4>2. \A i \in 1..Len(ss) : ss[i] = tt[i]
        BY <1>2
      <4> QED
        BY <3>1, <4>1, <4>2, FlattensAlike
    <3> QED
      BY <2>2, <3>2
  <2>4. g[Len(tt)] = g[Len(ss)] \o s
    BY <1>2, <1>3, <1>4, <2>2 DEF Flattens
  <2> QED
    BY <1>1, <1>3, <2>1, <2>3, <2>4
<1> QED
  BY <1>5, <1>6

-----------------------------------------------------------------------------
(* encode_path: what it makes of each character, in the order of the text. *)

Code(c) == IF c \in DOMAIN Escape THEN <<"%">> \o Escape[c] ELSE <<c>>
Codes(s) == [i \in DOMAIN s |-> Code(s[i])]

LEMMA Word == ASSUME NEW c \in Words PROVE c \in Chars
  BY DEF Chars

LEMMA CodeEscaped ==
  ASSUME NEW c \in DOMAIN Escape
  PROVE  \E d, e \in Digits : Escape[c] = <<d, e>> /\ Code(c) = <<"%", d, e>>
<1>1. PICK d, e \in Digits : Escape[c] = <<d, e>>
  BY UrlFacts
<1>2. Code(c) = <<"%">> \o <<d, e>>
  BY <1>1 DEF Code
<1>3. "%" \in Chars /\ d \in Chars /\ e \in Chars
  BY DEF Chars, Words
<1>4. PICK s : s = <<d, e>>
  OBVIOUS
<1>5. s \in Text /\ Len(s) = 2 /\ s[1] = d /\ s[2] = e
  BY <1>3, <1>4 DEF Text
<1>6. PICK t : t = <<"%">> \o s
  OBVIOUS
<1>7. t \in Text /\ Len(t) = 3 /\ t[1] = "%" /\ t[2] = d /\ t[3] = e
  BY <1>3, <1>5, <1>6 DEF Text
<1>8. t = <<"%", d, e>>
  BY <1>3, <1>7 DEF Text
<1> QED
  BY <1>1, <1>2, <1>4, <1>6, <1>8

LEMMA CodeText ==
  ASSUME NEW c \in Chars
  PROVE  Code(c) \in Text /\ Code(c) # <<>>
<1>1. CASE c \in DOMAIN Escape
  <2>1. PICK d, e \in Digits : Code(c) = <<"%", d, e>>
    BY <1>1, CodeEscaped
  <2>2. "%" \in Chars /\ d \in Chars /\ e \in Chars
    BY DEF Chars, Words
  <2> QED
    BY <2>1, <2>2 DEF Text
<1>2. CASE c \notin DOMAIN Escape
  BY <1>2 DEF Code, Text
<1> QED
  BY <1>1, <1>2

LEMMA EncodeIsCodes == ASSUME NEW s PROVE Urls!EncodePath(s) = Urls!FlattenSeq(Codes(s))
  BY DEF Urls!EncodePath, Codes, Code

LEMMA CodesText == ASSUME NEW s \in Text PROVE Codes(s) \in Seq(Text)
<1>1. \A i \in 1..Len(s) : Code(s[i]) \in Text
  BY CodeText DEF Text
<1>2. DOMAIN s = 1..Len(s) /\ Len(s) \in Nat
  BY DEF Text
<1>3. Codes(s) \in [1..Len(s) -> Text]
  BY <1>1, <1>2 DEF Codes
<1> QED
  BY <1>2, <1>3, SeqDef

LEMMA EncodeText == ASSUME NEW s \in Text PROVE Urls!EncodePath(s) \in Text
  BY CodesText, FlattenIn, EncodeIsCodes DEF Text

LEMMA EncodeEmpty == Urls!EncodePath(<<>>) = <<>>
<1>1. Codes(<<>>) = <<>>
  BY DEF Codes
<1> QED
  BY <1>1, EncodeIsCodes, FlattenEmpty

LEMMA EncodeAppend ==
  ASSUME NEW s \in Text, NEW c \in Chars
  PROVE  Urls!EncodePath(Append(s, c)) = Urls!EncodePath(s) \o Code(c)
<1>1. PICK t : t = Append(s, c)
  OBVIOUS
<1>2. /\ t \in Text /\ Len(t) = Len(s) + 1 /\ t[Len(s) + 1] = c /\ Len(s) \in Nat
      /\ DOMAIN t = 1..Len(t) /\ DOMAIN s = 1..Len(s) /\ \A i \in 1..Len(s) : t[i] = s[i]
  BY <1>1 DEF Text
<1>3. PICK u : u = Append(Codes(s), Code(c))
  OBVIOUS
<1>4. Codes(s) \in Seq(Text) /\ Code(c) \in Text /\ Codes(t) \in Seq(Text)
  BY <1>2, CodesText, CodeText
<1>5. Len(Codes(s)) = Len(s) /\ Len(Codes(t)) = Len(t)
  BY <1>2, <1>4 DEF Codes
<1>6. /\ u \in Seq(Text) /\ Len(u) = Len(s) + 1 /\ u[Len(s) + 1] = Code(c)
      /\ \A i \in 1..Len(s) : u[i] = Codes(s)[i]
  BY <1>3, <1>4, <1>5
<1>7. \A i \in 1..Len(t) : Codes(t)[i] = u[i]
  <2> TAKE i \in 1..Len(t)
  <2>1. Codes(t)[i] = Code(t[i])
    BY <1>2 DEF Codes
  <2>2. i \in 1..Len(s) => Codes(s)[i] = Code(s[i])
    BY <1>2 DEF Codes
  <2> QED
    BY <1>2, <1>6, <2>1, <2>2
<1>8. Codes(t) = u
  BY <1>2, <1>4, <1>5, <1>6, <1>7, SeqEqual
<1>9. Urls!FlattenSeq(u) = Urls!FlattenSeq(Codes(s)) \o Code(c)
  BY <1>3, <1>4, FlattenAppend DEF Text
<1> QED
  BY <1>1, <1>8, <1>9, EncodeIsCodes

\* Induction over the sequences of a set, from the front and from the back.
LEMMA InductAppend ==
  ASSUME NEW S, NEW X, <<>> \in X, \A s \in Seq(S), c \in S : s \in X => Append(s, c) \in X
  PROVE  \A s \in Seq(S) : s \in X
<1> DEFINE T == {n \in Nat : \A s \in Seq(S) : Len(s) = n => s \in X}
<1>1. 0 \in T
  OBVIOUS
<1>2. \A n \in T : n + 1 \in T
  <2> SUFFICES ASSUME NEW n \in Nat, \A s \in Seq(S) : Len(s) = n => s \in X,
                      NEW t \in Seq(S), Len(t) = n + 1
               PROVE  t \in X
    BY \A n \in Nat : n + 1 \in Nat, Zenon
  <2>1. t # <<>>
    OBVIOUS
  <2>2. PICK s \in Seq(S), c \in S : t = Append(s, c)
    BY <2>1, SequenceEmptyOrAppend
  <2>3. Len(s) = n
    BY <2>2
  <2> QED
    BY <2>2, <2>3
<1>3. T = Nat
  BY <1>1, <1>2, Induct
<1> QED
  BY <1>3

LEMMA InductTail ==
  ASSUME NEW S, NEW X, <<>> \in X, \A s \in Seq(S), c \in S : s \in X => <<c>> \o s \in X
  PROVE  \A s \in Seq(S) : s \in X
<1> DEFINE T == {n \in Nat : \A s \in Seq(S) : Len(s) = n => s \in X}
<1>1. 0 \in T
  OBVIOUS
<1>2. \A n \in T : n + 1 \in T
  <2> SUFFICES ASSUME NEW n \in Nat, \A s \in Seq(S) : Len(s) = n => s \in X,
                      NEW t \in Seq(S), Len(t) = n + 1
               PROVE  t \in X
    BY \A n \in Nat : n + 1 \in Nat, Zenon
  <2>1. PICK s : s = Tail(t)
    OBVIOUS
  <2>2. s \in Seq(S) /\ Len(s) = n /\ t[1] \in S
    BY <2>1
  <2>3. t = <<t[1]>> \o s
    <3>1. Len(<<t[1]>> \o s) = Len(t) /\ <<t[1]>> \o s \in Seq(S)
      BY <2>2
    <3>2. \A i \in 1..Len(t) : t[i] = (<<t[1]>> \o s)[i]
      BY <2>1, <2>2
    <3> QED
      BY <3>1, <3>2, SeqEqual
  <2> QED
    BY <2>2, <2>3
<1>3. T = Nat
  BY <1>1, <1>2, Induct
<1> QED
  BY <1>3

\* Three texts in a row, grouped either way.
Regroups(s, t, u) == (s \o t) \o u = s \o (t \o u)

LEMMA Assoc == ASSUME NEW s \in Text, NEW t \in Text, NEW u \in Text PROVE Regroups(s, t, u)
  BY ConcatAssociative DEF Text, Regroups

LEMMA EncodeConcat ==
  ASSUME NEW s \in Text, NEW t \in Text
  PROVE  Urls!EncodePath(s \o t) = Urls!EncodePath(s) \o Urls!EncodePath(t)
<1> DEFINE X == {u \in Text : Urls!EncodePath(s \o u) = Urls!EncodePath(s) \o Urls!EncodePath(u)}
<1>1. <<>> \in X
  <2>1. s \o <<>> = s /\ Urls!EncodePath(s) \o <<>> = Urls!EncodePath(s) /\ <<>> \in Text
    BY EncodeText DEF Text
  <2> QED
    BY <2>1, EncodeEmpty
<1>2. ASSUME NEW u \in Text, NEW c \in Chars, u \in X PROVE Append(u, c) \in X
  <2>1. /\ s \o Append(u, c) = Append(s \o u, c) /\ s \o u \in Text /\ Append(u, c) \in Text
    BY DEF Text
  <2>2. PICK a, b, d : a = Urls!EncodePath(s) /\ b = Urls!EncodePath(u) /\ d = Code(c)
    OBVIOUS
  <2>3. a \in Text /\ b \in Text /\ d \in Text
    BY <2>2, EncodeText, CodeText
  <2>4. Urls!EncodePath(Append(u, c)) = b \o d
    BY <2>2, EncodeAppend
  <2>5. Urls!EncodePath(Append(s \o u, c)) = Urls!EncodePath(s \o u) \o d
    BY <2>1, <2>2, EncodeAppend
  <2>6. Urls!EncodePath(s \o u) = a \o b
    BY <1>2, <2>2
  <2>7. (a \o b) \o d = a \o (b \o d)
    <3>1. Regroups(a, b, d)
      BY <2>3, Assoc
    <3> QED
      BY <3>1, Zenon DEF Regroups
  <2>8. Urls!EncodePath(s \o Append(u, c)) = Urls!EncodePath(s) \o Urls!EncodePath(Append(u, c))
    BY <2>1, <2>2, <2>4, <2>5, <2>6, <2>7, Zenon
  <2> QED
    BY <2>1, <2>8
<1> HIDE DEF X
<1>3. \A u \in Text : u \in X
  BY <1>1, <1>2, InductAppend DEF Text
<1> QED
  BY <1>3 DEF X

LEMMA EncodeOne == ASSUME NEW c \in Chars PROVE Urls!EncodePath(<<c>>) = Code(c)
<1>1. <<>> \in Text /\ Append(<<>>, c) = <<c>>
  BY DEF Text
<1>2. <<>> \o Code(c) = Code(c)
  BY CodeText DEF Text
<1> QED
  BY <1>1, <1>2, EncodeAppend, EncodeEmpty

-----------------------------------------------------------------------------
(* The characters of a text. *)

Clean(s, cs) == \A i \in 1..Len(s) : s[i] \notin cs
Bare(s) == s \in Text /\ s # <<>> /\ s[1] # "/" /\ s[Len(s)] # "/"

LEMMA CleanConcat ==
  ASSUME NEW s \in Text, NEW t \in Text, NEW cs, Clean(s, cs), Clean(t, cs)
  PROVE  Clean(s \o t, cs)
<1>1. \A i \in 1..(Len(s) + Len(t)) : (s \o t)[i] = IF i <= Len(s) THEN s[i] ELSE t[i - Len(s)]
  BY DEF Text
<1>2. Len(s \o t) = Len(s) + Len(t) /\ Len(s) \in Nat /\ Len(t) \in Nat
  BY DEF Text
<1>3. \A i \in 1..(Len(s) + Len(t)) : ~(i <= Len(s)) => i - Len(s) \in 1..Len(t)
  BY <1>2
<1>4. \A i \in 1..(Len(s) + Len(t)) : i <= Len(s) => i \in 1..Len(s)
  BY <1>2
<1> QED
  BY <1>1, <1>2, <1>3, <1>4 DEF Clean

LEMMA CodeClean ==
  ASSUME NEW c \in Chars
  PROVE  Clean(Code(c), {"#", "?"}) /\ (c # "/" => Clean(Code(c), {"/"}))
<1>1. CASE c \in DOMAIN Escape
  <2>1. PICK d, e \in Digits : Code(c) = <<"%", d, e>>
    BY <1>1, CodeEscaped
  <2>2. d \notin {"#", "?", "/"} /\ e \notin {"#", "?", "/"}
    BY UrlFacts
  <2> QED
    BY <2>1, <2>2 DEF Clean
<1>2. CASE c \notin DOMAIN Escape
  <2>1. Code(c) = <<c>> /\ c # "#" /\ c # "?"
    BY <1>2, UrlFacts DEF Code
  <2> QED
    BY <2>1 DEF Clean
<1> QED
  BY <1>1, <1>2

LEMMA EncodeClean ==
  ASSUME NEW s \in Text
  PROVE  /\ Clean(Urls!EncodePath(s), {"#", "?"})
         /\ Clean(s, {"/"}) => Clean(Urls!EncodePath(s), {"/"})
<1> DEFINE X == {u \in Text : /\ Clean(Urls!EncodePath(u), {"#", "?"})
                              /\ Clean(u, {"/"}) => Clean(Urls!EncodePath(u), {"/"})}
<1>1. <<>> \in X
  BY EncodeEmpty DEF Text, Clean
<1>2. ASSUME NEW u \in Text, NEW c \in Chars, u \in X PROVE Append(u, c) \in X
  <2>1. PICK b, d : b = Urls!EncodePath(u) /\ d = Code(c)
    OBVIOUS
  <2>2. b \in Text /\ d \in Text /\ Urls!EncodePath(Append(u, c)) = b \o d
    BY <2>1, EncodeText, CodeText, EncodeAppend
  <2>3. Append(u, c) \in Text /\ (Clean(Append(u, c), {"/"}) => Clean(u, {"/"}) /\ c # "/")
    BY DEF Text, Clean
  <2>4. Clean(b, {"#", "?"}) /\ (Clean(u, {"/"}) => Clean(b, {"/"}))
    BY <1>2, <2>1
  <2>5. Clean(b \o d, {"#", "?"})
    BY <2>1, <2>2, <2>4, CodeClean, CleanConcat
  <2>6. ASSUME Clean(Append(u, c), {"/"}) PROVE Clean(b \o d, {"/"})
    BY <2>1, <2>2, <2>3, <2>4, <2>6, CodeClean, CleanConcat
  <2> QED
    BY <2>2, <2>3, <2>5, <2>6
<1> HIDE DEF X
<1>3. \A u \in Text : u \in X
  BY <1>1, <1>2, InductAppend DEF Text
<1> QED
  BY <1>3 DEF X

LEMMA Begins ==
  ASSUME NEW S, NEW s \in Seq(S), s # <<>>
  PROVE  \E t \in Seq(S) : s = <<s[1]>> \o t /\ s[1] \in S
<1>1. s = <<Head(s)>> \o Tail(s) /\ Tail(s) \in Seq(S) /\ Head(s) = s[1] /\ s[1] \in S
  <2>1. PICK t : t = Tail(s)
    OBVIOUS
  <2>2. t \in Seq(S) /\ Len(t) = Len(s) - 1 /\ s[1] \in S /\ Head(s) = s[1]
    BY <2>1
  <2>3. Len(<<s[1]>> \o t) = Len(s) /\ <<s[1]>> \o t \in Seq(S)
    BY <2>2
  <2>4. \A i \in 1..Len(s) : s[i] = (<<s[1]>> \o t)[i]
    BY <2>1, <2>2
  <2>5. s = <<s[1]>> \o t
    BY <2>3, <2>4, SeqEqual
  <2> QED
    BY <2>1, <2>2, <2>5
<1> QED
  BY <1>1

LEMMA EncodeBare ==
  ASSUME NEW s \in Text, Bare(s)
  PROVE  Bare(Urls!EncodePath(s))
<1>1. PICK t \in Text : s = <<s[1]>> \o t /\ s[1] \in Chars
  BY Begins DEF Bare, Text
<1>2. PICK u \in Text, c \in Chars : s = Append(u, c)
  BY SequenceEmptyOrAppend DEF Bare, Text
<1>3. c # "/" /\ s[1] # "/"
  BY <1>2 DEF Bare, Text
<1>4. PICK a, b, d, e : /\ a = Code(s[1]) /\ b = Urls!EncodePath(t)
                        /\ d = Urls!EncodePath(u) /\ e = Code(c)
  OBVIOUS
<1>5. a \in Text /\ b \in Text /\ d \in Text /\ e \in Text /\ a # <<>> /\ e # <<>>
  BY <1>1, <1>2, <1>4, CodeText, EncodeText
<1>6. Urls!EncodePath(s) = d \o e
  BY <1>2, <1>4, EncodeAppend
<1>7. Urls!EncodePath(s) = a \o b
  <2>1. <<s[1]>> \in Text
    BY <1>1 DEF Text
  <2>2. Urls!EncodePath(<<s[1]>> \o t) = Urls!EncodePath(<<s[1]>>) \o b
    BY <2>1, <1>4, EncodeConcat
  <2> QED
    BY <1>1, <1>4, <2>2, EncodeOne
<1>8. a[1] # "/" /\ e[Len(e)] # "/"
  <2>1. Clean(a, {"/"}) /\ Clean(e, {"/"})
    BY <1>1, <1>3, <1>4, CodeClean
  <2>2. 1 \in 1..Len(a) /\ Len(e) \in 1..Len(e)
    BY <1>5 DEF Text
  <2> QED
    BY <2>1, <2>2 DEF Clean
<1>9. (a \o b)[1] = a[1] /\ a \o b # <<>> /\ a \o b \in Text
  BY <1>5 DEF Text
<1>10. (d \o e)[Len(d \o e)] = e[Len(e)]
  BY <1>5 DEF Text
<1> QED
  BY <1>6, <1>7, <1>8, <1>9, <1>10 DEF Bare

-----------------------------------------------------------------------------
(* Cutting and trimming. *)

LEMMA MinIs ==
  ASSUME NEW I, I \subseteq Nat, NEW m \in I, \A i \in I : m <= i
  PROVE  Urls!Min(I) = m
<1>1. \E x \in I : \A y \in I : x <= y
  OBVIOUS
<1>2. Urls!Min(I) \in I /\ \A y \in I : Urls!Min(I) <= y
  BY <1>1, Zenon DEF Urls!Min
<1>3. Urls!Min(I) <= m /\ m <= Urls!Min(I) /\ Urls!Min(I) \in Nat
  BY <1>2
<1> QED
  BY <1>3

LEMMA MaxIs ==
  ASSUME NEW I, I \subseteq Nat, NEW m \in I, \A i \in I : m >= i
  PROVE  Urls!Max(I) = m
<1>1. \E x \in I : \A y \in I : x >= y
  OBVIOUS
<1>2. Urls!Max(I) \in I /\ \A y \in I : Urls!Max(I) >= y
  BY <1>1, Zenon DEF Urls!Max
<1>3. Urls!Max(I) >= m /\ m >= Urls!Max(I) /\ Urls!Max(I) \in Nat
  BY <1>2
<1> QED
  BY <1>3

LEMMA CutNone ==
  ASSUME NEW s \in Text, NEW cs, Clean(s, cs)
  PROVE  Urls!Before(s, cs) = s /\ Urls!After(s, cs) = <<>>
<1>1. {i \in 1..Len(s) : s[i] \in cs} = {}
  BY DEF Clean
<1>2. Urls!CutAt(s, cs) = 0
  BY <1>1 DEF Urls!CutAt, Urls!SelectInSeq
<1> QED
  BY <1>2 DEF Urls!Before, Urls!After

LEMMA CutOne ==
  ASSUME NEW s \in Text, NEW t \in Text, NEW c \in Chars, NEW cs, c \in cs, Clean(s, cs)
  PROVE  /\ Urls!Before(s \o (<<c>> \o t), cs) = s
         /\ Urls!After(s \o (<<c>> \o t), cs) = t
<1>1. PICK u : u = s \o (<<c>> \o t)
  OBVIOUS
<1>2. PICK v : v = <<c>> \o t
  OBVIOUS
<1>3. v \in Text /\ Len(v) = Len(t) + 1 /\ v[1] = c /\ \A i \in 1..Len(t) : v[i + 1] = t[i]
  BY <1>2 DEF Text
<1>4. Len(s) \in Nat /\ Len(t) \in Nat
  BY DEF Text
<1>5. /\ u \in Text /\ Len(u) = Len(s) + Len(t) + 1 /\ u[Len(s) + 1] = c
      /\ \A i \in 1..Len(s) : u[i] = s[i]
      /\ \A i \in 1..Len(t) : u[Len(s) + 1 + i] = v[i + 1]
  BY <1>1, <1>2, <1>3, <1>4 DEF Text
<1>6. PICK I : I = {i \in 1..Len(u) : u[i] \in cs}
  OBVIOUS
<1>7. I \subseteq Nat /\ Len(s) + 1 \in I /\ \A i \in I : Len(s) + 1 <= i
  <2>1. I \subseteq Nat
    BY <1>4, <1>5, <1>6
  <2>2. Len(s) + 1 \in I
    BY <1>4, <1>5, <1>6
  <2>3. ASSUME NEW i \in I, i <= Len(s) PROVE FALSE
    BY <1>4, <1>5, <1>6, <2>3 DEF Clean
  <2> QED
    BY <1>4, <2>1, <2>2, <2>3
<1>8. Urls!CutAt(u, cs) = Len(s) + 1
  <2>1. Urls!CutAt(u, cs) = IF I # {} THEN Urls!Min(I) ELSE 0
    BY <1>6 DEF Urls!CutAt, Urls!SelectInSeq
  <2>2. Urls!Min(I) = Len(s) + 1
    BY <1>7, MinIs
  <2> QED
    BY <1>7, <2>1, <2>2
<1>9. Urls!Before(u, cs) = SubSeq(u, 1, Len(s)) /\ Urls!After(u, cs) = SubSeq(u, Len(s) + 2, Len(u))
  BY <1>4, <1>8 DEF Urls!Before, Urls!After, Urls!From
<1>10. SubSeq(u, 1, Len(s)) = s
  BY <1>4, <1>5 DEF Text
<1>11. SubSeq(u, Len(s) + 2, Len(u)) = t
  <2>1. PICK w : w = SubSeq(u, Len(s) + 2, Len(u))
    OBVIOUS
  <2>2. w \in Text /\ Len(w) = Len(t)
    BY <1>4, <1>5, <2>1 DEF Text
  <2>3. \A i \in 1..Len(t) : w[i] = u[Len(s) + 1 + i]
    BY <1>4, <1>5, <2>1 DEF Text
  <2>4. \A i \in 1..Len(t) : w[i] = t[i]
    BY <1>3, <1>5, <2>3
  <2> QED
    BY <2>1, <2>2, <2>4, SeqEqual DEF Text
<1> QED
  BY <1>1, <1>9, <1>10, <1>11

LEMMA TrimEmpty == Urls!TrimStart(<<>>) = <<>> /\ Urls!TrimEnd(<<>>) = <<>>
<1>1. {i \in 1..Len(<<>>) : <<>>[i] # "/"} = {}
  OBVIOUS
<1>2. Urls!TrimStart(<<>>) = <<>>
  BY <1>1 DEF Urls!TrimStart, Urls!SelectInSeq
<1>3. Urls!TrimEnd(<<>>) = <<>>
  BY <1>1 DEF Urls!TrimEnd, Urls!SelectLastInSeq
<1> QED
  BY <1>2, <1>3

LEMMA TrimStartAt ==
  ASSUME NEW s \in Text, NEW k \in 1..Len(s), s[k] # "/", \A i \in 1..(k - 1) : s[i] = "/"
  PROVE  Urls!TrimStart(s) = SubSeq(s, k, Len(s))
<1>1. PICK I : I = {i \in 1..Len(s) : s[i] # "/"}
  OBVIOUS
<1>2. Len(s) \in Nat
  BY DEF Text
<1>3. I \subseteq Nat /\ k \in I
  BY <1>1, <1>2
<1>4. \A i \in I : k <= i
  BY <1>1, <1>2
<1>5. Urls!Min(I) = k
  BY <1>3, <1>4, MinIs
<1>6. Urls!SelectInSeq(s, LAMBDA c : c # "/") = k
  BY <1>1, <1>3, <1>5 DEF Urls!SelectInSeq
<1> QED
  BY <1>2, <1>6 DEF Urls!TrimStart, Urls!From

LEMMA TrimEndAt ==
  ASSUME NEW s \in Text, NEW k \in 1..Len(s), s[k] # "/", \A i \in (k + 1)..Len(s) : s[i] = "/"
  PROVE  Urls!TrimEnd(s) = SubSeq(s, 1, k)
<1>1. PICK I : I = {i \in 1..Len(s) : s[i] # "/"}
  OBVIOUS
<1>2. Len(s) \in Nat
  BY DEF Text
<1>3. I \subseteq Nat /\ k \in I
  BY <1>1, <1>2
<1>4. \A i \in I : k >= i
  BY <1>1, <1>2
<1>5. Urls!Max(I) = k
  BY <1>3, <1>4, MaxIs
<1>6. Urls!SelectLastInSeq(s, LAMBDA c : c # "/") = k
  BY <1>1, <1>3, <1>5 DEF Urls!SelectLastInSeq
<1> QED
  BY <1>2, <1>6 DEF Urls!TrimEnd

LEMMA TrimBare ==
  ASSUME NEW s, Bare(s)
  PROVE  Urls!TrimStart(s) = s /\ Urls!TrimEnd(s) = s
<1>1. s \in Text /\ Len(s) \in Nat /\ 1 \in 1..Len(s) /\ Len(s) \in 1..Len(s) /\ s[1] # "/" /\ s[Len(s)] # "/"
  BY DEF Bare, Text
<1>2. SubSeq(s, 1, Len(s)) = s
  BY <1>1, SubSeqFull DEF Text
<1>3. Urls!TrimStart(s) = s
  BY <1>1, <1>2, TrimStartAt
<1>4. Urls!TrimEnd(s) = s
  <2>1. \A i \in (Len(s) + 1)..Len(s) : s[i] = "/"
    BY <1>1
  <2> QED
    BY <1>1, <1>2, <2>1, TrimEndAt
<1> QED
  BY <1>3, <1>4

\* The argument with a slash at each end.
LEMMA TrimBoth ==
  ASSUME NEW s, Bare(s)
  PROVE  Urls!TrimEnd(Urls!TrimStart(<<"/">> \o s \o <<"/">>)) = s
<1>1. PICK t : t = s \o <<"/">>
  OBVIOUS
<1>2. PICK u : u = <<"/">> \o s \o <<"/">>
  OBVIOUS
<1>3. s \in Text /\ Len(s) \in Nat \ {0} /\ s[1] # "/" /\ s[Len(s)] # "/" /\ "/" \in Chars
  BY Word DEF Bare, Text, Words
<1>4. /\ t \in Text /\ Len(t) = Len(s) + 1 /\ t[Len(s) + 1] = "/"
      /\ \A i \in 1..Len(s) : t[i] = s[i]
  BY <1>1, <1>3 DEF Text
<1>5. /\ u \in Text /\ Len(u) = Len(s) + 2 /\ u[1] = "/" /\ u[Len(s) + 2] = "/"
      /\ \A i \in 1..Len(s) : u[i + 1] = s[i]
  BY <1>2, <1>3 DEF Text
<1>6. Urls!TrimStart(u) = SubSeq(u, 2, Len(u))
  <2>1. u[2] # "/" /\ 2 \in 1..Len(u)
    <3>1. 1 \in 1..Len(s)
      BY <1>3
    <3> QED
      BY <1>3, <1>5, <3>1
  <2>2. \A i \in 1..(2 - 1) : u[i] = "/"
    BY <1>5
  <2> QED
    BY <1>5, <2>1, <2>2, TrimStartAt
<1>7. SubSeq(u, 2, Len(u)) = t
  <2>1. PICK w : w = SubSeq(u, 2, Len(u))
    OBVIOUS
  <2>2. w \in Text /\ Len(w) = Len(t) /\ \A i \in 1..Len(t) : w[i] = u[i + 1]
    BY <1>3, <1>4, <1>5, <2>1 DEF Text
  <2>3. \A i \in 1..Len(t) : w[i] = t[i]
    BY <1>3, <1>4, <1>5, <2>2
  <2> QED
    BY <1>4, <2>1, <2>2, <2>3, SeqEqual DEF Text
<1>8. Urls!TrimEnd(t) = SubSeq(t, 1, Len(s))
  <2>1. Len(s) \in 1..Len(t) /\ t[Len(s)] # "/"
    BY <1>3, <1>4
  <2>2. \A i \in (Len(s) + 1)..Len(t) : t[i] = "/"
    BY <1>3, <1>4
  <2> QED
    BY <1>4, <2>1, <2>2, TrimEndAt
<1>9. SubSeq(t, 1, Len(s)) = s
  BY <1>1, <1>3, <1>4 DEF Text
<1> QED
  BY <1>2, <1>6, <1>7, <1>8, <1>9

-----------------------------------------------------------------------------
(* Prefixes. *)

LEMMA PrefixConcat ==
  ASSUME NEW p \in Text, NEW s \in Text
  PROVE  Urls!IsPrefix(p, p \o s) /\ Urls!From(p \o s, Len(p) + 1) = s
<1>1. PICK u : u = p \o s
  OBVIOUS
<1>2. /\ u \in Text /\ Len(u) = Len(p) + Len(s) /\ Len(p) \in Nat /\ Len(s) \in Nat
      /\ \A i \in 1..Len(p) : u[i] = p[i]
      /\ \A i \in 1..Len(s) : u[Len(p) + i] = s[i]
  BY <1>1 DEF Text
<1>3. SubSeq(u, 1, Len(p)) = p /\ SubSeq(p, 1, Len(p)) = p
  BY <1>2 DEF Text
<1>4. SubSeq(u, Len(p) + 1, Len(u)) = s
  <2>1. PICK w : w = SubSeq(u, Len(p) + 1, Len(u))
    OBVIOUS
  <2>2. w \in Text /\ Len(w) = Len(s) /\ \A i \in 1..Len(s) : w[i] = u[Len(p) + i]
    BY <1>2, <2>1 DEF Text
  <2> QED
    BY <1>2, <2>1, <2>2, SeqEqual DEF Text
<1> QED
  BY <1>1, <1>2, <1>3, <1>4 DEF Urls!IsPrefix, Urls!From

LEMMA PrefixAgrees ==
  ASSUME NEW p \in Text, NEW s \in Text, Urls!IsPrefix(p, s)
  PROVE  Len(p) <= Len(s) /\ \A i \in 1..Len(p) : p[i] = s[i]
<1>1. PICK a, b : a = SubSeq(p, 1, Len(p)) /\ b = SubSeq(s, 1, Len(p))
  OBVIOUS
<1>2. Len(p) <= Len(s) /\ a = b /\ Len(p) \in Nat /\ Len(s) \in Nat
  BY <1>1 DEF Urls!IsPrefix, Text
<1>3. \A i \in 1..Len(p) : a[i] = p[i] /\ b[i] = s[i]
  BY <1>1, <1>2 DEF Text
<1> QED
  BY <1>2, <1>3

-----------------------------------------------------------------------------
(* percent_decode undoes encode_path. *)

Dec(g, s, i) ==
  IF i > Len(s) THEN <<>>
  ELSE IF Urls!IsEscape(s, i) THEN <<Urls!Byte(<<s[i + 1], s[i + 2]>>)>> \o g[i + 3]
  ELSE <<s[i]>> \o g[i + 1]

LEMMA DecodeDef ==
  ASSUME NEW s \in Text
  PROVE  \E g : /\ Urls!PercentDecode(s) = g[1]
                /\ \A i \in 1..(Len(s) + 3) : g[i] = Dec(g, s, i)
<1> DEFINE D == 1..(Len(s) + 3)
           Rec(g, n) == /\ g = [i \in D |-> g[i]]
                        /\ \A i \in D : i > Len(s) + 3 - n => g[i] = Dec(g, s, i)
           T == {n \in Nat : \E g : Rec(g, n)}
<1>0. Len(s) \in Nat
  BY DEF Text
<1>1. 0 \in T
  <2>1. PICK g : g = [i \in D |-> <<>>]
    OBVIOUS
  <2>2. g = [i \in D |-> g[i]]
    BY <2>1
  <2>3. \A i \in D : ~(i > Len(s) + 3 - 0)
    BY <1>0
  <2> QED
    BY <2>2, <2>3
<1>2. \A n \in T : n + 1 \in T
  <2> TAKE n \in T
  <2>1. PICK g : Rec(g, n)
    OBVIOUS
  <2>2. PICK k \in Int : k = Len(s) + 3 - n
    BY <1>0
  <2> DEFINE h == [i \in D |-> IF i = k THEN Dec(g, s, k) ELSE g[i]]
  <2>3. \A i \in D : i # k => h[i] = g[i]
    OBVIOUS
  <2>4. \A i \in D : i > Len(s) + 3 - (n + 1) => i = k \/ i > k
    BY <1>0, <2>2
  <2>5. \A i \in D : i = k \/ i > k => Dec(h, s, i) = Dec(g, s, i)
    <3> SUFFICES ASSUME NEW i \in D, i = k \/ i > k PROVE Dec(h, s, i) = Dec(g, s, i)
      OBVIOUS
    <3>1. ~(i > Len(s)) => i + 1 \in D /\ i + 3 \in D /\ i + 1 # k /\ i + 3 # k
      BY <1>0, <2>2
    <3>2. ~(i > Len(s)) => h[i + 1] = g[i + 1] /\ h[i + 3] = g[i + 3]
      BY <2>3, <3>1
    <3> HIDE DEF h
    <3> QED
      BY <3>2, Zenon DEF Dec
  <2>6. \A i \in D : i > k => g[i] = Dec(g, s, i)
    BY <2>1, <2>2
  <2>7. \A i \in D : i = k => h[i] = Dec(g, s, i)
    OBVIOUS
  <2>8. h = [i \in D |-> h[i]]
    OBVIOUS
  <2>9. \A i \in D : i > k => i # k
    BY <2>2
  <2> HIDE DEF h
  <2>10. Rec(h, n + 1)
    BY <2>3, <2>4, <2>5, <2>6, <2>7, <2>8, <2>9, Zenon
  <2>11. n + 1 \in Nat
    OBVIOUS
  <2>12. \E x : Rec(x, n + 1)
    BY <2>10, Zenon
  <2> HIDE DEF Rec
  <2> QED
    BY <2>11, <2>12, Zenon
<1>3. T = Nat
  BY <1>1, <1>2, Induct
<1>4. \E g : g = [i \in D |-> Dec(g, s, i)]
  <2>0. Len(s) + 3 \in T
    <3>1. Len(s) + 3 \in Nat
      BY <1>0
    <3> QED
      BY <1>3, <3>1, Zenon
  <2>1. PICK g : Rec(g, Len(s) + 3)
    BY <2>0
  <2>2. \A i \in D : i > Len(s) + 3 - (Len(s) + 3)
    BY <1>0
  <2>3. \A i \in D : g[i] = Dec(g, s, i)
    BY <2>1, <2>2
  <2>4. g = [i \in D |-> Dec(g, s, i)]
    BY <2>1, <2>3
  <2> QED
    BY <2>4
<1> DEFINE f == CHOOSE g : g = [i \in D |-> Dec(g, s, i)]
<1>5. f = [i \in D |-> Dec(f, s, i)]
  BY <1>4
<1>6. Urls!PercentDecode(s) = f[1]
  BY DEF Urls!PercentDecode, Dec
<1> HIDE DEF f
<1>7. \A i \in D : f[i] = Dec(f, s, i)
  BY <1>5
<1> QED
  BY <1>6, <1>7

LEMMA DecodeEmpty == Urls!PercentDecode(<<>>) = <<>>
<1>1. <<>> \in Text /\ Len(<<>>) = 0
  BY DEF Text
<1>2. PICK g : /\ Urls!PercentDecode(<<>>) = g[1]
               /\ \A i \in 1..(Len(<<>>) + 3) : g[i] = Dec(g, <<>>, i)
  BY <1>1, DecodeDef
<1>3. 1 \in 1..(Len(<<>>) + 3) /\ 1 > Len(<<>>)
  BY <1>1
<1> QED
  BY <1>2, <1>3 DEF Dec

LEMMA ByteOf == ASSUME NEW c \in DOMAIN Escape PROVE Urls!Byte(Escape[c]) = c
  BY UrlFacts DEF Urls!Byte

\* In e, the code of c stands at n, behind the encoding of a and before b.
CodeAt(e, n, a, c, b) ==
  /\ a \in Text /\ c \in Chars /\ b \in Text /\ n \in Nat
  /\ e = (Urls!EncodePath(a) \o Code(c)) \o b
  /\ n = Len(Urls!EncodePath(a)) + 1

\* There the decoder yields c, and goes on behind its code.
LEMMA DecodeOne ==
  ASSUME NEW e, NEW n, NEW a, NEW c, NEW b, CodeAt(e, n, a, c, b)
  PROVE  n \in 1..Len(e) /\ \A g : Dec(g, e, n) = <<c>> \o g[n + Len(Code(c))]
<1>0. /\ a \in Text /\ c \in Chars /\ b \in Text /\ n \in Nat
      /\ e = (Urls!EncodePath(a) \o Code(c)) \o b
      /\ n = Len(Urls!EncodePath(a)) + 1
  BY Zenon DEF CodeAt
<1>1. PICK x, y : x = Urls!EncodePath(a) /\ y = Code(c)
  OBVIOUS
<1>2. x \in Text /\ y \in Text /\ y # <<>>
  BY <1>0, <1>1, EncodeText, CodeText
<1>3. Len(x) \in Nat /\ Len(y) \in Nat \ {0} /\ Len(b) \in Nat
  BY <1>0, <1>2 DEF Text
<1>4. PICK z : z = x \o y
  OBVIOUS
<1>5. z \in Text /\ Len(z) = Len(x) + Len(y) /\ \A i \in 1..Len(y) : z[Len(x) + i] = y[i]
  BY <1>2, <1>4 DEF Text
<1>6. e \in Text /\ Len(e) = Len(x) + Len(y) + Len(b) /\ \A i \in 1..Len(z) : e[i] = z[i]
  BY <1>0, <1>1, <1>4, <1>5 DEF Text
<1>7. \A i \in 1..Len(y) : e[Len(x) + i] = y[i]
  BY <1>3, <1>5, <1>6
<1>8. n = Len(x) + 1 /\ n \in 1..Len(e) /\ ~(n > Len(e))
  BY <1>0, <1>1, <1>3, <1>6
<1>9. CASE c \in DOMAIN Escape
  <2>1. PICK d, f \in Digits : Escape[c] = <<d, f>> /\ y = <<"%", d, f>>
    BY <1>1, <1>9, CodeEscaped
  <2>2. Len(y) = 3 /\ y[1] = "%" /\ y[2] = d /\ y[3] = f
    BY <2>1
  <2>3. e[n] = "%" /\ e[n + 1] = d /\ e[n + 2] = f /\ n + 2 <= Len(e)
    <3>1. 1 \in 1..Len(y) /\ 2 \in 1..Len(y) /\ 3 \in 1..Len(y)
      BY <2>2
    <3>2. e[Len(x) + 1] = "%" /\ e[Len(x) + 2] = d /\ e[Len(x) + 3] = f
      BY <1>7, <2>2, <3>1
    <3>3. n + 1 = Len(x) + 2 /\ n + 2 = Len(x) + 3 /\ n + 2 <= Len(e)
      BY <1>3, <1>6, <1>8, <2>2
    <3> QED
      BY <1>8, <3>2, <3>3
  <2>4. Urls!IsEscape(e, n)
    BY <2>3 DEF Urls!IsEscape
  <2>5. Urls!Byte(<<e[n + 1], e[n + 2]>>) = c
    BY <1>9, <2>1, <2>3, ByteOf
  <2> QED
    BY <1>1, <1>8, <2>2, <2>4, <2>5 DEF Dec
<1>10. CASE c \notin DOMAIN Escape
  <2>1. y = <<c>> /\ c # "%"
    BY <1>1, <1>10, UrlFacts DEF Code
  <2>2. Len(y) = 1 /\ y[1] = c
    BY <2>1
  <2>3. e[n] = c
    BY <1>3, <1>7, <1>8, <2>2
  <2>4. ~Urls!IsEscape(e, n)
    BY <2>1, <2>3 DEF Urls!IsEscape
  <2> QED
    BY <1>1, <1>8, <2>2, <2>3, <2>4 DEF Dec
<1> QED
  BY <1>9, <1>10

(* What percent_decode makes of what encode_path writes is the text, whatever characters it
   has: also of a text that holds what an escape looks like, because its "%" is escaped too. *)
THEOREM RoundTrip ==
  ASSUME NEW s \in Text
  PROVE  Urls!PercentDecode(Urls!EncodePath(s)) = s
<1>1. PICK e : e = Urls!EncodePath(s)
  OBVIOUS
<1>2. e \in Text /\ Len(e) \in Nat
  BY <1>1, EncodeText DEF Text
<1>3. PICK g : /\ Urls!PercentDecode(e) = g[1]
               /\ \A i \in 1..(Len(e) + 3) : g[i] = Dec(g, e, i)
  BY <1>2, DecodeDef
<1> DEFINE X == {b \in Text : \A a \in Text : a \o b = s => g[Len(Urls!EncodePath(a)) + 1] = b}
<1>4. <<>> \in X
  <2> SUFFICES ASSUME NEW a \in Text, a \o <<>> = s PROVE g[Len(Urls!EncodePath(a)) + 1] = <<>>
    BY DEF Text
  <2>1. a = s
    BY DEF Text
  <2>2. Len(e) + 1 \in 1..(Len(e) + 3) /\ Len(e) + 1 > Len(e)
    BY <1>2
  <2> QED
    BY <1>1, <1>3, <2>1, <2>2 DEF Dec
<1>5. ASSUME NEW b \in Text, NEW c \in Chars, b \in X PROVE <<c>> \o b \in X
  <2>1. <<c>> \o b \in Text /\ <<c>> \in Text
    BY DEF Text
  <2> SUFFICES ASSUME NEW a \in Text, a \o (<<c>> \o b) = s
               PROVE  g[Len(Urls!EncodePath(a)) + 1] = <<c>> \o b
    BY <2>1
  <2>2. (a \o <<c>>) \o b = s /\ a \o <<c>> \in Text
    <3>1. (a \o <<c>>) \o b = a \o (<<c>> \o b)
      BY <2>1, ConcatAssociative DEF Text
    <3>2. a \o <<c>> \in Text
      BY <2>1 DEF Text
    <3> QED
      BY <3>1, <3>2, Zenon
  <2>3. PICK x, y, z : x = Urls!EncodePath(a) /\ y = Code(c) /\ z = Urls!EncodePath(b)
    OBVIOUS
  <2>4. x \in Text /\ y \in Text /\ z \in Text /\ Len(x) \in Nat /\ Len(y) \in Nat
    <3>1. x \in Text /\ y \in Text /\ z \in Text
      BY <2>3, EncodeText, CodeText
    <3> QED
      BY <3>1 DEF Text
  <2>5. Urls!EncodePath(a \o <<c>>) = x \o y
    BY <2>1, <2>3, EncodeConcat, EncodeOne
  <2>6. e = (x \o y) \o z
    BY <1>1, <2>2, <2>3, <2>5, EncodeConcat
  <2>7. Len(x \o y) = Len(x) + Len(y)
    BY <2>4 DEF Text
  <2>8. g[Len(x) + Len(y) + 1] = b
    BY <1>5, <2>2, <2>5, <2>7
  <2>9. PICK n \in Nat : n = Len(x) + 1
    BY <2>4
  <2>10. n \in 1..Len(e) /\ Dec(g, e, n) = <<c>> \o g[n + Len(y)]
    <3>1. e = (Urls!EncodePath(a) \o Code(c)) \o z /\ n = Len(Urls!EncodePath(a)) + 1
      BY <2>3, <2>6, <2>9
    <3>2. n \in 1..Len(e) /\ \A f : Dec(f, e, n) = <<c>> \o f[n + Len(Code(c))]
      <4>1. CodeAt(e, n, a, c, z)
        BY <2>4, <3>1 DEF CodeAt
      <4> QED
        BY <4>1, DecodeOne, Zenon
    <3> QED
      BY <2>3, <3>2, Zenon
  <2>11. n \in 1..(Len(e) + 3) /\ n + Len(y) = Len(x) + Len(y) + 1
    BY <1>2, <2>4, <2>9, <2>10
  <2>12. g[n] = <<c>> \o b
    BY <1>3, <2>8, <2>10, <2>11
  <2> QED
    BY <2>3, <2>9, <2>12
<1> HIDE DEF X
<1>6. \A b \in Text : b \in X
  BY <1>4, <1>5, InductTail DEF Text
<1>7. <<>> \in Text /\ <<>> \o s = s /\ Len(Urls!EncodePath(<<>>)) + 1 = 1
  BY EncodeEmpty DEF Text
<1>8. g[Len(Urls!EncodePath(<<>>)) + 1] = s
  BY <1>6, <1>7 DEF X
<1> QED
  BY <1>1, <1>3, <1>7, <1>8

-----------------------------------------------------------------------------
(* The path as a text. *)

Slashed(p) == [i \in DOMAIN p |-> IF i = 1 THEN p[i] ELSE <<"/">> \o p[i]]

LEMMA Slash == "/" \in Chars /\ <<"/">> \in Text
  BY DEF Chars, Words, Text

LEMMA SlashedText == ASSUME NEW p \in Seq(Text) PROVE Slashed(p) \in Seq(Text) /\ Len(Slashed(p)) = Len(p)
<1>1. \A i \in 1..Len(p) : p[i] \in Text
  OBVIOUS
<1>2. \A i \in 1..Len(p) : <<"/">> \o p[i] \in Text
  BY <1>1, Slash DEF Text
<1>3. Slashed(p) \in [1..Len(p) -> Text] /\ Len(p) \in Nat
  BY <1>1, <1>2 DEF Slashed
<1> QED
  BY <1>3, SeqDef

LEMMA JoinedAppend ==
  ASSUME NEW p \in Seq(Text), NEW n \in Text
  PROVE  /\ Urls!Joined(p) \in Text
         /\ Urls!Joined(Append(p, n)) = IF p = <<>> THEN n ELSE Urls!Joined(p) \o (<<"/">> \o n)
<1>1. PICK m : m = IF p = <<>> THEN n ELSE <<"/">> \o n
  OBVIOUS
<1>2. m \in Text
  BY <1>1, Slash DEF Text
<1>3. PICK q : q = Append(p, n)
  OBVIOUS
<1>4. /\ q \in Seq(Text) /\ Len(q) = Len(p) + 1 /\ q[Len(p) + 1] = n /\ Len(p) \in Nat
      /\ \A i \in 1..Len(p) : q[i] = p[i]
  BY <1>3
<1>5. PICK u : u = Append(Slashed(p), m)
  OBVIOUS
<1>6. /\ u \in Seq(Text) /\ Len(u) = Len(p) + 1 /\ u[Len(p) + 1] = m
      /\ \A i \in 1..Len(p) : u[i] = Slashed(p)[i]
  BY <1>2, <1>5, SlashedText
<1>7. \A i \in 1..Len(q) : Slashed(q)[i] = u[i]
  <2> TAKE i \in 1..Len(q)
  <2>1. Slashed(q)[i] = IF i = 1 THEN q[i] ELSE <<"/">> \o q[i]
    BY <1>4 DEF Slashed
  <2>2. CASE i \in 1..Len(p)
    <3>1. Slashed(p)[i] = IF i = 1 THEN p[i] ELSE <<"/">> \o p[i]
      BY <2>2 DEF Slashed
    <3> QED
      BY <1>4, <1>6, <2>1, <2>2, <3>1
  <2>3. CASE i = Len(p) + 1
    <3>1. i = 1 <=> p = <<>>
      BY <1>4, <2>3
    <3> QED
      BY <1>1, <1>4, <1>6, <2>1, <2>3, <3>1
  <2> QED
    BY <1>4, <2>2, <2>3
<1>8. Slashed(q) = u
  BY <1>4, <1>6, <1>7, SlashedText, SeqEqual
<1>9. Urls!FlattenSeq(u) = Urls!FlattenSeq(Slashed(p)) \o m
  BY <1>2, <1>5, SlashedText, FlattenAppend DEF Text
<1>10. Urls!Joined(p) = Urls!FlattenSeq(Slashed(p)) /\ Urls!Joined(q) = Urls!FlattenSeq(Slashed(q))
  BY DEF Urls!Joined, Slashed
<1>11. Urls!Joined(p) \in Text
  BY <1>10, SlashedText, FlattenIn DEF Text
<1>12. Urls!Joined(q) = Urls!Joined(p) \o m
  BY <1>8, <1>9, <1>10
<1>13. CASE p = <<>>
  <2>1. Slashed(p) = <<>>
    BY <1>13 DEF Slashed
  <2>2. Urls!Joined(p) = <<>>
    BY <1>10, <2>1, FlattenEmpty
  <2>3. <<>> \o n = n
    BY DEF Text
  <2> QED
    BY <1>1, <1>3, <1>11, <1>12, <1>13, <2>2, <2>3
<1>14. CASE p # <<>>
  BY <1>1, <1>3, <1>11, <1>12, <1>14
<1> QED
  BY <1>13, <1>14

LEMMA JoinedEmpty == Urls!Joined(<<>>) = <<>> /\ Urls!JoinPath(<<>>) = <<>>
<1>1. [i \in DOMAIN <<>> |-> IF i = 1 THEN <<>>[i] ELSE <<"/">> \o <<>>[i]] = <<>>
  OBVIOUS
<1>2. Urls!Joined(<<>>) = <<>>
  BY <1>1, FlattenEmpty DEF Urls!Joined
<1>3. [i \in DOMAIN <<>> |-> Urls!EncodePath(<<>>[i])] = <<>>
  OBVIOUS
<1> QED
  BY <1>2, <1>3 DEF Urls!JoinPath

LEMMA NamesAreBare ==
  ASSUME NEW n \in Names
  PROVE  n \in Text /\ Clean(n, {"/"}) /\ Bare(n)
<1>1. n \in Text /\ n # <<>> /\ \A i \in DOMAIN n : n[i] # "/"
  BY UrlFacts
<1>2. DOMAIN n = 1..Len(n) /\ 1 \in 1..Len(n) /\ Len(n) \in 1..Len(n)
  BY <1>1 DEF Text
<1> QED
  BY <1>1, <1>2 DEF Clean, Bare

LEMMA NamesTexts == ASSUME NEW p \in Seq(Names) PROVE p \in Seq(Text)
  BY NamesAreBare, SeqMonotonic

\* A path with a name ends in it, behind a slash if it is not the only one.
LEMMA JoinedLast ==
  ASSUME NEW p \in Seq(Names), p # <<>>
  PROVE  \E q \in Seq(Names), n \in Names :
           /\ p = Append(q, n)
           /\ Urls!Joined(p) = IF q = <<>> THEN n ELSE Urls!Joined(q) \o (<<"/">> \o n)
<1>1. PICK q \in Seq(Names), n \in Names : p = Append(q, n)
  BY SequenceEmptyOrAppend
<1>2. q \in Seq(Text) /\ n \in Text
  BY NamesTexts, NamesAreBare
<1> QED
  BY <1>1, <1>2, JoinedAppend

LEMMA BareConcat ==
  ASSUME NEW s, NEW t, Bare(s), Bare(t)
  PROVE  Bare(s \o (<<"/">> \o t))
<1>1. PICK v : v = <<"/">> \o t
  OBVIOUS
<1>2. s \in Text /\ t \in Text /\ Len(s) \in Nat \ {0} /\ Len(t) \in Nat \ {0}
  BY DEF Bare, Text
<1>3. v \in Text /\ Len(v) = Len(t) + 1 /\ v[Len(t) + 1] = t[Len(t)]
  BY <1>1, <1>2, Slash DEF Text
<1>4. PICK u : u = s \o v
  OBVIOUS
<1>5. u \in Text /\ Len(u) = Len(s) + Len(t) + 1 /\ u[1] = s[1] /\ u[Len(u)] = t[Len(t)]
  <2>1. u \in Text /\ Len(u) = Len(s) + Len(v)
    BY <1>2, <1>3, <1>4, ConcatProperties DEF Text
  <2>2. \A i \in 1..(Len(s) + Len(v)) : u[i] = IF i <= Len(s) THEN s[i] ELSE v[i - Len(s)]
    BY <1>2, <1>3, <1>4, ConcatProperties DEF Text
  <2> QED
    BY <1>2, <1>3, <2>1, <2>2
<1>6. u # <<>>
  BY <1>2, <1>5
<1> QED
  BY <1>1, <1>4, <1>5, <1>6 DEF Bare

LEMMA JoinedBare ==
  ASSUME NEW p \in Seq(Names), p # <<>>
  PROVE  Bare(Urls!Joined(p))
<1> DEFINE X == {q \in Seq(Names) : q # <<>> => Bare(Urls!Joined(q))}
<1>1. <<>> \in X
  OBVIOUS
<1>2. ASSUME NEW q \in Seq(Names), NEW n \in Names, q \in X PROVE Append(q, n) \in X
  <2>1. q \in Seq(Text) /\ n \in Text /\ Bare(n) /\ Append(q, n) \in Seq(Names)
    BY NamesTexts, NamesAreBare
  <2>2. Urls!Joined(Append(q, n)) = IF q = <<>> THEN n ELSE Urls!Joined(q) \o (<<"/">> \o n)
    BY <2>1, JoinedAppend
  <2>3. q # <<>> => Bare(Urls!Joined(q))
    BY <1>2
  <2>4. Bare(Urls!Joined(Append(q, n)))
    BY <2>1, <2>2, <2>3, BareConcat
  <2> QED
    BY <2>1, <2>4
<1> HIDE DEF X
<1>3. \A q \in Seq(Names) : q \in X
  BY <1>1, <1>2, InductAppend
<1> QED
  BY <1>3 DEF X

LEMMA EncodeSlash == Urls!EncodePath(<<"/">>) = <<"/">>
  BY Slash, EncodeOne, UrlFacts DEF Code

\* The names of a path, each encoded.
Coded(q) == [i \in DOMAIN q |-> Urls!EncodePath(q[i])]

\* joinPath, which encodes the names, makes what encode_path makes of the path.
LEMMA JoinPathIs ==
  ASSUME NEW p \in Seq(Names)
  PROVE  Urls!JoinPath(p) = Urls!EncodePath(Urls!Joined(p))
<1> DEFINE X == {q \in Seq(Names) : /\ Coded(q) \in Seq(Text)
                                    /\ Urls!Joined(Coded(q)) = Urls!EncodePath(Urls!Joined(q))}
<1>1. <<>> \in X
  <2>1. Coded(<<>>) = <<>>
    BY DEF Coded
  <2>2. Urls!Joined(Coded(<<>>)) = Urls!EncodePath(Urls!Joined(<<>>))
    BY <2>1, JoinedEmpty, EncodeEmpty, Zenon
  <2>3. <<>> \in Seq(Text) /\ <<>> \in Seq(Names)
    OBVIOUS
  <2> QED
    BY <2>1, <2>2, <2>3, Zenon
<1>2. ASSUME NEW q \in Seq(Names), NEW n \in Names, q \in X PROVE Append(q, n) \in X
  <2>1. PICK r : r = Append(q, n)
    OBVIOUS
  <2>2. /\ r \in Seq(Names) /\ Len(r) = Len(q) + 1 /\ r[Len(q) + 1] = n /\ Len(q) \in Nat
        /\ \A i \in 1..Len(q) : r[i] = q[i]
    BY <2>1
  <2>3. q \in Seq(Text) /\ n \in Text /\ Urls!EncodePath(n) \in Text
    BY NamesTexts, NamesAreBare, EncodeText
  <2>4. Coded(q) \in Seq(Text) /\ Len(Coded(q)) = Len(q)
    BY <1>2 DEF Coded
  <2>5. PICK u : u = Append(Coded(q), Urls!EncodePath(n))
    OBVIOUS
  <2>6. /\ u \in Seq(Text) /\ Len(u) = Len(q) + 1 /\ u[Len(q) + 1] = Urls!EncodePath(n)
        /\ \A i \in 1..Len(q) : u[i] = Coded(q)[i]
    BY <2>3, <2>4, <2>5
  <2>7. \A i \in 1..Len(r) : u[i] = Urls!EncodePath(r[i])
    <3> TAKE i \in 1..Len(r)
    <3>1. i \in 1..Len(q) => Coded(q)[i] = Urls!EncodePath(q[i])
      BY DEF Coded
    <3> QED
      BY <2>2, <2>6, <3>1
  <2>8. Coded(r) = u
    <3>1. DOMAIN r = 1..Len(u) /\ u = [i \in 1..Len(u) |-> u[i]]
      BY <2>2, <2>6
    <3>2. Coded(r) = [i \in 1..Len(u) |-> Urls!EncodePath(r[i])]
      BY <3>1 DEF Coded
    <3>3. \A i \in 1..Len(u) : u[i] = Urls!EncodePath(r[i])
      BY <2>2, <2>6, <2>7
    <3> QED
      BY <3>1, <3>2, <3>3
  <2>9. Urls!Joined(u) = IF Coded(q) = <<>> THEN Urls!EncodePath(n)
                         ELSE Urls!Joined(Coded(q)) \o (<<"/">> \o Urls!EncodePath(n))
    BY <2>3, <2>4, <2>5, JoinedAppend
  <2>10. Coded(q) = <<>> <=> q = <<>>
    BY <2>4
  <2>11. Urls!Joined(r) = IF q = <<>> THEN n ELSE Urls!Joined(q) \o (<<"/">> \o n)
    BY <2>1, <2>3, JoinedAppend
  <2>12. Urls!Joined(Coded(q)) = Urls!EncodePath(Urls!Joined(q))
    BY <1>2
  <2>13. Urls!EncodePath(Urls!Joined(q) \o (<<"/">> \o n))
          = Urls!EncodePath(Urls!Joined(q)) \o (<<"/">> \o Urls!EncodePath(n))
    <3>1. PICK j, t : j = Urls!Joined(q) /\ t = <<"/">> \o n
      OBVIOUS
    <3>2. j \in Text
      BY <2>3, <3>1, JoinedAppend
    <3>3. t \in Text
      BY <2>3, <3>1, Slash DEF Text
    <3>4. Urls!EncodePath(t) = <<"/">> \o Urls!EncodePath(n)
      BY <2>3, <3>1, Slash, EncodeConcat, EncodeSlash
    <3>5. Urls!EncodePath(j \o t) = Urls!EncodePath(j) \o Urls!EncodePath(t)
      BY <3>2, <3>3, EncodeConcat
    <3> QED
      BY <3>1, <3>4, <3>5, Zenon
  <2>14. Urls!Joined(u) = Urls!EncodePath(Urls!Joined(r))
    BY <2>9, <2>10, <2>11, <2>12, <2>13, Zenon
  <2> QED
    BY <2>1, <2>2, <2>6, <2>8, <2>14
<1> HIDE DEF X
<1>3. \A q \in Seq(Names) : q \in X
  BY <1>1, <1>2, InductAppend
<1> QED
  BY <1>3 DEF X, Urls!JoinPath, Coded

\* What is left of a text behind its first k characters.
LEMMA RestIs ==
  ASSUME NEW j \in Text, NEW k \in Nat, NEW l \in Nat, Len(j) = k + l
  PROVE  /\ SubSeq(j, k + 1, k + l) \in Text /\ Len(SubSeq(j, k + 1, k + l)) = l
         /\ \A i \in 1..l : SubSeq(j, k + 1, k + l)[i] = j[k + i]
<1>1. PICK m, n \in Int : m = k + 1 /\ n = k + l
  OBVIOUS
<1>2. n - m + 1 = l /\ (m <= n \/ l = 0) /\ \A i \in 1..l : m + i - 1 = k + i
  BY <1>1
<1>3. \A i \in m..n : j[i] \in Chars
  BY <1>1 DEF Text
<1>4. PICK w : w = SubSeq(j, m, n)
  OBVIOUS
<1>5. /\ SubSeq(j, m, n) \in Seq(Chars)
      /\ Len(SubSeq(j, m, n)) = IF m <= n THEN n - m + 1 ELSE 0
      /\ \A i \in 1..(n - m + 1) : SubSeq(j, m, n)[i] = j[m + i - 1]
  BY <1>3, SubSeqProperties
<1>6. w \in Text /\ Len(w) = l /\ \A i \in 1..l : w[i] = j[k + i]
  BY <1>2, <1>4, <1>5 DEF Text
<1> QED
  BY <1>1, <1>4, <1>6

\* basename: behind the last slash.
LEMMA BasenameIs ==
  ASSUME NEW p \in Seq(Names), p # <<>>
  PROVE  Urls!Basename(Urls!Joined(p)) = p[Len(p)]
<1>1. PICK q \in Seq(Names), n \in Names :
        /\ p = Append(q, n)
        /\ Urls!Joined(p) = IF q = <<>> THEN n ELSE Urls!Joined(q) \o (<<"/">> \o n)
  BY JoinedLast
<1>2. p[Len(p)] = n /\ n \in Text /\ Clean(n, {"/"}) /\ Bare(Urls!Joined(p))
  <2>1. p[Len(p)] = n
    BY <1>1
  <2> QED
    BY <2>1, NamesAreBare, JoinedBare
<1>3. PICK j : j = Urls!Joined(p)
  OBVIOUS
<1>4. Bare(j) /\ j \in Text /\ Urls!TrimEnd(j) = j /\ Len(j) \in Nat
  BY <1>2, <1>3, TrimBare DEF Bare, Text
<1>5. PICK I : I = {i \in 1..Len(j) : j[i] = "/"}
  OBVIOUS
<1>6. Urls!Basename(j) = Urls!From(j, (IF I # {} THEN Urls!Max(I) ELSE 0) + 1)
  BY <1>4, <1>5 DEF Urls!Basename, Urls!SelectLastInSeq
<1>7. CASE q = <<>>
  <2>1. I = {}
    BY <1>1, <1>2, <1>3, <1>5, <1>7 DEF Clean
  <2>2. Urls!From(j, 1) = j
    BY <1>4, SubSeqFull DEF Urls!From, Text
  <2> QED
    BY <1>1, <1>2, <1>3, <1>6, <1>7, <2>1, <2>2
<1>8. CASE q # <<>>
  <2>1. PICK a : a = Urls!Joined(q)
    OBVIOUS
  <2>2. a \in Text /\ Len(a) \in Nat /\ Len(n) \in Nat
    BY <1>2, <2>1, NamesTexts, JoinedAppend DEF Text
  <2>3. PICK b : b = <<"/">> \o n
    OBVIOUS
  <2>4. b \in Text /\ Len(b) = Len(n) + 1 /\ b[1] = "/" /\ \A i \in 1..Len(n) : b[i + 1] = n[i]
    BY <1>2, <2>2, <2>3, Slash DEF Text
  <2>5. j = a \o b
    BY <1>1, <1>3, <1>8, <2>1, <2>3
  <2>6. /\ Len(j) = Len(a) + Len(n) + 1 /\ j[Len(a) + 1] = "/"
        /\ \A i \in 1..Len(n) : j[Len(a) + 1 + i] = n[i]
    <3>1. \A i \in 1..Len(b) : j[Len(a) + i] = b[i]
      BY <2>2, <2>4, <2>5 DEF Text
    <3>2. Len(j) = Len(a) + Len(b)
      BY <2>2, <2>4, <2>5, ConcatProperties DEF Text
    <3>3. \A i \in 1..Len(n) : i + 1 \in 1..Len(b) /\ Len(a) + 1 + i = Len(a) + (i + 1)
      BY <2>2, <2>4
    <3>4. 1 \in 1..Len(b)
      BY <2>2, <2>4
    <3> QED
      BY <2>2, <2>4, <3>1, <3>2, <3>3, <3>4
  <2>7. I \subseteq Nat /\ Len(a) + 1 \in I
    BY <1>4, <1>5, <2>2, <2>6
  <2>8. \A i \in I : Len(a) + 1 >= i
    <3> SUFFICES ASSUME NEW i \in I, i > Len(a) + 1 PROVE FALSE
      BY <1>4, <1>5, <2>2
    <3>1. i - (Len(a) + 1) \in 1..Len(n) /\ Len(a) + 1 + (i - (Len(a) + 1)) = i
      BY <1>4, <1>5, <2>2, <2>6
    <3>2. j[i] = n[i - (Len(a) + 1)] /\ j[i] = "/"
      BY <1>5, <2>6, <3>1
    <3> QED
      BY <1>2, <3>1, <3>2 DEF Clean
  <2>9. Urls!Max(I) = Len(a) + 1
    BY <2>7, <2>8, MaxIs
  <2>10. Urls!Basename(j) = SubSeq(j, Len(a) + 2, Len(j))
    <3>1. I # {} /\ (Len(a) + 1) + 1 = Len(a) + 2
      BY <2>2, <2>7
    <3> QED
      BY <1>6, <2>9, <3>1 DEF Urls!From
  <2>11. PICK w : w = SubSeq(j, Len(a) + 2, Len(j))
    OBVIOUS
  <2>12. w \in Text /\ Len(w) = Len(n) /\ \A i \in 1..Len(n) : w[i] = j[Len(a) + 1 + i]
    <3>1. PICK k, l \in Nat : k = Len(a) /\ l = Len(n)
      BY <2>2
    <3>2. Len(j) = k + 1 + l
      BY <2>6, <3>1
    <3>3. w = SubSeq(j, k + 2, k + 1 + l)
      BY <2>11, <3>1, <3>2, Zenon
    <3>4. PICK h \in Nat : h = k + 1
      BY <3>1
    <3>5. SubSeq(j, h + 1, h + l) = w /\ Len(j) = h + l
      <4>1. h + 1 = k + 2 /\ h + l = k + 1 + l
        BY <3>1, <3>4
      <4> QED
        BY <3>2, <3>3, <4>1, Zenon
    <3>6. /\ SubSeq(j, h + 1, h + l) \in Text /\ Len(SubSeq(j, h + 1, h + l)) = l
          /\ \A i \in 1..l : SubSeq(j, h + 1, h + l)[i] = j[h + i]
      BY <1>4, <3>5, RestIs
    <3>7. w \in Text /\ Len(w) = l /\ \A i \in 1..l : w[i] = j[h + i]
      BY <3>5, <3>6, Zenon
    <3> QED
      BY <3>1, <3>4, <3>7, Zenon
  <2>13. w = n
    BY <1>2, <2>6, <2>12, SeqEqual DEF Text
  <2> QED
    BY <1>2, <1>3, <2>10, <2>11, <2>13
<1> QED
  BY <1>7, <1>8

-----------------------------------------------------------------------------
(* The first names of a path, and the words of the routes. *)

Head2(p, t) ==
  /\ t \in Text /\ Urls!Joined(p) = p[1] \o t
  /\ Len(p) = 1 => t = <<>>
  /\ Len(p) > 1 => \E u \in Text : t = <<"/">> \o (p[2] \o u) /\ (Len(p) = 2 => u = <<>>)

LEMMA JoinedFirst ==
  ASSUME NEW p \in Seq(Names), p # <<>>
  PROVE  \E t : Head2(p, t)
<1> DEFINE X == {q \in Seq(Names) : q # <<>> => \E t : Head2(q, t)}
<1>1. <<>> \in X
  OBVIOUS
<1>2. ASSUME NEW q \in Seq(Names), NEW n \in Names, q \in X PROVE Append(q, n) \in X
  <2>1. PICK r : r = Append(q, n)
    OBVIOUS
  <2>2. /\ r \in Seq(Names) /\ Len(r) = Len(q) + 1 /\ r[Len(q) + 1] = n /\ Len(q) \in Nat
        /\ \A i \in 1..Len(q) : r[i] = q[i]
    BY <2>1
  <2>3. q \in Seq(Text) /\ n \in Text
    BY NamesTexts, NamesAreBare
  <2>4. PICK m : m = <<"/">> \o n
    OBVIOUS
  <2>5. m \in Text
    BY <2>3, <2>4, Slash DEF Text
  <2>6. Urls!Joined(r) = IF q = <<>> THEN n ELSE Urls!Joined(q) \o m
    BY <2>1, <2>3, <2>4, JoinedAppend
  <2>7. n \o <<>> = n /\ <<>> \in Text
    BY <2>3 DEF Text
  <2>8. CASE q = <<>>
    <3>1. Len(r) = 1 /\ r[1] = n
      BY <2>2, <2>8
    <3>2. Head2(r, <<>>)
      BY <2>6, <2>7, <2>8, <3>1 DEF Head2
    <3> QED
      BY <2>1, <2>2, <3>2
  <2>9. CASE Len(q) = 1 /\ q # <<>>
    <3>1. q # <<>> /\ r[1] = q[1] /\ q[1] \in Text
      <4>1. 1 \in 1..Len(q)
        BY <2>9
      <4> QED
        BY <2>2, <2>3, <2>9, <4>1
    <3>2. Len(r) = 2 /\ r[2] = n
      BY <2>2, <2>9
    <3>3. PICK t : Head2(q, t)
      BY <1>2, <3>1
    <3>4. Urls!Joined(q) = q[1] \o <<>>
      BY <2>9, <3>3 DEF Head2
    <3>5. Urls!Joined(q) = q[1]
      BY <3>1, <3>4 DEF Text
    <3>6. Urls!Joined(r) = r[1] \o m
      BY <2>6, <3>1, <3>5
    <3>7. m = <<"/">> \o (r[2] \o <<>>)
      BY <2>4, <2>7, <3>2
    <3>8. Head2(r, m)
      BY <2>5, <2>7, <3>2, <3>6, <3>7 DEF Head2
    <3> QED
      BY <2>1, <2>2, <3>8
  <2>10. CASE Len(q) > 1
    <3>1. q # <<>> /\ r[1] = q[1] /\ q[1] \in Text /\ r[2] = q[2] /\ q[2] \in Text
      <4>1. 1 \in 1..Len(q) /\ 2 \in 1..Len(q)
        BY <2>2, <2>10
      <4> QED
        BY <2>2, <2>3, <4>1
    <3>2. PICK t : Head2(q, t)
      BY <1>2, <3>1
    <3>3. PICK u \in Text : t = <<"/">> \o (q[2] \o u)
      BY <2>10, <3>2 DEF Head2
    <3>4. t \in Text /\ Urls!Joined(q) = q[1] \o t
      BY <3>2 DEF Head2
    <3>5. PICK v : v = u \o m
      OBVIOUS
    <3>6. v \in Text /\ t \o m \in Text /\ q[2] \o u \in Text
      BY <2>5, <3>1, <3>4, <3>5 DEF Text
    <3>7. (q[1] \o t) \o m = q[1] \o (t \o m)
      <4>1. Regroups(q[1], t, m)
        BY <2>5, <3>1, <3>4, Assoc
      <4> QED
        BY <4>1, Zenon DEF Regroups
    <3>8. (<<"/">> \o (q[2] \o u)) \o m = <<"/">> \o ((q[2] \o u) \o m)
      <4>1. PICK l : l = <<"/">>
        OBVIOUS
      <4>2. l \in Text
        BY <4>1, Slash
      <4>3. (l \o (q[2] \o u)) \o m = l \o ((q[2] \o u) \o m)
        <5>1. Regroups(l, q[2] \o u, m)
          BY <2>5, <3>6, <4>2, Assoc
        <5> QED
          BY <5>1, Zenon DEF Regroups
      <4> QED
        BY <4>1, <4>3, Zenon
    <3>9. (q[2] \o u) \o m = q[2] \o v
      <4>1. Regroups(q[2], u, m)
        BY <2>5, <3>1, Assoc
      <4> QED
        BY <3>5, <4>1, Zenon DEF Regroups
    <3>10. t \o m = <<"/">> \o (r[2] \o v)
      BY <3>1, <3>3, <3>8, <3>9, Zenon
    <3>11. Urls!Joined(r) = r[1] \o (t \o m)
      BY <2>6, <3>1, <3>4, <3>7, Zenon
    <3>12. Len(r) # 1 /\ Len(r) # 2
      BY <2>2, <2>10
    <3>13. Head2(r, t \o m)
      BY <3>6, <3>10, <3>11, <3>12, Zenon DEF Head2
    <3> QED
      BY <2>1, <2>2, <3>13
  <2>11. q = <<>> \/ Len(q) = 1 \/ Len(q) > 1
    <3>1. Len(q) = 0 => q = <<>>
      OBVIOUS
    <3>2. PICK k \in Nat : k = Len(q)
      BY <2>2
    <3>3. k = 0 \/ k = 1 \/ k > 1
      OBVIOUS
    <3> QED
      BY <3>1, <3>2, <3>3
  <2> QED
    BY <2>8, <2>9, <2>10, <2>11, Zenon
<1> HIDE DEF X
<1>3. \A q \in Seq(Names) : q \in X
  BY <1>1, <1>2, InductAppend
<1> QED
  BY <1>3 DEF X

LEMMA EncodeNonEmpty == ASSUME NEW s \in Text, s # <<>> PROVE Urls!EncodePath(s) # <<>>
<1>1. PICK u \in Text, c \in Chars : s = Append(u, c)
  BY SequenceEmptyOrAppend DEF Text
<1>2. PICK a, b : a = Urls!EncodePath(u) /\ b = Code(c)
  OBVIOUS
<1>3. a \in Text /\ b \in Text /\ b # <<>>
  BY <1>2, EncodeText, CodeText
<1>4. Urls!EncodePath(s) = a \o b
  BY <1>1, <1>2, EncodeAppend
<1>5. a \o b # <<>>
  BY <1>3 DEF Text
<1> QED
  BY <1>4, <1>5

\* A text that begins with the encoding of a name, and with a character and a slash.
WordFirst(j, n, x) ==
  n \in Names /\ x \in Text /\ j = Urls!EncodePath(n) \o x /\ Len(j) >= 2 /\ j[2] = "/"

\* There the name is that character.
LEMMA FirstWord ==
  ASSUME NEW j, NEW n, NEW x, WordFirst(j, n, x)
  PROVE  n = <<j[1]>> /\ Urls!EncodePath(n) = n /\ x # <<>>
<1>0. n \in Names /\ x \in Text /\ j = Urls!EncodePath(n) \o x /\ Len(j) >= 2 /\ j[2] = "/"
  BY Zenon DEF WordFirst
<1>1. PICK e : e = Urls!EncodePath(n)
  OBVIOUS
<1>2. n \in Text /\ n # <<>> /\ Clean(n, {"/"})
  BY <1>0, NamesAreBare DEF Bare
<1>3. e \in Text /\ e # <<>> /\ Clean(e, {"/"})
  BY <1>1, <1>2, EncodeText, EncodeNonEmpty, EncodeClean
<1>4. Len(e) \in Nat \ {0} /\ Len(x) \in Nat
  BY <1>0, <1>3 DEF Text
<1>5. Len(j) = Len(e) + Len(x) /\ j[1] = e[1]
  <2>1. j = e \o x /\ x \in Text
    BY <1>0, <1>1
  <2> QED
    BY <1>3, <1>4, <2>1 DEF Text
<1>6. ~(2 <= Len(e))
  <2> SUFFICES ASSUME 2 <= Len(e) PROVE FALSE
    OBVIOUS
  <2>1. 2 \in 1..Len(e)
    BY <1>4
  <2>2. j[2] = e[2]
    BY <1>0, <1>1, <1>3, <2>1 DEF Text
  <2> QED
    BY <1>0, <1>3, <2>1, <2>2 DEF Clean
<1>7. Len(e) = 1 /\ x # <<>>
  <2>1. Len(e) = 1 /\ Len(x) # 0
    <3>1. PICK k, m, l \in Nat : k = Len(e) /\ m = Len(x) /\ l = Len(j)
      BY <1>4, <1>5
    <3>2. k # 0 /\ ~(2 <= k) /\ l = k + m /\ l >= 2
      BY <1>0, <1>4, <1>5, <1>6, <3>1
    <3>3. k = 1 /\ m # 0
      BY <3>2
    <3> QED
      BY <3>1, <3>3
  <2> QED
    BY <2>1
<1>8. PICK t \in Text : n = <<n[1]>> \o t /\ n[1] \in Chars
  BY <1>2, Begins DEF Text
<1>9. PICK a, b : a = Code(n[1]) /\ b = Urls!EncodePath(t)
  OBVIOUS
<1>10. a \in Text /\ b \in Text /\ a # <<>> /\ Len(a) \in Nat \ {0} /\ Len(b) \in Nat
  <2>1. a \in Text /\ b \in Text /\ a # <<>>
    BY <1>8, <1>9, CodeText, EncodeText
  <2> QED
    BY <2>1 DEF Text
<1>11. e = a \o b
  <2>1. <<n[1]>> \in Text
    BY <1>8 DEF Text
  <2>2. Urls!EncodePath(<<n[1]>> \o t) = Urls!EncodePath(<<n[1]>>) \o b
    BY <1>9, <2>1, EncodeConcat
  <2>3. Urls!EncodePath(<<n[1]>>) = a
    BY <1>8, <1>9, EncodeOne, Zenon
  <2> QED
    BY <1>1, <1>8, <2>2, <2>3, Zenon
<1>12. Len(a) = 1 /\ Len(b) = 0
  <2>1. Len(e) = Len(a) + Len(b)
    BY <1>10, <1>11, ConcatProperties DEF Text
  <2>2. PICK k, l \in Nat : k = Len(a) /\ l = Len(b)
    BY <1>10
  <2>3. k # 0 /\ k + l = 1
    BY <1>7, <1>10, <2>1, <2>2
  <2>4. k = 1 /\ l = 0
    BY <2>2, <2>3
  <2> QED
    BY <2>2, <2>4
<1>13. t = <<>>
  <2>1. b = <<>>
    BY <1>10, <1>12 DEF Text
  <2> QED
    BY <1>8, <1>9, <2>1, EncodeNonEmpty
<1>14. n = <<n[1]>>
  <2>1. <<n[1]>> \o <<>> = <<n[1]>>
    BY <1>8
  <2> QED
    BY <1>8, <1>13, <2>1, Zenon
<1>15. n[1] \notin DOMAIN Escape
  <2> SUFFICES ASSUME n[1] \in DOMAIN Escape PROVE FALSE
    OBVIOUS
  <2>1. PICK d, f \in Digits : a = <<"%", d, f>>
    BY <1>9, CodeEscaped
  <2>2. Len(a) = 3
    BY <2>1
  <2> QED
    BY <1>12, <2>2
<1>16. a = <<n[1]>>
  BY <1>9, <1>15 DEF Code
<1>17. e = a
  <2>1. b = <<>>
    BY <1>10, <1>12 DEF Text
  <2>2. a \o <<>> = a
    BY <1>10 DEF Text
  <2> QED
    BY <1>11, <2>1, <2>2, Zenon
<1>18. e = n /\ e[1] = n[1]
  BY <1>14, <1>16, <1>17, Zenon
<1> QED
  BY <1>1, <1>5, <1>7, <1>14, <1>18

LEMMA Routes ==
  /\ Tail(Urls!FilesRoute) = <<"files", "/">> /\ Tail(Urls!PullRoute) = <<"pull", "/">>
  /\ Tail(Urls!ZipRoute) = <<"api", "/", "zip", "/">>
  /\ Tail(Urls!ListRoute) = <<"api", "/", "list", "/">>
  BY DEF Urls!FilesRoute, Urls!PullRoute, Urls!ZipRoute, Urls!ListRoute

LEMMA RouteTexts ==
  /\ <<"files", "/">> \in Text /\ <<"pull", "/">> \in Text
  /\ <<"api", "/", "zip", "/">> \in Text /\ <<"api", "/", "list", "/">> \in Text
  /\ Urls!FilesRoute \in Text /\ Urls!PullRoute \in Text
  /\ Urls!ZipRoute \in Text /\ Urls!ListRoute \in Text
<1>1. "files" \in Chars /\ "pull" \in Chars /\ "api" \in Chars /\ "zip" \in Chars /\ "list" \in Chars
  BY DEF Chars, Words
<1> QED
  BY <1>1, Slash DEF Text, Urls!FilesRoute, Urls!PullRoute, Urls!ZipRoute, Urls!ListRoute

\* A path under no route begins with none.
LEMMA NoRoute ==
  ASSUME NEW p \in Seq(Names), p # <<>>, ~Urls!OfRoute(p)
  PROVE  /\ ~Urls!IsPrefix(<<"files", "/">>, Urls!JoinPath(p))
         /\ ~Urls!IsPrefix(<<"pull", "/">>, Urls!JoinPath(p))
         /\ ~Urls!IsPrefix(<<"api", "/", "zip", "/">>, Urls!JoinPath(p))
         /\ ~Urls!IsPrefix(<<"api", "/", "list", "/">>, Urls!JoinPath(p))
<1>1. PICK t : Head2(p, t)
  BY JoinedFirst
<1>2. PICK j : j = Urls!JoinPath(p)
  OBVIOUS
<1>3. p[1] \in Names /\ p[1] \in Text /\ t \in Text /\ Len(p) \in Nat \ {0}
  BY <1>1, NamesAreBare DEF Head2
<1>4. PICK x : x = Urls!EncodePath(t)
  OBVIOUS
<1>5. x \in Text /\ j = Urls!EncodePath(p[1]) \o x
  BY <1>1, <1>2, <1>3, <1>4, JoinPathIs, EncodeText, EncodeConcat DEF Head2
<1>6. j \in Text
  BY <1>3, <1>5, EncodeText DEF Text
\* A word and a slash at the front are the first name, and there is a second.
<1>7. ASSUME Len(j) >= 2, j[2] = "/"
      PROVE  p[1] = <<j[1]>> /\ Len(p) > 1 /\ Urls!EncodePath(p[1]) = <<j[1]>>
  <2>1. p[1] = <<j[1]>> /\ Urls!EncodePath(p[1]) = p[1] /\ x # <<>>
    <3>1. WordFirst(j, p[1], x)
      BY <1>3, <1>5, <1>7 DEF WordFirst
    <3> QED
      BY <3>1, FirstWord, Zenon
  <2>2. Len(p) # 1
    BY <1>1, <1>4, <2>1, EncodeEmpty DEF Head2
  <2> QED
    BY <1>3, <2>1, <2>2
<1>8. ASSUME Len(j) >= 4, j[2] = "/", j[4] = "/"
      PROVE  p[1] = <<j[1]>> /\ Len(p) > 2 /\ p[2] = <<j[3]>>
  <2>1. p[1] = <<j[1]>> /\ Len(p) > 1 /\ Urls!EncodePath(p[1]) = <<j[1]>>
    BY <1>6, <1>7, <1>8 DEF Text
  <2>2. PICK u \in Text : t = <<"/">> \o (p[2] \o u) /\ (Len(p) = 2 => u = <<>>)
    BY <1>1, <2>1 DEF Head2
  <2>3. p[2] \in Names /\ p[2] \in Text
    BY <1>3, <2>1, NamesAreBare
  <2>4. PICK y, e : y = Urls!EncodePath(u) /\ e = Urls!EncodePath(p[2])
    OBVIOUS
  <2>5. y \in Text /\ e \in Text
    BY <2>3, <2>4, EncodeText
  <2>6. PICK k : k = e \o y
    OBVIOUS
  <2>7. k \in Text /\ p[2] \o u \in Text
    BY <2>3, <2>5, <2>6 DEF Text
  <2>8. x = <<"/">> \o k
    <3>1. Urls!EncodePath(p[2] \o u) = k
      BY <2>3, <2>4, <2>6, EncodeConcat
    <3>2. Urls!EncodePath(<<"/">> \o (p[2] \o u)) = Urls!EncodePath(<<"/">>) \o Urls!EncodePath(p[2] \o u)
      BY <2>7, Slash, EncodeConcat
    <3> QED
      BY <1>4, <2>2, <3>1, <3>2, EncodeSlash, Zenon
  <2>9. Len(x) = Len(k) + 1 /\ (\A i \in 1..Len(k) : x[i + 1] = k[i]) /\ Len(k) \in Nat
    BY <2>7, <2>8, Slash DEF Text
  <2>10. PICK f : f = Urls!EncodePath(p[1])
    OBVIOUS
  <2>11. f \in Text /\ Len(f) = 1 /\ j = f \o x
    BY <1>3, <1>5, <2>1, <2>10, EncodeText
  <2>12. Len(j) = Len(x) + 1 /\ \A i \in 1..Len(x) : j[i + 1] = x[i]
    <3>1. Len(f \o x) = Len(f) + Len(x)
      BY <1>5, <2>11, ConcatProperties DEF Text
    <3>2. \A i \in 1..Len(f) + Len(x) : (f \o x)[i] = IF i <= Len(f) THEN f[i] ELSE x[i - Len(f)]
      BY <1>5, <2>11, ConcatProperties DEF Text
    <3>3. Len(f) = 1 /\ Len(x) \in Nat
      BY <1>5, <2>11 DEF Text
    <3> QED
      BY <2>11, <3>1, <3>2, <3>3
  <2>13. Len(j) = Len(k) + 2 /\ \A i \in 1..Len(k) : j[i + 2] = k[i]
    <3>1. \A i \in 1..Len(k) : i + 1 \in 1..Len(x) /\ (i + 1) + 1 = i + 2
      BY <2>9
    <3> QED
      BY <2>9, <2>12, <3>1
  <2>14. Len(k) >= 2 /\ k[1] = j[3] /\ k[2] = "/"
    <3>1. 1 \in 1..Len(k) /\ 2 \in 1..Len(k) /\ Len(k) >= 2
      BY <1>8, <2>9, <2>13
    <3>2. j[1 + 2] = k[1] /\ j[2 + 2] = k[2]
      BY <2>13, <3>1
    <3> QED
      BY <1>8, <3>1, <3>2
  <2>15. p[2] = <<j[3]>> /\ y # <<>>
    <3>1. WordFirst(k, p[2], y)
      BY <2>3, <2>4, <2>5, <2>6, <2>14 DEF WordFirst
    <3> QED
      BY <2>14, <3>1, FirstWord
  <2>16. Len(p) # 2
    BY <2>2, <2>4, <2>15, EncodeEmpty
  <2>17. Len(p) > 2
    <3>1. PICK l \in Nat : l = Len(p)
      BY <1>3
    <3>2. l > 1 /\ l # 2
      BY <2>1, <2>16, <3>1
    <3> QED
      BY <3>1, <3>2
  <2> QED
    BY <2>1, <2>15, <2>17
<1>9. ASSUME NEW w, Urls!IsPrefix(<<w, "/">>, j), <<w, "/">> \in Text PROVE p[1] = <<w>> /\ Len(p) > 1
  <2>1. PICK r : r = <<w, "/">>
    OBVIOUS
  <2>2. r \in Text /\ Len(r) = 2 /\ r[1] = w /\ r[2] = "/" /\ Urls!IsPrefix(r, j)
    BY <1>9, <2>1
  <2>3. Len(j) >= 2 /\ j[1] = w /\ j[2] = "/"
    <3>1. Len(r) <= Len(j) /\ \A i \in 1..Len(r) : r[i] = j[i]
      BY <1>6, <2>2, PrefixAgrees
    <3>2. 1 \in 1..Len(r) /\ 2 \in 1..Len(r)
      BY <2>2
    <3>3. Len(j) >= 2
      BY <1>6, <2>2, <3>1 DEF Text
    <3> QED
      BY <2>2, <3>1, <3>2, <3>3
  <2> QED
    BY <1>7, <2>3
<1>10. ASSUME NEW w, Urls!IsPrefix(<<"api", "/", w, "/">>, j), <<"api", "/", w, "/">> \in Text
       PROVE  p[1] = <<"api">> /\ Len(p) > 2 /\ p[2] = <<w>>
  <2>1. PICK r : r = <<"api", "/", w, "/">>
    OBVIOUS
  <2>2. /\ r \in Text /\ Len(r) = 4 /\ r[1] = "api" /\ r[2] = "/" /\ r[3] = w /\ r[4] = "/"
        /\ Urls!IsPrefix(r, j)
    BY <1>10, <2>1
  <2>3. Len(j) >= 4 /\ j[1] = "api" /\ j[2] = "/" /\ j[3] = w /\ j[4] = "/"
    <3>1. Len(r) <= Len(j) /\ \A i \in 1..Len(r) : r[i] = j[i]
      BY <1>6, <2>2, PrefixAgrees
    <3>2. 1 \in 1..Len(r) /\ 2 \in 1..Len(r) /\ 3 \in 1..Len(r) /\ 4 \in 1..Len(r)
      BY <2>2
    <3>3. Len(j) >= 4
      BY <1>6, <2>2, <3>1 DEF Text
    <3> QED
      BY <2>2, <3>1, <3>2, <3>3
  <2> QED
    BY <1>8, <2>3
<1>11. ~Urls!IsPrefix(<<"files", "/">>, j) /\ ~Urls!IsPrefix(<<"pull", "/">>, j)
  BY <1>9, RouteTexts DEF Urls!OfRoute
<1>12. ~Urls!IsPrefix(<<"api", "/", "zip", "/">>, j) /\ ~Urls!IsPrefix(<<"api", "/", "list", "/">>, j)
  BY <1>10, RouteTexts DEF Urls!OfRoute
<1> QED
  BY <1>2, <1>11, <1>12

-----------------------------------------------------------------------------
(* The URL of a path. *)

LEMMA CleanLess == ASSUME NEW s, NEW c, NEW d, Clean(s, {c, d}) PROVE Clean(s, {c}) /\ Clean(s, {d})
  BY DEF Clean

\* What the links say of a path.
LEMMA LinkText ==
  ASSUME NEW p \in Seq(Names), p # <<>>
  PROVE  /\ Bare(Urls!JoinPath(p)) /\ Urls!JoinPath(p) \in Text /\ Urls!JoinPath(p) # <<>>
         /\ Clean(Urls!JoinPath(p), {"#"}) /\ Clean(Urls!JoinPath(p), {"?"})
         /\ Urls!PercentDecode(Urls!JoinPath(p)) = Urls!Joined(p)
<1>1. Urls!JoinPath(p) = Urls!EncodePath(Urls!Joined(p))
  BY JoinPathIs
<1>2. Bare(Urls!Joined(p)) /\ Urls!Joined(p) \in Text
  BY JoinedBare DEF Bare
<1>3. Bare(Urls!JoinPath(p))
  BY <1>1, <1>2, EncodeBare
<1>4. Clean(Urls!JoinPath(p), {"#", "?"})
  BY <1>1, <1>2, EncodeClean
<1>5. Urls!PercentDecode(Urls!JoinPath(p)) = Urls!Joined(p)
  BY <1>1, <1>2, RoundTrip
<1> QED
  BY <1>3, <1>4, <1>5, CleanLess DEF Bare

\* The cases of direct_of.
LEMMA DirectIs ==
  ASSUME NEW q, NEW f
  PROVE  LET file == Urls!After2(q, <<"files", "/">>, <<"pull", "/">>)
             tree == Urls!After2(q, <<"api", "/", "zip", "/">>, <<"api", "/", "list", "/">>)
             fragment == Urls!Before(Urls!TrimStart(f), {"?"})
         IN  /\ file # <<>> => Urls!DirectOf(q, f) = Urls!Direct(file, "File")
             /\ file = <<>> /\ tree # <<>> => Urls!DirectOf(q, f) = Urls!Direct(tree, "Dir")
             /\ file = <<>> /\ tree = <<>> /\ q = <<>> /\ fragment # <<>> =>
                  Urls!DirectOf(q, f) = Urls!Direct(fragment, "Dir")
             /\ file = <<>> /\ tree = <<>> /\ (q # <<>> \/ fragment = <<>>) =>
                  Urls!DirectOf(q, f) = Urls!Direct(Urls!TrimEnd(Urls!TrimStart(q)), "Auto")
<1>1. PICK a, b, c, d : /\ a = <<"files", "/">> /\ b = <<"pull", "/">>
                        /\ c = <<"api", "/", "zip", "/">> /\ d = <<"api", "/", "list", "/">>
  OBVIOUS
<1>2. PICK file, tree, fragment : /\ file = Urls!After2(q, a, b) /\ tree = Urls!After2(q, c, d)
                                  /\ fragment = Urls!Before(Urls!TrimStart(f), {"?"})
  OBVIOUS
<1>3. Urls!DirectOf(q, f) =
        IF file # <<>> THEN Urls!Direct(file, "File")
        ELSE IF tree # <<>> THEN Urls!Direct(tree, "Dir")
        ELSE IF q = <<>> /\ fragment # <<>> THEN Urls!Direct(fragment, "Dir")
        ELSE Urls!Direct(Urls!TrimEnd(Urls!TrimStart(q)), "Auto")
  BY <1>1, <1>2, Routes, Zenon DEF Urls!DirectOf
<1> QED
  BY <1>1, <1>2, <1>3, Zenon

LEMMA OtherFirst ==
  ASSUME NEW p \in Text, NEW s \in Text, NEW i \in 1..Len(p), p[i] # s[i]
  PROVE  ~Urls!IsPrefix(p, s)
  BY PrefixAgrees

\* Behind the prefix of a route.
LEMMA After2Is ==
  ASSUME NEW s \in Text, NEW p \in Text, NEW q \in Text
  PROVE  /\ Urls!After2(p \o s, p, q) = s
         /\ ~Urls!IsPrefix(p, q \o s) => Urls!After2(q \o s, p, q) = s
         /\ ~Urls!IsPrefix(p, s) /\ ~Urls!IsPrefix(q, s) => Urls!After2(s, p, q) = <<>>
<1>1. Urls!After2(p \o s, p, q) = s
  BY PrefixConcat DEF Urls!After2
<1>2. ASSUME ~Urls!IsPrefix(p, q \o s) PROVE Urls!After2(q \o s, p, q) = s
  BY <1>2, PrefixConcat DEF Urls!After2
<1> QED
  BY <1>1, <1>2 DEF Urls!After2

LEMMA ConcatFirst ==
  ASSUME NEW s \in Text, NEW t \in Text, NEW i \in 1..Len(s)
  PROVE  (s \o t)[i] = s[i]
<1>1. Len(s) \in Nat /\ Len(t) \in Nat
  BY DEF Text
<1>2. \A k \in 1..(Len(s) + Len(t)) : (s \o t)[k] = IF k <= Len(s) THEN s[k] ELSE t[k - Len(s)]
  BY ConcatProperties DEF Text
<1>3. i \in 1..(Len(s) + Len(t)) /\ i <= Len(s)
  BY <1>1
<1> QED
  BY <1>2, <1>3

LEMMA RouteParts ==
  ASSUME NEW s \in Text
  PROVE  /\ ~Urls!IsPrefix(<<"files", "/">>, <<"pull", "/">> \o s)
         /\ \A r \in {<<"api", "/", "zip", "/">>, <<"api", "/", "list", "/">>} :
              ~Urls!IsPrefix(<<"files", "/">>, r \o s) /\ ~Urls!IsPrefix(<<"pull", "/">>, r \o s)
         /\ ~Urls!IsPrefix(<<"api", "/", "zip", "/">>, <<"api", "/", "list", "/">> \o s)
<1>1. PICK f, p, z, l : /\ f = <<"files", "/">> /\ p = <<"pull", "/">>
                        /\ z = <<"api", "/", "zip", "/">> /\ l = <<"api", "/", "list", "/">>
  OBVIOUS
<1>2. f \in Text /\ p \in Text /\ z \in Text /\ l \in Text
  BY <1>1, RouteTexts
<1>3. /\ Len(f) = 2 /\ Len(p) = 2 /\ Len(z) = 4 /\ Len(l) = 4
      /\ f[1] = "files" /\ p[1] = "pull" /\ z[1] = "api" /\ l[1] = "api"
      /\ z[3] = "zip" /\ l[3] = "list"
  BY <1>1
<1>4. /\ p \o s \in Text /\ z \o s \in Text /\ l \o s \in Text
      /\ (p \o s)[1] = "pull" /\ (z \o s)[1] = "api" /\ (l \o s)[1] = "api" /\ (l \o s)[3] = "list"
  <2>1. p \o s \in Text /\ z \o s \in Text /\ l \o s \in Text
    BY <1>2, ConcatProperties DEF Text
  <2>2. 1 \in 1..Len(p) /\ 1 \in 1..Len(z) /\ 1 \in 1..Len(l) /\ 3 \in 1..Len(l)
    BY <1>3
  <2>3. /\ (p \o s)[1] = p[1] /\ (z \o s)[1] = z[1] /\ (l \o s)[1] = l[1]
        /\ (l \o s)[3] = l[3]
    BY <1>2, <2>2, ConcatFirst
  <2> QED
    BY <1>3, <2>1, <2>3
<1>5. 1 \in 1..Len(f) /\ 1 \in 1..Len(p) /\ 3 \in 1..Len(z)
  BY <1>3
<1>6. ~Urls!IsPrefix(f, p \o s) /\ ~Urls!IsPrefix(f, z \o s) /\ ~Urls!IsPrefix(f, l \o s)
  BY <1>2, <1>3, <1>4, <1>5, OtherFirst
<1>7. ~Urls!IsPrefix(p, z \o s) /\ ~Urls!IsPrefix(p, l \o s)
  BY <1>2, <1>3, <1>4, <1>5, OtherFirst
<1>8. ~Urls!IsPrefix(z, l \o s)
  BY <1>2, <1>3, <1>4, <1>5, OtherFirst
<1> QED
  BY <1>1, <1>6, <1>7, <1>8, Zenon

LEMMA FileLink ==
  ASSUME NEW s \in Text, s # <<>>, NEW f, NEW r \in {<<"files", "/">>, <<"pull", "/">>}
  PROVE  Urls!DirectOf(r \o s, f) = Urls!Direct(s, "File")
<1>1. Urls!After2(r \o s, <<"files", "/">>, <<"pull", "/">>) = s
  BY After2Is, RouteParts, RouteTexts
<1> QED
  BY <1>1, DirectIs, Zenon

LEMMA TreeLink ==
  ASSUME NEW s \in Text, s # <<>>, NEW f,
         NEW r \in {<<"api", "/", "zip", "/">>, <<"api", "/", "list", "/">>}
  PROVE  Urls!DirectOf(r \o s, f) = Urls!Direct(s, "Dir")
<1>1. r \o s \in Text
  <2>1. r \in Text
    BY RouteTexts
  <2> QED
    BY <2>1, ConcatProperties DEF Text
<1>2. Urls!After2(r \o s, <<"files", "/">>, <<"pull", "/">>) = <<>>
  BY <1>1, After2Is, RouteParts, RouteTexts
<1>3. Urls!After2(r \o s, <<"api", "/", "zip", "/">>, <<"api", "/", "list", "/">>) = s
  BY After2Is, RouteParts, RouteTexts
<1> QED
  BY <1>2, <1>3, DirectIs, Zenon

LEMMA BareLink ==
  ASSUME NEW p \in Seq(Names), p # <<>>, ~Urls!OfRoute(p), NEW f
  PROVE  Urls!DirectOf(Urls!JoinPath(p), f) = Urls!Direct(Urls!JoinPath(p), "Auto")
<1>1. PICK j : j = Urls!JoinPath(p)
  OBVIOUS
<1>2. j \in Text /\ j # <<>> /\ Bare(j)
  BY <1>1, LinkText
<1>3. Urls!After2(j, <<"files", "/">>, <<"pull", "/">>) = <<>>
  BY <1>1, <1>2, NoRoute, After2Is, RouteTexts
<1>4. Urls!After2(j, <<"api", "/", "zip", "/">>, <<"api", "/", "list", "/">>) = <<>>
  BY <1>1, <1>2, NoRoute, After2Is, RouteTexts
<1>5. Urls!TrimEnd(Urls!TrimStart(j)) = j
  BY <1>2, TrimBare
<1> QED
  BY <1>1, <1>2, <1>3, <1>4, <1>5, DirectIs, Zenon

LEMMA NoPath ==
  /\ Urls!After2(<<>>, <<"files", "/">>, <<"pull", "/">>) = <<>>
  /\ Urls!After2(<<>>, <<"api", "/", "zip", "/">>, <<"api", "/", "list", "/">>) = <<>>
<1>1. ASSUME NEW r \in Text, Len(r) > 0 PROVE ~Urls!IsPrefix(r, <<>>)
  BY <1>1 DEF Urls!IsPrefix, Text
<1>2. /\ Len(<<"files", "/">>) > 0 /\ Len(<<"pull", "/">>) > 0
      /\ Len(<<"api", "/", "zip", "/">>) > 0 /\ Len(<<"api", "/", "list", "/">>) > 0
  OBVIOUS
<1>3. <<>> \in Text
  BY DEF Text
<1> QED
  BY <1>1, <1>2, <1>3, After2Is, RouteTexts

LEMMA HashLink ==
  ASSUME NEW s \in Text, Bare(s), Clean(s, {"?"})
  PROVE  Urls!DirectOf(<<>>, s) = Urls!Direct(s, "Dir")
<1>1. Urls!Before(Urls!TrimStart(s), {"?"}) = s /\ s # <<>>
  BY TrimBare, CutNone DEF Bare
<1> QED
  BY <1>1, NoPath, DirectIs, Zenon

LEMMA NoLink == Urls!DirectOf(<<>>, <<>>) = Urls!Direct(<<>>, "Auto")
<1>1. <<>> \in Text /\ Clean(<<>>, {"?"})
  BY DEF Text, Clean
<1>2. Urls!Before(Urls!TrimStart(<<>>), {"?"}) = <<>> /\ Urls!TrimEnd(Urls!TrimStart(<<>>)) = <<>>
  BY <1>1, TrimEmpty, CutNone
<1> QED
  BY <1>2, NoPath, DirectIs, Zenon

-----------------------------------------------------------------------------
(* parse_source. *)

LEMMA HostText ==
  /\ Urls!Host \in Text /\ Len(Urls!Host) = 1 /\ Clean(Urls!Host, {"/", "?", "#"})
  /\ "#" \in Chars /\ "?" \in Chars
<1>1. "h" \in Chars /\ "#" \in Chars /\ "?" \in Chars
  BY DEF Chars, Words
<1> QED
  BY <1>1 DEF Urls!Host, Text, Clean

LEMMA SourceTail ==
  ASSUME NEW t \in Text, NEW c \in Chars, c \in {"/", "?", "#"}, NEW url,
         url = Urls!Host \o (<<c>> \o t)
  PROVE  Urls!From(url, Len(Urls!Before(url, {"/", "?", "#"})) + 1) = <<c>> \o t
<1>1. Urls!Before(url, {"/", "?", "#"}) = Urls!Host
  BY HostText, CutOne
<1>2. <<c>> \o t \in Text
  BY DEF Text
<1>3. Urls!From(url, Len(Urls!Host) + 1) = <<c>> \o t
  BY <1>2, HostText, PrefixConcat
<1> QED
  BY <1>1, <1>3

\* A host, a slash, and the rest.
LEMMA SourceSlash ==
  ASSUME NEW a \in Text
  PROVE  Urls!ParseSource(Urls!Host \o (<<"/">> \o a)) =
           Urls!DirectOf(Urls!Before(Urls!Before(a, {"#"}), {"?"}), Urls!After(a, {"#"}))
<1>1. PICK url : url = Urls!Host \o (<<"/">> \o a)
  OBVIOUS
<1>2. PICK t : t = <<"/">> \o a
  OBVIOUS
<1>3. Urls!From(url, Len(Urls!Before(url, {"/", "?", "#"})) + 1) = t
  BY <1>1, <1>2, Slash, SourceTail
<1>4. Urls!IsPrefix(<<"/">>, t)
  BY <1>2, Slash, PrefixConcat
<1>5. Tail(t) = a
  BY <1>2, Slash DEF Text
<1> QED
  BY <1>1, <1>3, <1>4, <1>5, Zenon DEF Urls!ParseSource

\* A host and a fragment.
LEMMA SourceHash ==
  ASSUME NEW a \in Text
  PROVE  Urls!ParseSource(Urls!Host \o (<<"#">> \o a)) = Urls!DirectOf(<<>>, a)
<1>1. PICK url : url = Urls!Host \o (<<"#">> \o a)
  OBVIOUS
<1>2. PICK t : t = <<"#">> \o a
  OBVIOUS
<1>3. Urls!From(url, Len(Urls!Before(url, {"/", "?", "#"})) + 1) = t
  BY <1>1, <1>2, HostText, SourceTail
<1>4. t \in Text /\ t[1] = "#" /\ <<>> \in Text
  BY <1>2, HostText DEF Text
<1>5. ~Urls!IsPrefix(<<"/">>, t)
  <2>1. PICK r : r = <<"/">>
    OBVIOUS
  <2>2. r \in Text /\ 1 \in 1..Len(r) /\ r[1] = "/"
    BY <2>1, Slash
  <2> QED
    BY <1>4, <2>1, <2>2, OtherFirst
<1>6. t = <<>> \o (<<"#">> \o a)
  BY <1>2, <1>4 DEF Text
<1>7. Clean(<<>>, {"#"}) /\ Clean(<<>>, {"?"})
  BY DEF Clean
<1>8. Urls!Before(t, {"#"}) = <<>> /\ Urls!After(t, {"#"}) = a
  BY <1>4, <1>6, <1>7, HostText, CutOne
<1>9. Urls!Before(<<>>, {"?"}) = <<>>
  BY <1>4, <1>7, CutNone
<1> QED
  BY <1>1, <1>3, <1>5, <1>8, <1>9, Zenon DEF Urls!ParseSource

LEMMA SourceHost == Urls!ParseSource(Urls!Host) = Urls!DirectOf(<<>>, <<>>)
<1>1. Urls!Before(Urls!Host, {"/", "?", "#"}) = Urls!Host
  BY HostText, CutNone
<1>2. Urls!From(Urls!Host, 2) = <<>>
  BY HostText DEF Urls!From, Text
<1>3. Urls!From(Urls!Host, Len(Urls!Before(Urls!Host, {"/", "?", "#"})) + 1) = <<>>
  <2>1. Len(Urls!Host) + 1 = 2
    BY HostText
  <2> QED
    BY <1>1, <1>2, <2>1, Zenon
<1>4. ~Urls!IsPrefix(<<"/">>, <<>>)
  BY DEF Urls!IsPrefix
<1>5. <<>> \in Text /\ Clean(<<>>, {"#"}) /\ Clean(<<>>, {"?"})
  BY DEF Text, Clean
<1>6. /\ Urls!Before(<<>>, {"#"}) = <<>> /\ Urls!Before(<<>>, {"?"}) = <<>>
      /\ Urls!After(<<>>, {"#"}) = <<>>
  BY <1>5, CutNone
<1> QED
  BY <1>3, <1>4, <1>6, Zenon DEF Urls!ParseSource

LEMMA PairIs == ASSUME NEW S, NEW c \in S, NEW d \in S PROVE <<c, d>> = <<c>> \o <<d>>
<1>1. PICK q, h, x : q = <<c>> /\ h = <<d>> /\ x = <<c, d>>
  OBVIOUS
<1>2. /\ q \in Seq(S) /\ h \in Seq(S) /\ x \in Seq(S) /\ Len(q) = 1 /\ Len(h) = 1 /\ Len(x) = 2
      /\ x[1] = c /\ x[2] = d /\ q[1] = c /\ h[1] = d
  BY <1>1
<1>3. q \o h \in Seq(S) /\ Len(q \o h) = 2 /\ (q \o h)[1] = c /\ (q \o h)[2] = d
  <2>1. Len(q \o h) = Len(q) + Len(h) /\ q \o h \in Seq(S)
    BY <1>2, ConcatProperties
  <2>2. \A i \in 1..(Len(q) + Len(h)) : (q \o h)[i] = IF i <= Len(q) THEN q[i] ELSE h[i - Len(q)]
    BY <1>2, ConcatProperties
  <2>3. \A i \in 1..2 : (q \o h)[i] = IF i <= 1 THEN q[i] ELSE h[i - 1]
    <3>1. Len(q) + Len(h) = 2 /\ Len(q) = 1
      BY <1>2
    <3> QED
      BY <2>2, <3>1, Zenon
  <2>4. 1 \in 1..2 /\ 2 \in 1..2 /\ 1 <= 1 /\ ~(2 <= 1) /\ 2 - 1 = 1
    OBVIOUS
  <2>5. (q \o h)[1] = q[1] /\ (q \o h)[2] = h[1]
    <3>1. (q \o h)[1] = IF 1 <= 1 THEN q[1] ELSE h[1 - 1]
      BY <2>3, <2>4, Zenon
    <3>2. (q \o h)[2] = IF 2 <= 1 THEN q[2] ELSE h[2 - 1]
      BY <2>3, <2>4, Zenon
    <3>3. (q \o h)[1] = q[1]
      BY <2>4, <3>1, Zenon
    <3>4. (q \o h)[2] = h[2 - 1]
      BY <2>4, <3>2, Zenon
    <3> QED
      BY <2>4, <3>3, <3>4, Zenon
  <2>6. Len(q) + Len(h) = 2
    BY <1>2
  <2> QED
    BY <1>2, <2>1, <2>5, <2>6, Zenon
<1>4. x = q \o h
  <2>1. 1..2 = {1, 2}
    OBVIOUS
  <2>2. \A i \in 1..2 : x[i] = (q \o h)[i]
    BY <1>2, <1>3, <2>1, Zenon
  <2>3. PICK y : y = q \o h
    OBVIOUS
  <2>4. x \in Seq(S) /\ y \in Seq(S) /\ Len(x) = 2 /\ Len(y) = 2 /\ \A i \in 1..2 : x[i] = y[i]
    BY <1>2, <1>3, <2>2, <2>3, Zenon
  <2>5. x = y
    BY <2>4, SeqEqual
  <2> QED
    BY <2>3, <2>5
<1> QED
  BY <1>1, <1>4, Zenon

\* The first cut of a text, at its very end.
LEMMA CutEnd ==
  ASSUME NEW s \in Text, NEW c \in Chars, NEW cs, c \in cs, Clean(s, cs)
  PROVE  Urls!Before(s \o <<c>>, cs) = s /\ Urls!After(s \o <<c>>, cs) = <<>>
<1>1. PICK t : t = <<>>
  OBVIOUS
<1>2. t \in Text
  BY <1>1 DEF Text
<1>3. Urls!Before(s \o (<<c>> \o t), cs) = s /\ Urls!After(s \o (<<c>> \o t), cs) = t
  BY <1>2, CutOne
<1>4. <<c>> \o t = <<c>>
  BY <1>1
<1> QED
  BY <1>1, <1>3, <1>4, Zenon

\* A path without a query and a fragment, or with empty ones.
LEMMA SourcePlain ==
  ASSUME NEW a \in Text, Clean(a, {"#"}), Clean(a, {"?"})
  PROVE  /\ Urls!ParseSource(Urls!Host \o (<<"/">> \o a)) = Urls!DirectOf(a, <<>>)
         /\ Urls!ParseSource(Urls!Host \o (<<"/">> \o (a \o <<"?", "#">>))) = Urls!DirectOf(a, <<>>)
<1>1. Urls!ParseSource(Urls!Host \o (<<"/">> \o a)) = Urls!DirectOf(a, <<>>)
  <2>1. Urls!Before(a, {"#"}) = a /\ Urls!Before(a, {"?"}) = a /\ Urls!After(a, {"#"}) = <<>>
    BY CutNone
  <2> QED
    BY <2>1, SourceSlash, Zenon
<1>2. PICK b, q, h : b = a \o <<"?">> /\ q = <<"?">> /\ h = <<"#">>
  OBVIOUS
<1>3. q \in Text /\ h \in Text /\ b \in Text /\ b \o h \in Text
  <2>1. q \in Text /\ h \in Text
    BY <1>2, HostText DEF Text
  <2>2. b \in Text
    BY <1>2, <2>1, ConcatProperties DEF Text
  <2> QED
    BY <2>1, <2>2, ConcatProperties DEF Text
<1>4. a \o <<"?", "#">> = b \o h
  <2>1. <<"?", "#">> = q \o h
    BY <1>2, HostText, PairIs
  <2>2. (a \o q) \o h = a \o (q \o h)
    <3>1. Regroups(a, q, h)
      BY <1>3, Assoc
    <3> QED
      BY <3>1, Zenon DEF Regroups
  <2> QED
    BY <1>2, <2>1, <2>2, Zenon
<1>5. Clean(b, {"#"})
  <2>1. Clean(<<"?">>, {"#"})
    BY DEF Clean
  <2> QED
    BY <1>2, <1>3, <2>1, CleanConcat
<1>6. Urls!Before(b \o h, {"#"}) = b /\ Urls!After(b \o h, {"#"}) = <<>>
  <2>1. "#" \in {"#"}
    OBVIOUS
  <2>2. Urls!Before(b \o <<"#">>, {"#"}) = b /\ Urls!After(b \o <<"#">>, {"#"}) = <<>>
    BY <1>3, <1>5, <2>1, HostText, CutEnd
  <2> QED
    BY <1>2, <2>2, Zenon
<1>7. Urls!Before(b, {"?"}) = a
  BY <1>2, HostText, CutEnd
<1>8. Urls!ParseSource(Urls!Host \o (<<"/">> \o (b \o h))) = Urls!DirectOf(a, <<>>)
  BY <1>3, <1>6, <1>7, SourceSlash, Zenon
<1> QED
  BY <1>1, <1>4, <1>8, Zenon

-----------------------------------------------------------------------------
(* What a source means. *)

\* The kinds a source of a path is read with.
Kinds(p, w) == IF p = <<>> THEN {"Auto"} ELSE IF w = "file" THEN {"File", "Auto"} ELSE {"Dir", "Auto"}

Reads(u, p, w) ==
  \E k \in Kinds(p, w) : Urls!ParseSource(u) = [remote |-> Urls!Joined(p), kind |-> k]

LEMMA ReadsAs ==
  ASSUME NEW u, NEW p, NEW w, NEW r, NEW k \in Kinds(p, w),
         Urls!ParseSource(u) = Urls!Direct(r, k), Urls!PercentDecode(r) = Urls!Joined(p)
  PROVE  Reads(u, p, w)
  BY Zenon DEF Reads, Urls!Direct

LEMMA HostSlash ==
  ASSUME NEW t \in Text
  PROVE  (Urls!Host \o <<"/">>) \o t = Urls!Host \o (<<"/">> \o t)
<1>1. Regroups(Urls!Host, <<"/">>, t)
  BY Slash, HostText, Assoc
<1> QED
  BY <1>1, Zenon DEF Regroups

\* A route is a slash and the rest of it.
LEMMA RouteSlash ==
  /\ Urls!FilesRoute = <<"/">> \o <<"files", "/">> /\ Urls!PullRoute = <<"/">> \o <<"pull", "/">>
  /\ Urls!ZipRoute = <<"/">> \o <<"api", "/", "zip", "/">>
  /\ Urls!ListRoute = <<"/">> \o <<"api", "/", "list", "/">>
<1>1. ASSUME NEW r \in Text, r # <<>>, r[1] = "/" PROVE r = <<"/">> \o Tail(r)
  <2>1. PICK t \in Seq(Chars) : r = <<r[1]>> \o t
    BY <1>1, Begins DEF Text
  <2>2. Tail(<<r[1]>> \o t) = t
    BY <1>1, Slash
  <2> QED
    BY <1>1, <2>1, <2>2, Zenon
<1>2. /\ Urls!FilesRoute[1] = "/" /\ Urls!PullRoute[1] = "/" /\ Urls!ZipRoute[1] = "/"
      /\ Urls!ListRoute[1] = "/"
      /\ Urls!FilesRoute # <<>> /\ Urls!PullRoute # <<>> /\ Urls!ZipRoute # <<>>
      /\ Urls!ListRoute # <<>>
  BY DEF Urls!FilesRoute, Urls!PullRoute, Urls!ZipRoute, Urls!ListRoute
<1>3. Urls!FilesRoute = <<"/">> \o Tail(Urls!FilesRoute) /\ Urls!PullRoute = <<"/">> \o Tail(Urls!PullRoute)
  BY <1>1, <1>2, RouteTexts
<1>4. Urls!ZipRoute = <<"/">> \o Tail(Urls!ZipRoute) /\ Urls!ListRoute = <<"/">> \o Tail(Urls!ListRoute)
  BY <1>1, <1>2, RouteTexts
<1> QED
  BY <1>3, <1>4, Routes, Zenon

\* A link of a route, with and without an empty query and fragment.
LEMMA RouteUrl ==
  ASSUME NEW p \in Seq(Names), p # <<>>, NEW w, NEW k \in Kinds(p, w), NEW r \in Text, Clean(r, {"#", "?"}),
         NEW route, route = <<"/">> \o r,
         \A s \in Text : s # <<>> => Urls!DirectOf(r \o s, <<>>) = Urls!Direct(s, k)
  PROVE  /\ Reads(Urls!Host \o (route \o Urls!JoinPath(p)), p, w)
         /\ Reads((Urls!Host \o (route \o Urls!JoinPath(p))) \o <<"?", "#">>, p, w)
<1>1. PICK j : j = Urls!JoinPath(p)
  OBVIOUS
<1>2. /\ j \in Text /\ j # <<>> /\ Clean(j, {"#"}) /\ Clean(j, {"?"})
      /\ Urls!PercentDecode(j) = Urls!Joined(p)
  BY <1>1, LinkText
<1>3. PICK a, q : a = r \o j /\ q = <<"?", "#">>
  OBVIOUS
<1>4. a \in Text /\ q \in Text
  BY <1>2, <1>3, HostText, ConcatProperties DEF Text
<1>5. Clean(a, {"#"}) /\ Clean(a, {"?"})
  <2>1. Clean(r, {"#"}) /\ Clean(r, {"?"})
    BY CleanLess
  <2> QED
    BY <1>2, <1>3, <2>1, CleanConcat
<1>6. Urls!DirectOf(a, <<>>) = Urls!Direct(j, k)
  BY <1>2, <1>3
<1>7. PICK l : l = <<"/">>
  OBVIOUS
<1>8. l \in Text /\ Urls!Host \in Text
  BY <1>7, Slash, HostText
<1>9. route \o j = l \o a
  <2>1. Regroups(l, r, j)
    BY <1>2, <1>8, Assoc
  <2> QED
    BY <1>3, <1>7, <2>1, Zenon DEF Regroups
<1>10. l \o a \in Text /\ a \o q \in Text
  BY <1>4, <1>8, ConcatProperties DEF Text
<1>11. (Urls!Host \o (l \o a)) \o q = Urls!Host \o (l \o (a \o q))
  <2>1. (Urls!Host \o (l \o a)) \o q = Urls!Host \o ((l \o a) \o q)
    <3>1. Regroups(Urls!Host, l \o a, q)
      BY <1>4, <1>8, <1>10, Assoc
    <3> QED
      BY <3>1, Zenon DEF Regroups
  <2>2. (l \o a) \o q = l \o (a \o q)
    <3>1. Regroups(l, a, q)
      BY <1>4, <1>8, Assoc
    <3> QED
      BY <3>1, Zenon DEF Regroups
  <2> QED
    BY <2>1, <2>2, Zenon
<1>12. /\ Urls!ParseSource(Urls!Host \o (l \o a)) = Urls!DirectOf(a, <<>>)
       /\ Urls!ParseSource(Urls!Host \o (l \o (a \o q))) = Urls!DirectOf(a, <<>>)
  BY <1>3, <1>4, <1>5, <1>7, SourcePlain
<1>13. Reads(Urls!Host \o (l \o a), p, w) /\ Reads(Urls!Host \o (l \o (a \o q)), p, w)
  BY <1>2, <1>6, <1>12, ReadsAs
<1> QED
  BY <1>1, <1>3, <1>9, <1>11, <1>13, Zenon

LEMMA RouteClean ==
  ASSUME NEW r \in {<<"files", "/">>, <<"pull", "/">>, <<"api", "/", "zip", "/">>, <<"api", "/", "list", "/">>}
  PROVE  r \in Text /\ Clean(r, {"#", "?"})
<1>1. r \in Text
  BY RouteTexts
<1> QED
  BY <1>1 DEF Clean

LEMMA FileUrl ==
  ASSUME NEW p \in Seq(Names), p # <<>>, NEW l \in Urls!Links(p, "file")
  PROVE  Reads(Urls!Host \o l, p, "file") /\ Reads((Urls!Host \o l) \o <<"?", "#">>, p, "file")
<1>1. PICK r \in {<<"files", "/">>, <<"pull", "/">>} : l = (<<"/">> \o r) \o Urls!JoinPath(p)
  BY RouteSlash, Zenon DEF Urls!Links
<1>2. r \in Text /\ Clean(r, {"#", "?"})
  BY RouteClean
<1>3. \A s \in Text : s # <<>> => Urls!DirectOf(r \o s, <<>>) = Urls!Direct(s, "File")
  BY FileLink
<1>4. "File" \in Kinds(p, "file")
  BY DEF Kinds
<1>5. PICK route : route = <<"/">> \o r
  OBVIOUS
<1> QED
  BY <1>1, <1>2, <1>3, <1>4, <1>5, RouteUrl

LEMMA TreeUrl ==
  ASSUME NEW p \in Seq(Names), p # <<>>, NEW l \in Urls!Links(p, "dir")
  PROVE  Reads(Urls!Host \o l, p, "dir")
<1>1. "Dir" \in Kinds(p, "dir")
  BY DEF Kinds
<1>2. PICK j : j = Urls!JoinPath(p)
  OBVIOUS
<1>3. /\ j \in Text /\ j # <<>> /\ Bare(j) /\ Clean(j, {"#"}) /\ Clean(j, {"?"})
      /\ Urls!PercentDecode(j) = Urls!Joined(p)
  BY <1>2, LinkText
<1>4. ASSUME NEW r \in {<<"api", "/", "zip", "/">>, <<"api", "/", "list", "/">>}, NEW route,
             route = <<"/">> \o r, l = route \o j
      PROVE  Reads(Urls!Host \o l, p, "dir")
  <2>1. r \in Text /\ Clean(r, {"#", "?"})
    BY RouteClean
  <2>2. \A s \in Text : s # <<>> => Urls!DirectOf(r \o s, <<>>) = Urls!Direct(s, "Dir")
    BY TreeLink
  <2> QED
    BY <1>1, <1>2, <1>4, <2>1, <2>2, RouteUrl
<1>5. Urls!DirectOf(<<>>, j) = Urls!Direct(j, "Dir")
  BY <1>3, HashLink
<1>6. PICK h : h = <<"#">>
  OBVIOUS
<1>7. h \in Text
  BY <1>6, HostText DEF Text
<1>8. CASE l = <<"#">> \o j
  <2>1. Urls!ParseSource(Urls!Host \o l) = Urls!Direct(j, "Dir")
    BY <1>3, <1>5, <1>8, SourceHash
  <2> QED
    BY <1>1, <1>3, <2>1, ReadsAs
<1>9. CASE l = <<"/", "#">> \o j
  <2>1. PICK s, a, n : s = <<"/">> /\ a = h \o j /\ n = <<>>
    OBVIOUS
  <2>2. s \in Text /\ a \in Text /\ n \in Text
    BY <1>3, <1>7, <2>1, Slash, ConcatProperties DEF Text
  <2>3. l = s \o a
    <3>1. <<"/", "#">> = s \o h
      BY <1>6, <2>1, Slash, HostText, PairIs
    <3>2. (s \o h) \o j = s \o (h \o j)
      <4>1. Regroups(s, h, j)
        BY <1>3, <1>7, <2>2, Assoc
      <4> QED
        BY <4>1, Zenon DEF Regroups
    <3> QED
      BY <1>9, <2>1, <3>1, <3>2, Zenon
  <2>4. Clean(n, {"#"}) /\ Clean(n, {"?"})
    BY <2>1 DEF Clean
  <2>5. n \o a = a
    BY <2>1, <2>2 DEF Text
  <2>6. Urls!Before(a, {"#"}) = n /\ Urls!After(a, {"#"}) = j
    <3>1. "#" \in {"#"}
      OBVIOUS
    <3>2. Urls!Before(n \o (<<"#">> \o j), {"#"}) = n /\ Urls!After(n \o (<<"#">> \o j), {"#"}) = j
      BY <1>3, <2>2, <2>4, <3>1, HostText, CutOne
    <3> QED
      BY <1>6, <2>1, <2>5, <3>2, Zenon
  <2>7. Urls!Before(n, {"?"}) = n
    BY <2>2, <2>4, CutNone
  <2>8. Urls!ParseSource(Urls!Host \o (<<"/">> \o a)) = Urls!DirectOf(n, j)
    BY <2>2, <2>6, <2>7, SourceSlash, Zenon
  <2>9. Urls!ParseSource(Urls!Host \o l) = Urls!Direct(j, "Dir")
    BY <1>5, <2>1, <2>3, <2>8, Zenon
  <2> QED
    BY <1>1, <1>3, <2>9, ReadsAs
<1> QED
  BY <1>2, <1>4, <1>8, <1>9, RouteSlash DEF Urls!Links

LEMMA BareUrl ==
  ASSUME NEW p \in Seq(Names), p # <<>>, ~Urls!OfRoute(p), NEW w \in {"file", "dir"}
  PROVE  Reads((Urls!Host \o <<"/">>) \o Urls!JoinPath(p), p, w)
<1>1. PICK j : j = Urls!JoinPath(p)
  OBVIOUS
<1>2. j \in Text /\ Clean(j, {"#"}) /\ Clean(j, {"?"}) /\ Urls!PercentDecode(j) = Urls!Joined(p)
  BY <1>1, LinkText
<1>3. Urls!ParseSource(Urls!Host \o (<<"/">> \o j)) = Urls!DirectOf(j, <<>>)
  BY <1>2, SourcePlain
<1>4. Urls!DirectOf(j, <<>>) = Urls!Direct(j, "Auto")
  BY <1>1, BareLink
<1>5. (Urls!Host \o <<"/">>) \o j = Urls!Host \o (<<"/">> \o j)
  BY <1>2, HostSlash
<1>6. "Auto" \in Kinds(p, w)
  BY DEF Kinds
<1>7. Urls!ParseSource((Urls!Host \o <<"/">>) \o j) = Urls!Direct(j, "Auto")
  BY <1>3, <1>4, <1>5, Zenon
<1> QED
  BY <1>1, <1>2, <1>6, <1>7, ReadsAs

\* The root, and a host alone.
LEMMA RootUrl ==
  ASSUME NEW l \in {<<>>, <<"/">>, <<"/", "#">>}
  PROVE  Urls!ParseSource(Urls!Host \o l) = [remote |-> <<>>, kind |-> "Auto"]
<1>1. Urls!DirectOf(<<>>, <<>>) = [remote |-> <<>>, kind |-> "Auto"]
  BY NoLink, DecodeEmpty DEF Urls!Direct
<1>2. PICK n, s, h : n = <<>> /\ s = <<"/">> /\ h = <<"#">>
  OBVIOUS
<1>3. n \in Text /\ s \in Text /\ h \in Text /\ Clean(n, {"#"}) /\ Clean(n, {"?"})
  BY <1>2, Slash, HostText DEF Text, Clean
<1>4. CASE l = <<>>
  <2>1. Urls!Host \o l = Urls!Host
    BY <1>4, HostText DEF Text
  <2> QED
    BY <1>1, <2>1, SourceHost, Zenon
<1>5. CASE l = <<"/">>
  <2>1. l = s \o n
    BY <1>2, <1>3, <1>5 DEF Text
  <2>2. Urls!ParseSource(Urls!Host \o (<<"/">> \o n)) = Urls!DirectOf(n, <<>>)
    BY <1>3, SourcePlain
  <2> QED
    BY <1>1, <1>2, <2>1, <2>2, Zenon
<1>6. CASE l = <<"/", "#">>
  <2>1. l = s \o h
    BY <1>2, <1>6, Slash, HostText, PairIs
  <2>2. Urls!Before(h, {"#"}) = n /\ Urls!After(h, {"#"}) = n
    <3>1. Urls!Before(n \o <<"#">>, {"#"}) = n /\ Urls!After(n \o <<"#">>, {"#"}) = <<>>
      BY <1>3, HostText, CutEnd
    <3>2. n \o h = h
      BY <1>2, <1>3 DEF Text
    <3> QED
      BY <1>2, <3>1, <3>2, Zenon
  <2>3. Urls!Before(n, {"?"}) = n
    BY <1>3, CutNone
  <2>4. Urls!ParseSource(Urls!Host \o (<<"/">> \o h)) = Urls!DirectOf(n, n)
    BY <1>3, <2>2, <2>3, SourceSlash, Zenon
  <2> QED
    BY <1>1, <1>2, <2>1, <2>4, Zenon
<1> QED
  BY <1>4, <1>5, <1>6

\* The ways to ask: a source, or the host and an argument.
LEMMA WaysAre ==
  ASSUME NEW p \in Seq(Names), NEW w \in {"file", "dir"}, w = "file" => p # <<>>, NEW v \in Urls!Ways(p, w)
  PROVE  \/ \E u : v = <<u>> /\ Reads(u, p, w)
         \/ /\ p # <<>> /\ Urls!ParseSource(Urls!Host) = [remote |-> <<>>, kind |-> "Auto"]
            /\ \E a : /\ v = <<Urls!Host, a>> /\ Urls!TrimEnd(Urls!TrimStart(a)) = Urls!Joined(p)
                      /\ a \notin Urls!Flat
<1>1. CASE p = <<>>
  <2>1. w = "dir"
    BY <1>1
  <2>2. PICK l \in {<<>>, <<"/">>, <<"/", "#">>} : v = <<Urls!Host \o l>>
    BY <1>1, <2>1 DEF Urls!Ways
  <2>3. Reads(Urls!Host \o l, p, w)
    BY <1>1, RootUrl, JoinedEmpty DEF Reads, Kinds
  <2> QED
    BY <2>2, <2>3
<1>2. CASE p # <<>> /\ \E l \in Urls!Links(p, w) : v = <<Urls!Host \o l>>
  <2>1. PICK l \in Urls!Links(p, w) : v = <<Urls!Host \o l>>
    BY <1>2
  <2>2. Reads(Urls!Host \o l, p, w)
    BY <1>2, FileUrl, TreeUrl
  <2> QED
    BY <2>1, <2>2
<1>3. CASE /\ p # <<>> /\ w = "file"
           /\ v = <<(Urls!Host \o (Urls!FilesRoute \o Urls!JoinPath(p))) \o <<"?", "#">>>>
  <2>1. Urls!FilesRoute \o Urls!JoinPath(p) \in Urls!Links(p, "file")
    BY DEF Urls!Links
  <2>2. Reads((Urls!Host \o (Urls!FilesRoute \o Urls!JoinPath(p))) \o <<"?", "#">>, p, w)
    BY <1>3, <2>1, FileUrl
  <2> QED
    BY <1>3, <2>2
<1>4. CASE p # <<>> /\ ~Urls!OfRoute(p) /\ v = <<(Urls!Host \o <<"/">>) \o Urls!JoinPath(p)>>
  BY <1>4, BareUrl
<1>5. CASE p # <<>> /\ Urls!Joined(p) \notin Urls!Flat /\ v = <<Urls!Host, Urls!Joined(p)>>
  <2>1. Urls!ParseSource(Urls!Host) = [remote |-> <<>>, kind |-> "Auto"]
    BY SourceHost, NoLink, DecodeEmpty DEF Urls!Direct
  <2>2. Urls!TrimEnd(Urls!TrimStart(Urls!Joined(p))) = Urls!Joined(p)
    BY <1>5, JoinedBare, TrimBare
  <2> QED
    BY <1>5, <2>1, <2>2
<1>6. CASE /\ p # <<>> /\ Urls!Joined(p) \notin Urls!Flat
           /\ v = <<Urls!Host, (<<"/">> \o Urls!Joined(p)) \o <<"/">>>>
  <2>1. Urls!ParseSource(Urls!Host) = [remote |-> <<>>, kind |-> "Auto"]
    BY SourceHost, NoLink, DecodeEmpty DEF Urls!Direct
  <2>2. PICK j, a : j = Urls!Joined(p) /\ a = (<<"/">> \o j) \o <<"/">>
    OBVIOUS
  <2>3. Urls!TrimEnd(Urls!TrimStart(a)) = j
    BY <1>6, <2>2, JoinedBare, TrimBoth
  <2>4. a \notin Urls!Flat
    <3>1. j \in Text
      BY <1>6, <2>2, JoinedBare DEF Bare
    <3>2. a \in Text /\ a[1] = "/"
      <4>1. PICK s : s = <<"/">>
        OBVIOUS
      <4>2. s \in Text /\ 1 \in 1..Len(s) /\ s[1] = "/"
        BY <4>1, Slash
      <4>3. PICK b : b = s \o j
        OBVIOUS
      <4>4. b \in Text /\ 1 \in 1..Len(b) /\ b[1] = "/"
        <5>1. b \in Text /\ Len(b) = Len(s) + Len(j) /\ Len(s) = 1 /\ Len(j) \in Nat
          BY <3>1, <4>1, <4>2, <4>3, ConcatProperties DEF Text
        <5>2. b[1] = s[1]
          BY <3>1, <4>2, <4>3, ConcatFirst
        <5> QED
          BY <4>2, <5>1, <5>2
      <4>5. b \o s \in Text
        BY <4>2, <4>4, ConcatProperties DEF Text
      <4>6. (b \o s)[1] = b[1]
        BY <4>2, <4>4, ConcatFirst
      <4> QED
        BY <2>2, <4>1, <4>3, <4>4, <4>5, <4>6, Zenon
    <3> QED
      BY <3>2 DEF Urls!Flat
  <2> QED
    BY <1>6, <2>1, <2>2, <2>3, <2>4
<1>7. p # <<>> =>
        \/ \E l \in Urls!Links(p, w) : v = <<Urls!Host \o l>>
        \/ w = "file" /\ v = <<(Urls!Host \o (Urls!FilesRoute \o Urls!JoinPath(p))) \o <<"?", "#">>>>
        \/ ~Urls!OfRoute(p) /\ v = <<(Urls!Host \o <<"/">>) \o Urls!JoinPath(p)>>
        \/ Urls!Joined(p) \notin Urls!Flat /\ v = <<Urls!Host, Urls!Joined(p)>>
        \/ Urls!Joined(p) \notin Urls!Flat /\ v = <<Urls!Host, (<<"/">> \o Urls!Joined(p)) \o <<"/">>>>
  BY Zenon DEF Urls!Ways
<1> QED
  BY <1>1, <1>2, <1>3, <1>4, <1>5, <1>6, <1>7, Zenon

-----------------------------------------------------------------------------
(* parse_args. *)

\* The arguments behind the source, without the flag.
PosOf(as) == IF Len(as) > 1 /\ Urls!Last(as) \in Urls!Flat THEN Urls!Front(Tail(as)) ELSE Tail(as)

\* u, the positional arguments m and the flag or none.
Arguments(as, S, u, m, f) ==
  /\ u \in S /\ m \in Seq(S) /\ <<"-f">> \in S /\ f \in {<<>>, <<<<"-f">>>>}
  /\ as = (<<u>> \o m) \o f
  /\ m # <<>> => m[Len(m)] \notin Urls!Flat

\* How parse_trailing takes them apart.
Split(as, u, m, f) ==
  /\ Head(as) = u /\ PosOf(as) = m
  /\ (Len(as) > 1 /\ Urls!Last(as) \in Urls!Flat) <=> f # <<>>

LEMMA ArgumentsAre ==
  ASSUME NEW as, NEW S, NEW u, NEW m, NEW f, Arguments(as, S, u, m, f)
  PROVE  Split(as, u, m, f)
<1>1. /\ u \in S /\ m \in Seq(S) /\ <<"-f">> \in S /\ f \in {<<>>, <<<<"-f">>>>}
      /\ as = (<<u>> \o m) \o f
      /\ m # <<>> => m[Len(m)] \notin Urls!Flat
  BY Zenon DEF Arguments
<1>2. PICK b : b = <<u>> \o m
  OBVIOUS
<1>3. /\ b \in Seq(S) /\ Len(b) = Len(m) + 1 /\ Head(b) = u /\ Tail(b) = m /\ Len(m) \in Nat
      /\ \A i \in 1..Len(m) : b[i + 1] = m[i]
  BY <1>1, <1>2
<1>4. CASE f = <<>>
  <2>1. as = b
    BY <1>1, <1>2, <1>3, <1>4
  <2>2. ASSUME Len(b) > 1 PROVE Urls!Last(b) \notin Urls!Flat
    <3>1. Len(m) \in 1..Len(m) /\ m # <<>>
      BY <1>3, <2>2
    <3>2. b[Len(m) + 1] = m[Len(m)]
      BY <1>3, <3>1
    <3> QED
      BY <1>1, <1>3, <3>1, <3>2 DEF Urls!Last
  <2> QED
    BY <1>3, <1>4, <2>1, <2>2 DEF PosOf, Split
<1>5. CASE f = <<<<"-f">>>>
  <2>1. PICK e : e = <<"-f">>
    OBVIOUS
  <2>2. e \in S /\ e \in Urls!Flat /\ f # <<>>
    BY <1>1, <1>5, <2>1 DEF Urls!Flat
  <2>3. as = Append(b, e)
    <3>1. as = b \o <<e>>
      BY <1>1, <1>2, <1>5, <2>1
    <3> QED
      BY <1>3, <2>2, <3>1, AppendIsConcat
  <2>4. as \in Seq(S) /\ Len(as) = Len(m) + 2 /\ as[Len(m) + 2] = e /\ Head(as) = u
        /\ \A i \in 1..(Len(m) + 1) : as[i] = b[i]
    BY <1>3, <2>2, <2>3
  <2>5. Urls!Last(as) = e /\ Len(as) > 1
    BY <1>3, <2>4 DEF Urls!Last
  <2>6. Urls!Front(Tail(as)) = m
    <3>1. PICK t : t = Tail(as)
      OBVIOUS
    <3>2. t \in Seq(S) /\ Len(t) = Len(m) + 1 /\ \A i \in 1..(Len(m) + 1) : t[i] = as[i + 1]
      <4>1. PICK k \in Nat : k = Len(m)
        BY <1>3
      <4>2. as \in Seq(S) /\ Len(as) = k + 2 /\ as # <<>>
        <5>1. as \in Seq(S) /\ Len(as) = k + 2
          BY <2>4, <4>1
        <5>2. k + 2 # 0
          BY <4>1
        <5> QED
          BY <5>1, <5>2, EmptySeq
      <4>3. t \in Seq(S) /\ Len(t) = Len(as) - 1 /\ \A i \in 1..Len(t) : t[i] = as[i + 1]
        BY <3>1, <4>2, HeadTailProperties
      <4>4. Len(t) = k + 1
        BY <4>1, <4>2, <4>3
      <4> QED
        BY <4>1, <4>3, <4>4
    <3>3. PICK y : y = SubSeq(t, 1, Len(m))
      OBVIOUS
    <3>4. y \in Seq(S) /\ Len(y) = Len(m) /\ \A i \in 1..Len(m) : y[i] = t[i]
      BY <1>3, <3>2, <3>3
    <3>5. \A i \in 1..Len(m) : y[i] = m[i]
      <4> TAKE i \in 1..Len(m)
      <4>1. i \in 1..(Len(m) + 1) /\ i + 1 \in 1..(Len(m) + 1)
        BY <1>3
      <4> QED
        BY <1>3, <2>4, <3>2, <3>4, <4>1
    <3>6. y = m
      BY <1>1, <3>4, <3>5, SeqEqual
    <3>7. Urls!Front(t) = y
      <4>1. Len(t) - 1 = Len(m)
        BY <1>3, <3>2
      <4> QED
        BY <3>3, <4>1, Zenon DEF Urls!Front
    <3> QED
      BY <3>1, <3>6, <3>7
  <2> QED
    BY <2>2, <2>4, <2>5, <2>6 DEF PosOf, Split
<1> QED
  BY <1>1, <1>4, <1>5

IntoOf(g) == IF Len(g) = 2 THEN g[2] ELSE <<".">>

\* The remote and where it goes: one argument, or two.
LEMMA GivenAre ==
  ASSUME NEW x, NEW m \in {<<>>, <<Urls!Local>>}, NEW g, g = <<x>> \o m
  PROVE  /\ g # <<>> /\ ~(Len(g) > 2) /\ g[1] = x
         /\ IntoOf(g) = IF m = <<>> THEN <<".">> ELSE Urls!Local
<1>1. PICK l : l = Urls!Local
  OBVIOUS
<1>2. CASE m = <<>>
  <2>1. g = <<x>>
    BY <1>2
  <2> QED
    BY <1>2, <2>1 DEF IntoOf
<1>3. CASE m = <<l>>
  <2>1. x \in {x, l} /\ l \in {x, l}
    OBVIOUS
  <2>2. g = <<x, l>>
    BY <1>3, <2>1, PairIs
  <2>3. Len(<<x, l>>) = 2 /\ <<x, l>>[1] = x /\ <<x, l>>[2] = l /\ m # <<>>
    BY <1>3
  <2> QED
    BY <1>1, <2>2, <2>3 DEF IntoOf
<1> QED
  BY <1>1, <1>2, <1>3

Into(p) == [local : IF p = <<>> THEN {<<>>} ELSE {<<>>, <<Urls!Local>>}, flat : {<<>>, <<<<"-f">>>>}]

\* The directory a pull goes to.
DirOf(p, i) == IF p = <<>> THEN <<"lanfile-root">> ELSE IF i.local = <<>> THEN <<".">> ELSE Urls!Local

\* What parse_args returns.
Returned(x, k, l, f) == [remote |-> x, kind |-> k, local |-> l, flat |-> f # <<>>]

\* What the command line says.
Parsed(d, p, w, i) ==
  \E k \in Kinds(p, w) : d = Returned(Urls!Joined(p), k, DirOf(p, i), i.flat)

\* parse_args on a source that is read as r and k, with m behind it.
LEMMA ParseIs ==
  ASSUME NEW as, NEW u, NEW m, NEW r, NEW k, NEW f,
         Split(as, u, m, f),
         Urls!ParseSource(u) = [remote |-> r, kind |-> k]
  PROVE  /\ r = <<>> /\ m = <<>> => Urls!ParseArgs(as) = Returned(<<>>, k, <<"lanfile-root">>, f)
         /\ \A g : r # <<>> /\ g = <<r>> \o m /\ g # <<>> /\ ~(Len(g) > 2) /\ g[1] = r =>
              Urls!ParseArgs(as) = Returned(r, k, IntoOf(g), f)
         /\ \A x : /\ r = <<>> /\ m # <<>> /\ ~(Len(m) > 2)
                  /\ x # <<>> /\ x = Urls!TrimEnd(Urls!TrimStart(m[1]))
                  => Urls!ParseArgs(as) = Returned(x, k, IntoOf(m), f)
<1>1. PICK d : d = Urls!ParseSource(u) /\ d.remote = r /\ d.kind = k
  OBVIOUS
<1>2. PICK given : given = IF r = <<>> THEN m ELSE <<r>> \o m
  OBVIOUS
<1>3. PICK remote : remote = IF given = <<>> THEN <<>>
                             ELSE IF r = <<>> THEN Urls!TrimEnd(Urls!TrimStart(given[1])) ELSE given[1]
  OBVIOUS
<1>4. /\ Head(as) = u /\ PosOf(as) = m
      /\ (Len(as) > 1 /\ Urls!Last(as) \in Urls!Flat) = (f # <<>>)
  BY DEF Split
<1>5. Urls!ParseArgs(as) =
        IF Len(given) > 2 THEN None
        ELSE Returned(remote, k, IF Len(given) = 2 THEN given[2]
                                 ELSE IF remote = <<>> THEN <<"lanfile-root">> ELSE <<".">>, f)
  BY <1>1, <1>2, <1>3, <1>4, Zenon DEF Urls!ParseArgs, PosOf, Returned
<1>6. ASSUME r = <<>>, m = <<>>
      PROVE  Urls!ParseArgs(as) = Returned(<<>>, k, <<"lanfile-root">>, f)
  <2>1. given = <<>> /\ remote = <<>>
    BY <1>2, <1>3, <1>6, Zenon
  <2>2. ~(Len(<<>>) > 2) /\ Len(<<>>) # 2
    OBVIOUS
  <2> QED
    BY <1>5, <2>1, <2>2, Zenon
<1>7. ASSUME given # <<>>, ~(Len(given) > 2), remote # <<>>
      PROVE  Urls!ParseArgs(as) =
               Returned(remote, k, IntoOf(given), f)
  BY <1>5, <1>7, Zenon DEF IntoOf
<1>8. ASSUME r # <<>>, NEW g, g = <<r>> \o m, g # <<>>, ~(Len(g) > 2), g[1] = r
      PROVE  Urls!ParseArgs(as) = Returned(r, k, IntoOf(g), f)
  <2>1. given = g /\ remote = r
    BY <1>2, <1>3, <1>8, Zenon
  <2> QED
    BY <1>7, <1>8, <2>1, Zenon
<1>9. ASSUME NEW x, r = <<>>, m # <<>>, ~(Len(m) > 2), x # <<>>, x = Urls!TrimEnd(Urls!TrimStart(m[1]))
      PROVE  Urls!ParseArgs(as) = Returned(x, k, IntoOf(m), f)
  <2>1. given = m /\ remote = x
    BY <1>2, <1>3, <1>9, Zenon
  <2> QED
    BY <1>7, <1>9, <2>1, Zenon
<1> QED
  BY <1>6, <1>8, <1>9, Zenon

LEMMA IntoText ==
  ASSUME NEW m \in {<<>>, <<Urls!Local>>}, NEW S, Urls!Local \in S
  PROVE  m \in Seq(S) /\ (m # <<>> => m[Len(m)] = Urls!Local)
<1>1. PICK l \in S : l = Urls!Local
  OBVIOUS
<1>2. CASE m = <<>>
  BY <1>2
<1>3. CASE m = <<l>>
  <2>1. <<l>> \in Seq(S) /\ Len(<<l>>) = 1 /\ <<l>>[1] = l
    BY <1>1
  <2> QED
    BY <1>1, <1>3, <2>1, Zenon
<1> QED
  BY <1>1, <1>2, <1>3

LEMMA ParseMeans ==
  ASSUME NEW p \in Seq(Names), NEW w \in {"file", "dir"}, w = "file" => p # <<>>,
         NEW v \in Urls!Ways(p, w), NEW i \in Into(p)
  PROVE  Parsed(Urls!ParseArgs((v \o i.local) \o i.flat), p, w, i)
<1>1. PICK as, m, f, J : as = (v \o i.local) \o i.flat /\ m = i.local /\ f = i.flat /\ J = Urls!Joined(p)
  OBVIOUS
<1>2. /\ m \in {<<>>, <<Urls!Local>>} /\ f \in {<<>>, <<<<"-f">>>>} /\ (p = <<>> => m = <<>>)
  BY <1>1 DEF Into
<1>3. p = <<>> => J = <<>>
  BY <1>1, JoinedEmpty
<1>4. p # <<>> => J # <<>>
  BY <1>1, JoinedBare DEF Bare
<1>5. Urls!Local \notin Urls!Flat
  BY DEF Urls!Local, Urls!Flat
<1>6. CASE \E u : v = <<u>> /\ Reads(u, p, w)
  <2>1. PICK u : v = <<u>> /\ Reads(u, p, w)
    BY <1>6
  <2>2. PICK k \in Kinds(p, w) : Urls!ParseSource(u) = [remote |-> J, kind |-> k]
    BY <1>1, <2>1 DEF Reads
  <2>7. PICK S : S = {u, Urls!Local, <<"-f">>}
    OBVIOUS
  <2>3. Arguments(as, S, u, m, f)
    <3>1. m \in Seq(S) /\ (m # <<>> => m[Len(m)] = Urls!Local) /\ u \in S /\ <<"-f">> \in S
      BY <1>2, <2>7, IntoText
    <3>2. as = (<<u>> \o m) \o f
      BY <1>1, <2>1, Zenon
    <3> QED
      BY <1>2, <1>5, <3>1, <3>2, Zenon DEF Arguments
  <2>4. Split(as, u, m, f)
    BY <2>3, ArgumentsAre
  <2>5. CASE p = <<>>
    <3>1. Urls!ParseArgs(as) = Returned(<<>>, k, <<"lanfile-root">>, f)
      <4>1. m = <<>> /\ J = <<>>
        BY <1>2, <1>3, <2>5
      <4> QED
        BY <2>2, <2>4, <4>1, ParseIs, Zenon
    <3> QED
      BY <1>1, <1>3, <2>5, <3>1 DEF Parsed, DirOf
  <2>6. CASE p # <<>>
    <3>1. PICK g : g = <<J>> \o m
      OBVIOUS
    <3>2. /\ g # <<>> /\ ~(Len(g) > 2) /\ g[1] = J
          /\ IntoOf(g) = IF m = <<>> THEN <<".">> ELSE Urls!Local
      BY <1>2, <3>1, GivenAre
    <3>3. Urls!ParseArgs(as) = Returned(J, k, IntoOf(g), f)
      <4>1. J # <<>> /\ g # <<>> /\ ~(Len(g) > 2) /\ g[1] = J
        BY <1>4, <2>6, <3>2, Zenon
      <4>2. \A y : J # <<>> /\ y = <<J>> \o m /\ y # <<>> /\ ~(Len(y) > 2) /\ y[1] = J =>
                    Urls!ParseArgs(as) = Returned(J, k, IntoOf(y), f)
        BY <2>2, <2>4, ParseIs
      <4> QED
        BY <3>1, <4>1, <4>2, Zenon
    <3> QED
      BY <1>1, <2>6, <3>2, <3>3 DEF Parsed, DirOf
  <2> QED
    BY <1>1, <2>5, <2>6
<1>7. CASE /\ p # <<>> /\ Urls!ParseSource(Urls!Host) = [remote |-> <<>>, kind |-> "Auto"]
           /\ \E a : /\ v = <<Urls!Host, a>> /\ Urls!TrimEnd(Urls!TrimStart(a)) = Urls!Joined(p)
                     /\ a \notin Urls!Flat
  <2>1. PICK a : /\ v = <<Urls!Host, a>> /\ Urls!TrimEnd(Urls!TrimStart(a)) = J /\ a \notin Urls!Flat
    BY <1>1, <1>7
  <2>2. PICK g, S, h : g = <<a>> \o m /\ S = {Urls!Host, a, Urls!Local, <<"-f">>} /\ h = Urls!Host
    OBVIOUS
  <2>3. h \in S /\ a \in S /\ m \in Seq(S) /\ <<"-f">> \in S /\ (m # <<>> => m[Len(m)] = Urls!Local)
    BY <1>2, <2>2, IntoText
  <2>4. /\ g # <<>> /\ ~(Len(g) > 2) /\ g[1] = a
        /\ IntoOf(g) = IF m = <<>> THEN <<".">> ELSE Urls!Local
    BY <1>2, <2>2, GivenAre
  <2>5. g \in Seq(S) /\ (g # <<>> => g[Len(g)] \notin Urls!Flat)
    <3>1. CASE m = <<>>
      <4>1. g = <<a>>
        BY <2>2, <3>1
      <4> QED
        BY <2>1, <2>3, <4>1
    <3>2. CASE m # <<>>
      <4>1. /\ <<a>> \in Seq(S) /\ Len(<<a>>) = 1 /\ Len(m) \in Nat \ {0} /\ m[Len(m)] = Urls!Local
        BY <2>3, <3>2
      <4>2. g \in Seq(S) /\ Len(g) = 1 + Len(m) /\ g[1 + Len(m)] = m[Len(m)]
        BY <2>2, <2>3, <4>1
      <4> QED
        BY <1>5, <4>1, <4>2
    <3> QED
      BY <3>1, <3>2
  <2>6. as = (<<h>> \o g) \o f
    <3>1. v = <<h>> \o <<a>>
      BY <2>1, <2>2
    <3>2. <<h>> \in Seq(S) /\ <<a>> \in Seq(S)
      BY <2>3
    <3>3. (<<h>> \o <<a>>) \o m = <<h>> \o (<<a>> \o m)
      BY <2>3, <3>2, ConcatAssociative
    <3> QED
      BY <1>1, <2>2, <3>1, <3>3, Zenon
  <2>7. Arguments(as, S, h, g, f)
    BY <1>2, <2>3, <2>5, <2>6, Zenon DEF Arguments
  <2>8. Split(as, h, g, f)
    BY <2>7, ArgumentsAre
  <2>9. Urls!ParseSource(h) = [remote |-> <<>>, kind |-> "Auto"]
    BY <1>7, <2>2, Zenon
  <2>10. J # <<>>
    BY <1>4, <1>7
  <2>11. Urls!ParseArgs(as) = Returned(J, "Auto", IntoOf(g), f)
    <3>1. J = Urls!TrimEnd(Urls!TrimStart(g[1]))
      BY <2>1, <2>4, Zenon
    <3>2. g # <<>> /\ ~(Len(g) > 2)
      BY <2>4, Zenon
    <3>3. \A y : /\ g # <<>> /\ ~(Len(g) > 2) /\ y # <<>>
                 /\ y = Urls!TrimEnd(Urls!TrimStart(g[1]))
                 => Urls!ParseArgs(as) = Returned(y, "Auto", IntoOf(g), f)
      BY <2>8, <2>9, ParseIs
    <3> QED
      BY <2>10, <3>1, <3>2, <3>3, Zenon
  <2>12. "Auto" \in Kinds(p, w)
    BY DEF Kinds
  <2> QED
    BY <1>1, <1>7, <2>4, <2>11, <2>12 DEF Parsed, DirOf
<1> QED
  BY <1>6, <1>7, WaysAre

-----------------------------------------------------------------------------
(* The request and the handler. *)

\* What the server makes of the request for a file.
LEMMA PullDispatched ==
  ASSUME NEW s \in Text, Bare(s)
  PROVE  Urls!Dispatched(Urls!PullRoute \o Urls!EncodePath(s)) = <<Urls!PullRoute, s>>
<1>1. PICK e, r : e = Urls!EncodePath(s) /\ r = Urls!PullRoute \o e
  OBVIOUS
<1>2. e \in Text /\ Bare(e)
  BY <1>1, EncodeText, EncodeBare
<1>3. r \in Text
  BY <1>1, <1>2, RouteTexts, ConcatProperties DEF Text
<1>4. r[2] = "pull"
  <2>1. PICK t : t = Urls!PullRoute
    OBVIOUS
  <2>2. t \in Text /\ 2 \in 1..Len(t) /\ t[2] = "pull"
    BY <2>1, RouteTexts DEF Urls!PullRoute
  <2> QED
    BY <1>1, <1>2, <2>1, <2>2, ConcatFirst
<1>5. ~Urls!IsPrefix(Urls!FilesRoute, r)
  <2>1. PICK t : t = Urls!FilesRoute
    OBVIOUS
  <2>2. t \in Text /\ 2 \in 1..Len(t) /\ t[2] = "files"
    BY <2>1, RouteTexts DEF Urls!FilesRoute
  <2> QED
    BY <1>3, <1>4, <2>1, <2>2, OtherFirst
<1>6. Urls!IsPrefix(Urls!PullRoute, r) /\ Urls!From(r, Len(Urls!PullRoute) + 1) = e
  BY <1>1, <1>2, RouteTexts, PrefixConcat
<1>7. Urls!TrimStart(e) = e /\ Urls!Last(e) # "/"
  BY <1>2, TrimBare DEF Bare, Urls!Last
<1>8. Urls!PercentDecode(e) = s
  BY <1>1, RoundTrip
<1>9. Urls!SubPath(r, Urls!PullRoute) = s
  BY <1>6, <1>7, <1>8, Zenon DEF Urls!SubPath, Urls!DecodeUrlPath
<1> QED
  BY <1>1, <1>5, <1>6, <1>9, Zenon DEF Urls!Dispatched

\* No route of a file begins a request for a listing.
LEMMA ListRequest ==
  ASSUME NEW r \in Text, r[2] = "api"
  PROVE  ~Urls!IsPrefix(Urls!FilesRoute, r) /\ ~Urls!IsPrefix(Urls!PullRoute, r)
<1>1. PICK t, u : t = Urls!FilesRoute /\ u = Urls!PullRoute
  OBVIOUS
<1>2. t \in Text /\ 2 \in 1..Len(t) /\ t[2] = "files"
  BY <1>1, RouteTexts DEF Urls!FilesRoute
<1>3. u \in Text /\ 2 \in 1..Len(u) /\ u[2] = "pull"
  BY <1>1, RouteTexts DEF Urls!PullRoute
<1> QED
  BY <1>1, <1>2, <1>3, OtherFirst

LEMMA FrontAppend ==
  ASSUME NEW S, NEW s \in Seq(S), NEW e \in S
  PROVE  Urls!Front(Append(s, e)) = s
<1>1. PICK t, k : t = Append(s, e) /\ k = Len(s)
  OBVIOUS
<1>2. k \in Nat /\ t \in Seq(S) /\ Len(t) = k + 1 /\ \A i \in 1..k : t[i] = s[i]
  BY <1>1
<1>3. PICK y : y = SubSeq(t, 1, k)
  OBVIOUS
<1>4. y \in Seq(S) /\ Len(y) = k /\ \A i \in 1..k : y[i] = t[i]
  BY <1>2, <1>3
<1>5. y = s
  BY <1>1, <1>2, <1>4, SeqEqual
<1>6. Len(t) - 1 = k
  BY <1>2
<1> QED
  BY <1>1, <1>3, <1>5, <1>6, Zenon DEF Urls!Front

LEMMA FrontIs == Urls!Front(Urls!ListRoute) = <<"/", "api", "/", "list">>
<1>1. PICK a, n : a = <<"/", "api", "/", "list">> /\ n = "/"
  OBVIOUS
<1>2. a \in Text /\ n \in Chars
  <2>1. "api" \in Chars /\ "list" \in Chars /\ "/" \in Chars
    BY Slash DEF Chars, Words
  <2> QED
    BY <1>1, <2>1 DEF Text
<1>3. Urls!ListRoute = Append(a, n)
  BY <1>1 DEF Urls!ListRoute
<1>4. Urls!Front(Append(a, n)) = a
  BY <1>2, FrontAppend DEF Text
<1> QED
  BY <1>1, <1>3, <1>4, Zenon

LEMMA RootDispatched == Urls!Dispatched(Urls!Front(Urls!ListRoute)) = <<Urls!ListRoute, <<>>>>
<1>1. PICK r : r = Urls!Front(Urls!ListRoute)
  OBVIOUS
<1>2. r = <<"/", "api", "/", "list">> /\ "api" \in Chars /\ "list" \in Chars
  BY <1>1, FrontIs DEF Chars, Words
<1>3. r \in Text /\ r[2] = "api"
  BY <1>2, Slash DEF Text
<1> QED
  BY <1>1, <1>3, ListRequest, Zenon DEF Urls!Dispatched

LEMMA ListDispatched ==
  ASSUME NEW s \in Text, Bare(s)
  PROVE  Urls!Dispatched(Urls!ListRoute \o Urls!EncodePath(s)) = <<Urls!ListRoute, s>>
<1>1. PICK e, r, t : e = Urls!EncodePath(s) /\ t = Urls!ListRoute /\ r = t \o e
  OBVIOUS
<1>2. e \in Text
  BY <1>1, EncodeText
<1>3. t \in Text /\ Len(t) = 5 /\ t[2] = "api"
  BY <1>1, RouteTexts DEF Urls!ListRoute
<1>4. r \in Text /\ Len(r) = 5 + Len(e) /\ Len(e) \in Nat
  <2>1. r \in Text /\ Len(r) = Len(t) + Len(e)
    BY <1>1, <1>2, <1>3, ConcatProperties DEF Text
  <2>2. Len(e) \in Nat
    BY <1>2 DEF Text
  <2> QED
    BY <1>3, <2>1, <2>2
<1>5. r[2] = "api"
  <2>1. 2 \in 1..Len(t)
    BY <1>3
  <2> QED
    BY <1>1, <1>2, <1>3, <2>1, ConcatFirst
<1>6. ~Urls!IsPrefix(Urls!FilesRoute, r) /\ ~Urls!IsPrefix(Urls!PullRoute, r)
  BY <1>4, <1>5, ListRequest
<1>7. r # Urls!Front(Urls!ListRoute)
  <2>1. Len(<<"/", "api", "/", "list">>) = 4
    OBVIOUS
  <2>2. Len(r) # 4
    BY <1>4
  <2> QED
    BY <2>1, <2>2, FrontIs
<1>8. Urls!IsPrefix(Urls!ListRoute, r) /\ Urls!From(r, Len(Urls!ListRoute) + 1) = e
  BY <1>1, <1>2, RouteTexts, PrefixConcat
<1>9. Urls!PercentDecode(e) = s
  BY <1>1, RoundTrip
<1> QED
  BY <1>1, <1>6, <1>7, <1>8, <1>9, Zenon DEF Urls!Dispatched, Urls!DecodeUrlPath

LEMMA RequestArrivesAt ==
  ASSUME NEW p \in Seq(Names), NEW w \in {"file", "dir"}, w = "file" => p # <<>>, NEW i,
         NEW d, Parsed(d, p, w, i)
  PROVE  Urls!Dispatched(Urls!Request(d, w)) =
           <<IF w = "file" THEN Urls!PullRoute ELSE Urls!ListRoute, Urls!Joined(p)>>
<1>1. PICK k \in Kinds(p, w) : d = Returned(Urls!Joined(p), k, DirOf(p, i), i.flat)
  BY DEF Parsed
<1>2. d.remote = Urls!Joined(p) /\ d.kind = k
  BY <1>1 DEF Returned
<1>3. CASE w = "file"
  <2>1. p # <<>> /\ k \in {"File", "Auto"}
    BY <1>3 DEF Kinds
  <2>2. Urls!Request(d, w) = Urls!PullRoute \o Urls!EncodePath(Urls!Joined(p))
    BY <1>2, <1>3, <2>1 DEF Urls!Request
  <2>3. Bare(Urls!Joined(p)) /\ Urls!Joined(p) \in Text
    BY <2>1, JoinedBare DEF Bare
  <2> QED
    BY <1>3, <2>2, <2>3, PullDispatched
<1>4. CASE w = "dir"
  <2>1. k \in {"Dir", "Auto"} /\ k # "File" /\ w # "file"
    BY <1>4 DEF Kinds
  <2>2. CASE p = <<>>
    <3>1. Urls!Request(d, w) = Urls!Front(Urls!ListRoute)
      BY <1>2, <2>1, <2>2, JoinedEmpty DEF Urls!Request
    <3> QED
      BY <2>1, <2>2, <3>1, JoinedEmpty, RootDispatched
  <2>3. CASE p # <<>>
    <3>1. Bare(Urls!Joined(p)) /\ Urls!Joined(p) \in Text /\ Urls!Joined(p) # <<>>
      BY <2>3, JoinedBare DEF Bare
    <3>2. Urls!Request(d, w) = Urls!ListRoute \o Urls!EncodePath(Urls!Joined(p))
      BY <1>2, <2>1, <3>1 DEF Urls!Request
    <3> QED
      BY <2>1, <3>1, <3>2, ListDispatched
  <2> QED
    BY <2>2, <2>3
<1> QED
  BY <1>3, <1>4

-----------------------------------------------------------------------------
(* The name. *)

LEMMA NoBasename == Urls!Basename(<<>>) = <<>>
<1>1. {j \in 1..Len(<<>>) : <<>>[j] = "/"} = {}
  OBVIOUS
<1>2. Urls!SelectLastInSeq(<<>>, LAMBDA c : c = "/") = 0
  BY <1>1 DEF Urls!SelectLastInSeq
<1>3. Urls!From(<<>>, 0 + 1) = <<>>
  BY DEF Urls!From
<1> QED
  BY <1>2, <1>3, TrimEmpty, Zenon DEF Urls!Basename

\* Where a pull of p of kind w goes with the arguments i.
Landing(p, w, i) ==
  IF p # <<>> /\ ~(w = "dir" /\ i.flat # <<>>) THEN DirOf(p, i) \o <<"/">> \o Urls!Last(p) ELSE DirOf(p, i)

LEMMA TargetLandsAt ==
  ASSUME NEW p \in Seq(Names), NEW w \in {"file", "dir"}, w = "file" => p # <<>>, NEW i,
         NEW d, Parsed(d, p, w, i)
  PROVE  Urls!Target(d, w) = Landing(p, w, i)
<1>1. PICK k \in Kinds(p, w) : d = Returned(Urls!Joined(p), k, DirOf(p, i), i.flat)
  BY DEF Parsed
<1>2. d.remote = Urls!Joined(p) /\ d.local = DirOf(p, i) /\ d.flat = (i.flat # <<>>)
  BY <1>1 DEF Returned
<1>3. CASE p = <<>>
  <2>1. w # "file" /\ Urls!Basename(d.remote) = <<>>
    BY <1>2, <1>3, JoinedEmpty, NoBasename
  <2> QED
    BY <1>2, <1>3, <2>1, Zenon DEF Urls!Target, Landing
<1>4. CASE p # <<>>
  <2>1. PICK n : n = Urls!Last(p)
    OBVIOUS
  <2>2. n = p[Len(p)] /\ Len(p) \in 1..Len(p)
    BY <1>4, <2>1 DEF Urls!Last
  <2>3. n # <<>>
    <3>1. n \in Names
      BY <2>2
    <3> QED
      BY <3>1, NamesAreBare DEF Bare
  <2>4. Urls!Basename(d.remote) = n
    BY <1>2, <1>4, <2>2, BasenameIs
  <2>5. Urls!Target(d, w) = IF w = "file" \/ ~d.flat THEN d.local \o <<"/">> \o n ELSE d.local
    BY <2>3, <2>4, Zenon DEF Urls!Target
  <2>6. w = "file" \/ w = "dir"
    OBVIOUS
  <2>7. CASE w = "file" \/ i.flat = <<>>
    <3>1. ~(w = "dir" /\ i.flat # <<>>) /\ (w = "file" \/ ~d.flat)
      BY <1>2, <2>7
    <3> QED
      BY <1>2, <1>4, <2>1, <2>5, <3>1, Zenon DEF Landing
  <2>8. CASE ~(w = "file" \/ i.flat = <<>>)
    <3>1. w = "dir" /\ i.flat # <<>> /\ ~(w = "file" \/ ~d.flat)
      BY <1>2, <2>8
    <3> QED
      BY <1>2, <2>5, <3>1, Zenon DEF Landing
  <2> QED
    BY <2>7, <2>8
<1> QED
  BY <1>3, <1>4

-----------------------------------------------------------------------------
(* The invariant. *)

UrlsInv ==
  /\ path \in Seq(Names) /\ what \in {"file", "dir"} /\ (what = "file" => path # <<>>)
  /\ into \in Into(path)
  /\ \E v \in Urls!Ways(path, what) : args = (v \o into.local) \o into.flat
  /\ parsed # None => Parsed(parsed, path, what, into)
  /\ request # None =>
       Urls!Dispatched(request) =
         <<IF what = "file" THEN Urls!PullRoute ELSE Urls!ListRoute, Urls!Joined(path)>>
  /\ target # None => target = Landing(path, what, into)

LEMMA UrlsStart == ASSUME Urls!Init PROVE UrlsInv
<1>1. path \in Seq(Names)
  <2>1. PICK k \in 0..Depth : path \in [1..k -> Names]
    BY DEF Urls!Init, Urls!Paths
  <2>2. k \in Nat
    BY <2>1, PartsAssumption DEF Urls!NamesAssumption
  <2> QED
    BY <2>1, <2>2, SeqDef
<1>2. /\ what \in {"file", "dir"} /\ (what = "file" => path # <<>>)
      /\ parsed = None /\ request = None /\ target = None
  BY Zenon DEF Urls!Init
<1>3. into \in Into(path)
  BY Zenon DEF Urls!Init, Into
<1>4. \E v \in Urls!Ways(path, what) : args = (v \o into.local) \o into.flat
  BY Zenon DEF Urls!Init
<1> QED
  BY <1>1, <1>2, <1>3, <1>4, Zenon DEF UrlsInv

LEMMA ParseStep == ASSUME UrlsInv, Urls!Parse PROVE UrlsInv'
<1>1. /\ parsed' = Urls!ParseArgs(args)
      /\ path' = path /\ what' = what /\ into' = into /\ args' = args
      /\ request' = request /\ target' = target
  BY DEF Urls!Parse
<1>2. PICK v \in Urls!Ways(path, what) : args = (v \o into.local) \o into.flat
  BY DEF UrlsInv
<1>3. Parsed(parsed', path, what, into)
  <2>1. path \in Seq(Names) /\ what \in {"file", "dir"} /\ (what = "file" => path # <<>>) /\ into \in Into(path)
    BY DEF UrlsInv
  <2>2. Parsed(Urls!ParseArgs((v \o into.local) \o into.flat), path, what, into)
    BY <2>1, ParseMeans
  <2> QED
    BY <1>1, <1>2, <2>2, Zenon
<1> QED
  BY <1>1, <1>3, Zenon DEF UrlsInv

LEMMA AskStep == ASSUME UrlsInv, Urls!Ask PROVE UrlsInv'
<1>1. /\ parsed # None /\ request' = Urls!Request(parsed, what) /\ target' = Urls!Target(parsed, what)
      /\ path' = path /\ what' = what /\ into' = into /\ args' = args /\ parsed' = parsed
  BY DEF Urls!Ask
<1>2. /\ path \in Seq(Names) /\ what \in {"file", "dir"} /\ (what = "file" => path # <<>>)
      /\ Parsed(parsed, path, what, into)
  BY <1>1 DEF UrlsInv
<1>3. Urls!Dispatched(request') =
        <<IF what = "file" THEN Urls!PullRoute ELSE Urls!ListRoute, Urls!Joined(path)>>
  BY <1>1, <1>2, RequestArrivesAt
<1>4. target' = Landing(path, what, into)
  BY <1>1, <1>2, TargetLandsAt
<1> QED
  BY <1>1, <1>3, <1>4, Zenon DEF UrlsInv

LEMMA UrlsHold == Spec => [](part = "urls" => UrlsInv)
<1> DEFINE I == part = "urls" => UrlsInv
<1>1. Init => I
  BY FirstStates, UrlsStart
<1>2. I /\ [Next]_vars => I'
  <2> SUFFICES ASSUME I, [Next]_vars, part = "urls" PROVE UrlsInv'
    BY OtherParts
  <2>1. CASE UNCHANGED urlsVars
    <3>1. /\ path' = path /\ what' = what /\ into' = into /\ args' = args
          /\ parsed' = parsed /\ request' = request /\ target' = target
      BY <2>1 DEF urlsVars
    <3> QED
      BY <3>1, Zenon DEF UrlsInv
  <2>2. CASE Urls!Next
    BY <2>2, ParseStep, AskStep, Zenon DEF Urls!Next
  <2> QED
    BY <2>1, <2>2, OtherParts
<1> HIDE DEF I
<1>3. Spec => []I
  BY <1>1, <1>2, PTL DEF Spec
<1> QED
  BY <1>3 DEF I

\* By whichever way a path is asked for and whatever is in its names, the handler is given it.
THEOREM RequestsArrive == Spec => []ArrivesAtThePath
<1>1. (part = "urls" => UrlsInv) => ArrivesAtThePath
  BY Zenon DEF UrlsInv, ArrivesAtThePath, Urls!ArrivesAtThePath
<1> QED
  BY <1>1, UrlsHold, PTL

\* And what is pulled is written under the path's last name, in the directory asked for.
THEOREM PullsAreNamed == Spec => []LandsUnderItsName
<1>1. (part = "urls" => UrlsInv) => LandsUnderItsName
  BY Zenon DEF UrlsInv, LandsUnderItsName, Urls!LandsUnderItsName, Landing, DirOf
<1> QED
  BY <1>1, UrlsHold, PTL
=============================================================================
