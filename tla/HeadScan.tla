------------------------------ MODULE HeadScan ------------------------------
(***************************************************************************)
(* The scanner that finds the end of an HTTP/1 response head in a byte     *)
(* stream that arrives in arbitrary pieces: find_head_end and trailing of  *)
(* src/sendfile/src/stream.rs.                                             *)
(*                                                                         *)
(* A byte is represented by its class, which is all the scanner tells      *)
(* apart.  The module has no RECURSIVE operator, so that it can be proved  *)
(* about (Sendfile_proofs).                                                *)
(***************************************************************************)
EXTENDS Integers, Sequences

CR == "CR"
LF == "LF"
Other == "other"
ByteClass == {CR, LF, Other}

HEAD_END == <<CR, LF, CR, LF>>

\* find_head_end returns an index or nothing; here, the length of the head
\* (the index plus one), or NotFound.
NotFound == 0

SmallerOf(a, b) == IF a <= b THEN a ELSE b

\* The positions at which a terminator ends in s.
EndsIn(s) == {e \in Len(HEAD_END)..Len(s) :
                \A k \in 1..Len(HEAD_END) : s[e - Len(HEAD_END) + k] = HEAD_END[k]}

\* Where the first terminator of s ends (memmem::find, windows().position()).
FirstEnd(s) == IF EndsIn(s) = {} THEN NotFound
               ELSE CHOOSE e \in EndsIn(s) : \A f \in EndsIn(s) : e <= f

\* Mutant: a window one byte short.
JoinedShort(carry, buf) == carry \o SubSeq(buf, 1, SmallerOf(Len(buf), Len(HEAD_END) - 2))

\* The up-to-three carried bytes followed by the start of the new buffer: the
\* only place a terminator split across calls can be.
Joined(carry, buf) == carry \o SubSeq(buf, 1, SmallerOf(Len(buf), Len(HEAD_END) - 1))

\* Mutant: the carried bytes are forgotten.
FindHeadEndUncarried(carry, buf) == FirstEnd(buf)

FindHeadEnd(carry, buf) ==
  IF carry # <<>> /\ EndsIn(Joined(carry, buf)) # {}
  THEN FirstEnd(Joined(carry, buf)) - Len(carry)
  ELSE FirstEnd(buf)

LastThree(s) == SubSeq(s, Len(s) - SmallerOf(Len(s), 3) + 1, Len(s))

\* Mutant: one byte too many for the array.
TrailingFour(carry, buf) ==
  LET all == carry \o buf IN SubSeq(all, Len(all) - SmallerOf(Len(all), 4) + 1, Len(all))

\* The last up-to-three bytes of carry followed by buf.
Trailing(carry, buf) == LastThree(carry \o buf)
=============================================================================
