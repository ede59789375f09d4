------------------------------ MODULE HeadFeed ------------------------------
(***************************************************************************)
(* write_head as a scanner: Hyper hands the head over in pieces cut        *)
(* anywhere, each call scans one piece and remembers at most three bytes   *)
(* for the next (State::Head of src/sendfile/src/stream.rs).  The call     *)
(* that finds the end takes the plan and ends the scanning.                *)
(* Its names are its own, so that the proofs of Sendfile may extend those  *)
(* of the scanner (Sendfile_proofs).                                       *)
(***************************************************************************)
EXTENDS HeadScan

CONSTANTS
  Pieces,   \* the buffers Hyper may pass to one call
  MaxHead   \* bound on the bytes handed over

ASSUME PiecesAssumption == Pieces \subseteq Seq(ByteClass) /\ MaxHead \in Nat

VARIABLES
  fed,     \* everything handed over so far
  carried,  \* State::Head { carry, len }
  headEnd  \* length of the head, once found

feedVars == <<fed, carried, headEnd>>

FeedInit == fed = <<>> /\ carried = <<>> /\ headEnd = NotFound

WriteHead(buf) ==
  /\ headEnd = NotFound
  /\ Len(fed) + Len(buf) <= MaxHead
  /\ fed' = fed \o buf
  /\ IF FindHeadEnd(carried, buf) # NotFound
     THEN headEnd' = Len(fed) + FindHeadEnd(carried, buf) /\ UNCHANGED carried
     ELSE carried' = Trailing(carried, buf) /\ UNCHANGED headEnd

FeedNext == \E buf \in Pieces : WriteHead(buf)

FeedSpec == FeedInit /\ [][FeedNext]_feedVars

-----------------------------------------------------------------------------
\* However the head is cut, the end found is the first CRLFCRLF of the whole,
\* exactly in the call in which it is complete: nothing after it is taken for
\* head, nothing before it for a placeholder (find_head_end, trailing).
EndIsFirst == headEnd = FirstEnd(fed)

\* The bytes carried are the last three handed over; three are enough for a
\* terminator of four, and State::Head's array holds no more.
CarryIsTail == headEnd = NotFound => carried = LastThree(fed)

FeedTypeOK == /\ fed \in Seq(ByteClass)
              /\ carried \in Seq(ByteClass)
              /\ headEnd \in Nat
=============================================================================
