------------------------------ MODULE HttpWire ------------------------------
(***************************************************************************)
(* What a keep-alive HTTP/1 connection promises its peer, whatever moves   *)
(* the bytes: responses are answered one after the other, the bytes on the *)
(* wire are at every moment a prefix of the bytes promised so far, and the *)
(* connection is closed in good order only when everything promised has    *)
(* been sent.  It may be aborted at any time.                              *)
(*                                                                         *)
(* This is the claim of the SendfileStream documentation ("Byte counts and *)
(* ordering are preserved exactly, so Hyper's framing, Content-Length      *)
(* accounting and keep-alive are unaffected"); module Sendfile implements  *)
(* it.                                                                     *)
(***************************************************************************)
EXTENDS Integers, Sequences

VARIABLES
  wire,      \* every byte the peer's side of the connection has been given
  expected,  \* every byte of every response answered so far
  status     \* "open", "closed" (in good order) or "aborted"

vars == <<wire, expected, status>>

IsPrefixOf(s, t) == /\ Len(s) <= Len(t)
                    /\ \A i \in 1..Len(s) : s[i] = t[i]

Init == /\ wire = <<>>
        /\ expected = <<>>
        /\ status = "open"

\* The next response: only after the previous one has been sent completely.
Answer == /\ status = "open"
          /\ wire = expected
          /\ IsPrefixOf(expected, expected')
          /\ UNCHANGED <<wire, status>>

Transmit == /\ status = "open"
            /\ IsPrefixOf(wire, wire')
            /\ IsPrefixOf(wire', expected)
            /\ UNCHANGED <<expected, status>>

Close == /\ status = "open"
         /\ wire = expected
         /\ status' = "closed"
         /\ UNCHANGED <<wire, expected>>

Abort == /\ status = "open"
         /\ status' = "aborted"
         /\ UNCHANGED <<wire, expected>>

Next == Answer \/ Transmit \/ Close \/ Abort

Spec == Init /\ [][Next]_vars
=============================================================================
