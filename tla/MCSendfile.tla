----------------------------- MODULE MCSendfile -----------------------------
(* Instances of Sendfile for TLC. *)
EXTENDS Sendfile

\* A bare terminator is the shortest head there can be; the end of the other one is not at its
\* beginning, so that more than three of its bytes can come before its end.
Bare == <<CR, LF, CR, LF>>
Short == <<Other, CR, LF, CR, LF>>

Answer(head, file, get, offset, length) ==
  [head |-> head, file |-> file, get |-> get, offset |-> offset, length |-> length]

\* A whole file of a frame and a shorter one, a range that ends at the end of the file, a HEAD
\* and an empty file.  The proofs are for any set of answers, those with an ordinary body too.
Mixed == {Answer(Bare, TRUE, TRUE, 0, 3), Answer(Short, TRUE, TRUE, 2, 1),
          Answer(Bare, TRUE, FALSE, 0, 3), Answer(Bare, TRUE, TRUE, 0, 0)}
=============================================================================
