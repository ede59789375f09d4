--------------------------- MODULE MCRevalidation ---------------------------
(* Instances of Revalidation for TLC. *)
EXTENDS Revalidation

\* A time before the epoch, and two in the same second.
SomeTimes == {-1, 2, 3}
=============================================================================
