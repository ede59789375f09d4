--------------------------- MODULE MCPullClient ---------------------------
(* Instances of PullClient for TLC. *)
EXTENDS PullClient, TLC

CONSTANTS a, root, sub, v1, v2

\* A directory in the root, with a file; the versions are of two bytes and of none.
Nested  == root :> {sub} @@ sub :> {a}
OneFile == root :> {a}
TwoBytesOrNone == v1 :> 2 @@ v2 :> 0
AnyTarget == {<<root, "Auto">>, <<root, "Dir">>, <<a, "Auto">>, <<a, "File">>, <<a, "Dir">>}
=============================================================================
