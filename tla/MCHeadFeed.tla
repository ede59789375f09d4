---------------------------- MODULE MCHeadFeed ----------------------------
(* Instance of HeadFeed for TLC: every cut of every head of up to MaxHead  *)
(* bytes into pieces of one to MaxPiece bytes.                             *)
EXTENDS HeadFeed

CONSTANT MaxPiece

AllPieces == UNION {[1..n -> ByteClass] : n \in 1..MaxPiece}
=============================================================================
