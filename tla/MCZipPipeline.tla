--------------------------- MODULE MCZipPipeline ---------------------------
(* Instance of ZipPipeline for TLC. *)
EXTENDS ZipPipeline

CONSTANTS d, f, g

\* A directory with two files.
TwoFiles == <<d, f, g>>
=============================================================================
