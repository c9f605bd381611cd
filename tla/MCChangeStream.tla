--------------------------- MODULE MCChangeStream ---------------------------
(* A small instance of ChangeStream for TLC. *)
EXTENDS ChangeStream

CONSTANTS s1, s2, s3, rename, deactivate
=============================================================================
