--------------------------- MODULE MCActiveScene ---------------------------
(* Instances of ActiveScene for TLC. *)
EXTENDS ActiveScene

CONSTANTS lit, plain, main, loader
=============================================================================
