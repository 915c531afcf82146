--------------------------- MODULE MCStateBuffers ---------------------------
(* Instances of StateBuffers for TLC. *)
EXTENDS StateBuffers

CONSTANTS camera, entity
=============================================================================
