--------------------------- MODULE MCTransferPool ---------------------------
(* Instances of TransferPool for TLC. *)
EXTENDS TransferPool

CONSTANTS mesh, texture, texture2

\* Of each kind one that is small and one that is not.
MCBytes == [t \in Target |-> IF t \in {mesh, texture} THEN 1 ELSE 2]
=============================================================================
