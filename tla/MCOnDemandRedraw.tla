-------------------------- MODULE MCOnDemandRedraw --------------------------
(* Instances of OnDemandRedraw for TLC. *)
EXTENDS OnDemandRedraw
=============================================================================
