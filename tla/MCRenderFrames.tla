--------------------------- MODULE MCRenderFrames ---------------------------
(* Instances of RenderFrames for TLC. *)
EXTENDS RenderFrames

CONSTANT o1
=============================================================================
