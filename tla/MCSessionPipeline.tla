------------------------- MODULE MCSessionPipeline -------------------------
(***************************************************************************)
(* SessionPipeline for TLC.                                                *)
(***************************************************************************)
EXTENDS SessionPipeline

CONSTANT s1  \* a session
=============================================================================
