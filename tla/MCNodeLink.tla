------------------------------- MODULE MCNodeLink -------------------------------
(* Instances of NodeLink for TLC. *)
EXTENDS NodeLink
=============================================================================
