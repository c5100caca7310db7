----------------------------- MODULE MCClientSocket -----------------------------
(* Instances of ClientSocket for TLC. *)
EXTENDS ClientSocket
=============================================================================
