-------------------------- MODULE MCTCPConnection --------------------------
(* Instances of TCPConnection for TLC; the sizes are in the .cfg files. *)
EXTENDS TCPConnection
=============================================================================
