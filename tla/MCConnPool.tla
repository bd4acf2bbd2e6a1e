------------------------------ MODULE MCConnPool -------------------------------
(* Instance of the connection pool for TLC. *)
EXTENDS ConnPool
=============================================================================
