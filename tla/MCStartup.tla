------------------------------- MODULE MCStartup -------------------------------
(* Instance of the start of the gateway for TLC: a migration of two         *)
(* statements, V006, and one that is a transaction.                         *)
EXTENDS Startup
MCStatements == <<2, 2, 1>>
=============================================================================
