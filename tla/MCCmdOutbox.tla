----------------------------- MODULE MCCmdOutbox ------------------------------
(* Instances of the command plane for TLC. *)
EXTENDS CmdOutboxProps, TLC

\* Commands are interchangeable.
CmdSymmetry == Permutations(CmdIds)
=============================================================================
