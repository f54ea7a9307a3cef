-------------------------------- MODULE MCNode -------------------------------
(***************************************************************************)
(* Instances of Node for TLC.                                              *)
(***************************************************************************)
EXTENDS Node

CONSTANTS self, p, i1, i2

MCPeerIds == {self, p}
MCMailboxCap == [sender |-> 2, updater |-> 1]
=============================================================================
