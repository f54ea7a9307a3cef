------------------------------ MODULE MCSender ------------------------------
(***************************************************************************)
(* Instances of Sender for TLC: mailbox sizes and the inputs of each run.  *)
(***************************************************************************)
EXTENDS Sender

CONSTANTS self, p, i1

MCPeerIds == {self, p}
MCMailboxCap == [sender |-> 4, updater |-> 1]
=============================================================================
