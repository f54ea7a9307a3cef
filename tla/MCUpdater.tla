------------------------------ MODULE MCUpdater -----------------------------
(***************************************************************************)
(* Instances of Updater for TLC.                                           *)
(***************************************************************************)
EXTENDS Updater, TLC

CONSTANTS a, b, c, i1, i2

MCPeerIds == {a, b}
MCPeerIds3 == {a, b, c}
MCMailboxCap == [sender |-> 1, updater |-> 2]

Symmetry == Permutations({a, b, c})
=============================================================================
