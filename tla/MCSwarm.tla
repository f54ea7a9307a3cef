------------------------------ MODULE MCSwarm -------------------------------
(***************************************************************************)
(* Instances of Swarm for TLC.                                             *)
(***************************************************************************)
EXTENDS Swarm, TLC

CONSTANTS n1, n2, n3, b1

MCAddressed == {n1, n2, n3}
MCBare == {b1}
MCNodes == MCAddressed \cup MCBare
MCSymmetry == Permutations(MCAddressed)
=============================================================================
