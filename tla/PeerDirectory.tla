---------------------------- MODULE PeerDirectory ---------------------------
(***************************************************************************)
(* The directory of peers that the updater keeps for its application: each *)
(* peer as it announced itself last, until it was silent for as long as    *)
(* the updater's own comments reckon with (updater.rs, lines 53 and 56).   *)
(* The documentation promises less: README (Algorithm) and with_callback   *)
(* let a peer go after three times the swarm size divided by the response  *)
(* rate, however small the swarm is; see LongSilent, and PrunedInTime in   *)
(* Updater.                                                                *)
(***************************************************************************)
EXTENDS Naturals, FiniteSets

CONSTANTS
  PeerIds, Infos, MaxAge, Tau, Cutoff, Unknown,
  Skew   \* clock ticks by which two announcements of a peer that came in at
         \* the same time may arrive in the wrong order

VARIABLES
  view,      \* what the application knows of each peer
  silence    \* clock ticks since each known peer was last heard

dirVars == <<view, silence>>

Known == {id \in PeerIds : view[id] # Unknown}

(* A peer was silent for three cadences of Tau ticks, one in each of which *)
(* it would have had its turn in a small swarm, and for three times the    *)
(* time in which all known peers have theirs, Cutoff in every cadence.     *)
(* The second part is what the documentation says, 3 S / phi with Cutoff   *)
(* for tau * phi; the first is the code's alone.                           *)
LongSilent(id) ==
  /\ silence[id] >= 3 * Tau
  /\ silence[id] * Cutoff >= 3 * Cardinality(Known) * Tau
-----------------------------------------------------------------------------
DirInit ==
  /\ view = [id \in PeerIds |-> Unknown]
  /\ silence = [id \in PeerIds |-> 0]

(* A peer is discovered, or announces itself again.  What it announced may *)
(* have been on its way for some time, but it was heard later than what is *)
(* known already.                                                          *)
Learn(id, info, age) ==
  /\ id \in Known => age <= silence[id] + Skew
  /\ view' = [view EXCEPT ![id] = info]
  /\ silence' = [silence EXCEPT ![id] = age]

(* Some peers are given up.                                                *)
Forget(S) ==
  /\ \A id \in S : id \in Known /\ LongSilent(id)
  /\ view' = [id \in PeerIds |-> IF id \in S THEN Unknown ELSE view[id]]
  /\ silence' = [id \in PeerIds |-> IF id \in S THEN 0 ELSE silence[id]]

Silence ==
  /\ silence' = [id \in PeerIds |->
                   IF id \in Known /\ silence[id] < MaxAge
                   THEN silence[id] + 1 ELSE silence[id]]
  /\ UNCHANGED view

DirNext ==
  \/ \E id \in PeerIds, info \in Infos, age \in 0..MaxAge : Learn(id, info, age)
  \/ \E S \in SUBSET PeerIds : Forget(S)
  \/ Silence

DirSpec == DirInit /\ [][DirNext]_dirVars
=============================================================================
