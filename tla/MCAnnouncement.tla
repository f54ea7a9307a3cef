--------------------------- MODULE MCAnnouncement ---------------------------
(***************************************************************************)
(* Instances of Announcement for TLC, with short limits: labels of at most *)
(* four bytes, texts of at most three.                                     *)
(***************************************************************************)
EXTENDS Announcement

CONSTANTS peer, longest, oversize, service, udp, local, t, eq

MCLabels == {peer, longest, oversize, service, udp, local}
MCLabelLen == [l \in MCLabels |->
                 CASE l = oversize -> 5 [] l = longest -> 3 [] OTHER -> 1]
MCPeerNames == {<<peer>>, <<peer, peer>>, <<longest>>, <<oversize>>}
MCServiceName == <<service, udp, local>>
MCLocal == <<local>>
MCBytes == {t, eq}
MCPortLen == [p \in Ports |-> 1]

(* "=" sorts before letters, and a prefix before what it is a prefix of.   *)
MCKeySeq == << <<t>>, <<t, eq, t>>, <<t, t>> >>
MCValues == { <<>>, <<eq, t>> }

Symmetry == Permutations(Ports) \cup Permutations(Ips)
=============================================================================
