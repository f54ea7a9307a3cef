---------------------------- MODULE ActorsProofs ----------------------------
(***************************************************************************)
(* Facts about mailboxes and peer tables that the proofs about the actors  *)
(* share.                                                                  *)
(***************************************************************************)
EXTENDS Actors, FiniteSetTheorems, SequenceTheorems, TLAPS

(* What recv leaves in a mailbox.                                          *)
LEMMA HeadAndTail ==
  ASSUME NEW S, NEW box \in Seq(S), box # <<>>
  PROVE  /\ Head(box) \in S
         /\ Head(box) = box[1]
         /\ Tail(box) \in Seq(S)
         /\ Len(box) \in Nat \ {0}
         /\ Len(Tail(box)) = Len(box) - 1
         /\ \A i \in 1..Len(Tail(box)) : Tail(box)[i] = box[i + 1]
  <1>1. Head(box) \in S /\ Tail(box) \in Seq(S)
    BY HeadTailProperties
  <1>2. Len(box) \in Nat \ {0}
    BY EmptySeq, LenProperties
  <1>3. Len(Tail(box)) = Len(box) - 1
    BY HeadTailProperties
  <1>4. \A i \in 1..Len(Tail(box)) : Tail(box)[i] = box[i + 1]
    BY HeadTailProperties
  <1>5. Head(box) = box[1]
    OBVIOUS
  <1> QED BY <1>1, <1>2, <1>3, <1>4, <1>5

(* A send leaves the mailbox as it is or appends the message to it.        *)
LEMMA SendToFacts ==
  ASSUME NEW S, NEW box \in Seq(S), NEW m \in S, NEW x
  PROVE  /\ SendTo(x, box, m) \in Seq(S)
         /\ IF Accepts(x, box)
            THEN /\ Len(SendTo(x, box, m)) = Len(box) + 1
                 /\ SendTo(x, box, m)[Len(box) + 1] = m
                 /\ \A i \in 1..Len(box) : SendTo(x, box, m)[i] = box[i]
            ELSE SendTo(x, box, m) = box
         /\ Len(box) \in Nat
BY AppendProperties, LenProperties DEF SendTo

LEMMA PeerMapFacts ==
  ASSUME NEW p
  PROVE  p \in PeerMap <=> /\ p = [id \in DOMAIN p |-> p[id]]
                           /\ DOMAIN p \subseteq PeerIds
                           /\ \A id \in DOMAIN p : p[id] \in Peer
  <1>1. ASSUME p \in PeerMap
        PROVE  /\ p = [id \in DOMAIN p |-> p[id]]
               /\ DOMAIN p \subseteq PeerIds
               /\ \A id \in DOMAIN p : p[id] \in Peer
    <2>1. PICK S \in SUBSET PeerIds : p \in [S -> Peer]
      BY <1>1 DEF PeerMap
    <2> QED BY <2>1
  <1>2. ASSUME /\ p = [id \in DOMAIN p |-> p[id]]
               /\ DOMAIN p \subseteq PeerIds
               /\ \A id \in DOMAIN p : p[id] \in Peer
        PROVE  p \in PeerMap
    <2>1. p \in [DOMAIN p -> Peer]
      BY <1>2
    <2> QED BY <1>2, <2>1 DEF PeerMap
  <1> QED BY <1>1, <1>2

LEMMA PeerMapSize ==
  ASSUME NEW p \in PeerMap
  PROVE  IsFiniteSet(DOMAIN p) /\ Cardinality(DOMAIN p) \in Nat
  <1>1. IsFiniteSet(DOMAIN p)
    BY PeerMapFacts, FS_Subset, ActorsAssumption DEF ActorsAssumption
  <1> QED BY <1>1, FS_CardinalityType

(* A tick leaves the contents of a table alone and its ages in range.      *)
LEMMA AgedPeersFacts ==
  ASSUME NEW p \in PeerMap
  PROVE  /\ AgedPeers(p) \in PeerMap
         /\ DOMAIN AgedPeers(p) = DOMAIN p
         /\ \A id \in DOMAIN p :
              /\ AgedPeers(p)[id].info = p[id].info
              /\ AgedPeers(p)[id].age = MinOf(p[id].age + 1, MaxAge)
  <1>1. \A id \in DOMAIN p : p[id] \in [info : Infos, age : 0..MaxAge]
    BY PeerMapFacts DEF Peer
  <1>2. \A id \in DOMAIN p : MinOf(p[id].age + 1, MaxAge) \in 0..MaxAge
    BY <1>1, ActorsAssumption DEF MinOf, ActorsAssumption
  <1>3. \A id \in DOMAIN p :
          /\ AgedPeers(p)[id].info = p[id].info
          /\ AgedPeers(p)[id].age = MinOf(p[id].age + 1, MaxAge)
          /\ AgedPeers(p)[id] \in Peer
    BY <1>1, <1>2 DEF AgedPeers, Peer
  <1>4. AgedPeers(p) = [id \in DOMAIN p |-> AgedPeers(p)[id]]
    BY DEF AgedPeers
  <1>5. DOMAIN AgedPeers(p) = DOMAIN p
    BY DEF AgedPeers
  <1>6. DOMAIN p \subseteq PeerIds
    BY PeerMapFacts
  <1>7. AgedPeers(p) \in [DOMAIN p -> Peer]
    BY <1>3, <1>4, <1>5
  <1> QED BY <1>3, <1>5, <1>6, <1>7 DEF PeerMap

LEMMA AgedMailboxFacts ==
  ASSUME NEW box \in Seq(UpdaterInput)
  PROVE  /\ AgedMailbox(box) \in Seq(UpdaterInput)
         /\ Len(AgedMailbox(box)) = Len(box)
         /\ \A i \in 1..Len(box) : AgedMailbox(box)[i].type = box[i].type
  <1>1. DOMAIN box = 1..Len(box) /\ Len(box) \in Nat
    BY LenProperties
  <1>2. ASSUME NEW i \in 1..Len(box)
        PROVE  /\ AgedMailbox(box)[i] \in UpdaterInput
               /\ AgedMailbox(box)[i].type = box[i].type
    <2>1. box[i] \in UpdaterInput
      BY ElementOfSeq
    <2>2. CASE box[i].type = "Peers"
      <3>1. box[i] \in [type : {"Peers"}, peers : PeerMap]
        BY <2>1, <2>2 DEF UpdaterInput
      <3>2. AgedPeers(box[i].peers) \in PeerMap
        BY <3>1, AgedPeersFacts
      <3>3. AgedMailbox(box)[i]
              = [box[i] EXCEPT !.peers = AgedPeers(box[i].peers)]
        BY <1>1, <2>2 DEF AgedMailbox
      <3> QED BY <3>1, <3>2, <3>3 DEF UpdaterInput
    <2>3. CASE box[i].type # "Peers"
      <3>1. box[i].type # "Response"
        BY <2>1 DEF UpdaterInput
      <3>2. AgedMailbox(box)[i] = box[i]
        BY <1>1, <2>3, <3>1 DEF AgedMailbox
      <3> QED BY <2>1, <3>2
    <2> QED BY <2>2, <2>3
  <1>3. AgedMailbox(box) = [i \in 1..Len(box) |-> AgedMailbox(box)[i]]
    BY <1>1 DEF AgedMailbox
  <1>4. AgedMailbox(box) \in Seq(UpdaterInput)
    BY <1>1, <1>2, <1>3, SeqDef
  <1>5. Len(AgedMailbox(box)) = Len(box)
    BY <1>1, <1>3, <1>4, LenProperties
  <1> QED BY <1>2, <1>4, <1>5

(* The clock ages the peers of a Response and nothing else.                *)
LEMMA AgedSenderMailbox ==
  ASSUME NEW box \in Seq(MdnsMsg)
  PROVE  /\ AgedMailbox(box) \in Seq(MdnsMsg)
         /\ Len(AgedMailbox(box)) = Len(box)
         /\ \A i \in 1..Len(box) :
              /\ AgedMailbox(box)[i].type = box[i].type
              /\ box[i].type # "Response" => AgedMailbox(box)[i] = box[i]
  <1>1. DOMAIN box = 1..Len(box) /\ Len(box) \in Nat
    BY LenProperties
  <1>2. ASSUME NEW i \in 1..Len(box)
        PROVE  /\ AgedMailbox(box)[i] \in MdnsMsg
               /\ AgedMailbox(box)[i].type = box[i].type
               /\ box[i].type # "Response" => AgedMailbox(box)[i] = box[i]
    <2>1. box[i] \in MdnsMsg
      BY ElementOfSeq
    <2>2. CASE box[i].type = "Response"
      <3>1. box[i] \in [type : {"Response"}, peers : PeerMap]
        BY <2>1, <2>2 DEF MdnsMsg, QueryTypes
      <3>2. AgedPeers(box[i].peers) \in PeerMap
        BY <3>1, AgedPeersFacts
      <3>3. AgedMailbox(box)[i]
              = [box[i] EXCEPT !.peers = AgedPeers(box[i].peers)]
        BY <1>1, <2>2 DEF AgedMailbox
      <3> QED BY <2>2, <3>1, <3>2, <3>3 DEF MdnsMsg
    <2>3. CASE box[i].type # "Response"
      <3>1. box[i].type # "Peers"
        BY <2>1 DEF MdnsMsg, QueryTypes
      <3>2. AgedMailbox(box)[i] = box[i]
        BY <1>1, <2>3, <3>1 DEF AgedMailbox
      <3> QED BY <2>1, <3>2
    <2> QED BY <2>2, <2>3
  <1>3. AgedMailbox(box) = [i \in 1..Len(box) |-> AgedMailbox(box)[i]]
    BY <1>1 DEF AgedMailbox
  <1>4. AgedMailbox(box) \in Seq(MdnsMsg)
    BY <1>1, <1>2, <1>3, SeqDef
  <1>5. Len(AgedMailbox(box)) = Len(box)
    BY <1>1, <1>3, <1>4, LenProperties
  <1> QED BY <1>2, <1>4, <1>5

(* A tick leaves the carriers of a peer where they are, one tick older.    *)
LEMMA AgedCarriers ==
  ASSUME NEW box, box \in Seq(MdnsMsg) \/ box \in Seq(UpdaterInput), NEW id
  PROVE  /\ Carriers(AgedMailbox(box), id) = Carriers(box, id)
         /\ \A i \in Carriers(box, id) :
              /\ AgedMailbox(box)[i].peers[id].info = box[i].peers[id].info
              /\ AgedMailbox(box)[i].peers[id].age
                   = MinOf(box[i].peers[id].age + 1, MaxAge)
  <1> DEFINE aged == AgedMailbox(box)
  <1>1. /\ Len(aged) = Len(box) /\ Len(box) \in Nat
        /\ \A i \in 1..Len(box) : aged[i].type = box[i].type
    BY AgedSenderMailbox, AgedMailboxFacts, LenProperties
  <1>2. ASSUME NEW i \in 1..Len(box), box[i].type \in {"Response", "Peers"}
        PROVE  aged[i].peers = AgedPeers(box[i].peers) /\ box[i].peers \in PeerMap
    <2>1. box[i] \in MdnsMsg \/ box[i] \in UpdaterInput
      BY ElementOfSeq
    <2>2. \/ box[i] \in [type : {"Response"}, peers : PeerMap]
          \/ box[i] \in [type : {"Peers"}, peers : PeerMap]
      BY <1>2, <2>1 DEF MdnsMsg, UpdaterInput, QueryTypes
    <2>3. DOMAIN box = 1..Len(box)
      BY LenProperties
    <2>4. aged[i] = [box[i] EXCEPT !.peers = AgedPeers(box[i].peers)]
      BY <1>2, <2>3 DEF AgedMailbox
    <2> QED BY <2>2, <2>4
  <1> HIDE DEF aged
  <1>3. ASSUME NEW i \in 1..Len(box)
        PROVE  Carries(aged[i], id) <=> Carries(box[i], id)
    BY <1>1, <1>2, <1>3, AgedPeersFacts DEF Carries
  <1>4. Carriers(aged, id) = Carriers(box, id)
    BY <1>1, <1>3 DEF Carriers
  <1>5. ASSUME NEW i \in Carriers(box, id)
        PROVE  /\ aged[i].peers[id].info = box[i].peers[id].info
               /\ aged[i].peers[id].age = MinOf(box[i].peers[id].age + 1, MaxAge)
    BY <1>2, <1>5, AgedPeersFacts DEF Carriers, Carries
  <1> QED BY <1>4, <1>5 DEF aged

(* The announcements in a mailbox are well-formed.                         *)
LEMMA CarriedInfo ==
  ASSUME NEW box, box \in Seq(MdnsMsg) \/ box \in Seq(UpdaterInput),
         NEW id, NEW i \in Carriers(box, id)
  PROVE  /\ box[i].peers \in PeerMap
         /\ box[i].peers[id].info \in Infos
         /\ box[i].peers[id].age \in 0..MaxAge
  <1>1. box[i].type \in {"Response", "Peers"} /\ id \in DOMAIN box[i].peers
    BY DEF Carriers, Carries
  <1>2. box[i] \in MdnsMsg \/ box[i] \in UpdaterInput
    BY ElementOfSeq DEF Carriers
  <1>3. box[i].peers \in PeerMap
    BY <1>1, <1>2 DEF MdnsMsg, UpdaterInput, QueryTypes
  <1>4. box[i].peers[id] \in Peer
    BY <1>1, <1>3, PeerMapFacts
  <1> QED BY <1>3, <1>4 DEF Peer
=============================================================================
