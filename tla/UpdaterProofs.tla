---------------------------- MODULE UpdaterProofs ---------------------------
(***************************************************************************)
(* Proofs about the updater: its types, the chain of GC tasks, the match   *)
(* of the application's picture with the table, and that the updater       *)
(* implements PeerDirectory.                                               *)
(***************************************************************************)
EXTENDS Updater, ActorsProofs

(* The table after one announcement.                                       *)
LEMMA TableInsert ==
  ASSUME NEW p \in PeerMap, NEW id \in PeerIds, NEW r \in Peer
  PROVE  [x \in DOMAIN p \cup {id} |-> IF x = id THEN r ELSE p[x]] \in PeerMap
  <1> DEFINE q == [x \in DOMAIN p \cup {id} |-> IF x = id THEN r ELSE p[x]]
  <1>1. DOMAIN q \subseteq PeerIds /\ q = [x \in DOMAIN q |-> q[x]]
    BY PeerMapFacts
  <1>2. \A x \in DOMAIN q : q[x] \in Peer
    BY PeerMapFacts
  <1> QED BY <1>1, <1>2, PeerMapFacts

LEMMA TableRestrict ==
  ASSUME NEW p \in PeerMap, NEW S \in SUBSET DOMAIN p
  PROVE  [x \in S |-> p[x]] \in PeerMap
  <1> DEFINE q == [x \in S |-> p[x]]
  <1>1. DOMAIN q \subseteq PeerIds /\ q = [x \in DOMAIN q |-> q[x]]
    BY PeerMapFacts
  <1>2. \A x \in DOMAIN q : q[x] \in Peer
    BY PeerMapFacts
  <1> QED BY <1>1, <1>2, PeerMapFacts

LEMMA EmptyTable == <<>> \in PeerMap
  <1>1. DOMAIN <<>> = {} /\ <<>> = [x \in {} |-> <<>>[x]]
    OBVIOUS
  <1> QED BY <1>1, PeerMapFacts

LEMMA PeersMsgFields ==
  ASSUME NEW m \in UpdaterInput, m.type = "Peers"
  PROVE  m.peers \in PeerMap
BY DEF UpdaterInput

LEMMA BatchesAreMaps == Batches \subseteq PeerMap
  <1>1. [info : Infos, age : StampAges] \subseteq Peer
    BY UpdaterAssumption DEF Peer, UpdaterAssumption
  <1>2. ASSUME NEW p \in Batches PROVE p \in PeerMap
    <2>1. PICK S \in SUBSET PeerIds : p \in [S -> [info : Infos, age : StampAges]]
      BY DEF Batches
    <2>2. p \in [S -> Peer]
      BY <1>1, <2>1
    <2> QED BY <2>2 DEF PeerMap
  <1> QED BY <1>2

(* A reported size is a message the sender understands.                    *)
LEMMA NotifyType ==
  ASSUME UpdaterTypeOK, NEW n \in Nat, NotifySize(n)
  PROVE  sender_mailbox' \in Seq(MdnsMsg)
  <1>1. SizeUpdateMsg(n) \in MdnsMsg
    BY DEF SizeUpdateMsg, MdnsMsg
  <1> QED BY <1>1, SendToFacts DEF NotifySize, UpdaterTypeOK, ActorsTypeOK

LEMMA TakeType ==
  ASSUME UpdaterTypeOK, NEW t, Take(t)
  PROVE  /\ updater_mailbox' \in Seq(UpdaterInput)
         /\ Head(updater_mailbox) \in UpdaterInput
         /\ Head(updater_mailbox).type = t
BY HeadAndTail DEF Take, Receives, UpdaterTypeOK, ActorsTypeOK
-----------------------------------------------------------------------------
(* The type invariant.                                                     *)

LEMMA UpdaterTypeInit == UInit => UpdaterTypeOK
  <1> SUFFICES ASSUME UInit PROVE UpdaterTypeOK
    OBVIOUS
  <1>1. ActorsTypeOK
    BY DEF UInit, ActorsInit, ActorsTypeOK, SizeSubscriptionMsg, UpdaterInput
  <1>2. peers \in PeerMap /\ batch \in PeerMap
    BY EmptyTable DEF UInit, UpdaterInit
  <1> QED BY <1>1, <1>2 DEF UInit, UpdaterInit, UpdaterTypeOK

LEMMA UpdaterTypeStep == UpdaterTypeOK /\ [UNext]_uvars => UpdaterTypeOK'
  <1> SUFFICES ASSUME UpdaterTypeOK, [UNext]_uvars PROVE UpdaterTypeOK'
    OBVIOUS
  <1> USE DEF UpdaterTypeOK, ActorsTypeOK
  <1>1. CASE OnPeers
    BY <1>1, TakeType, PeersMsgFields DEF OnPeers
  <1>2. CASE OnPeer
    <2>1. PICK id \in DOMAIN batch :
            /\ CallBack([x \in {id} |-> batch[id].info])
            /\ peers' = [x \in DOMAIN peers \cup {id} |->
                           IF x = id THEN batch[id] ELSE peers[x]]
            /\ batch' = [x \in DOMAIN batch \ {id} |-> batch[x]]
            /\ IF id \in DOMAIN peers
               THEN UNCHANGED sender_mailbox
               ELSE NotifySize(Cardinality(DOMAIN peers'))
      BY <1>2 DEF OnPeer
    <2>2. id \in PeerIds /\ batch[id] \in Peer
      BY PeerMapFacts
    <2>3. peers' \in PeerMap
      BY <2>1, <2>2, TableInsert
    <2>4. batch' \in PeerMap
      BY <2>1, TableRestrict
    <2>5. view' \in [PeerIds -> Infos \cup {Unknown}]
      BY <2>1, <2>2 DEF CallBack, Peer
    <2>6. sender_mailbox' \in Seq(MdnsMsg)
      BY <2>1, <2>3, PeerMapSize, NotifyType
    <2> QED BY <1>2, <2>3, <2>4, <2>5, <2>6 DEF OnPeer
  <1>3. CASE OnGC
    <2>1. updater_mailbox' \in Seq(UpdaterInput) /\ gc_sleeping' \in Nat
      BY <1>3, TakeType DEF OnGC
    <2>2. CASE DOMAIN peers = {}
      BY <1>3, <2>1, <2>2 DEF OnGC
    <2>3. CASE DOMAIN peers # {}
      <3> DEFINE n == Cardinality(DOMAIN peers)
                 kept == {id \in DOMAIN peers : Keep(peers[id].age, n)}
      <3>1. /\ peers' = [id \in kept |-> peers[id]]
            /\ CallBack([id \in DOMAIN peers \ kept |-> Unknown])
            /\ NotifySize(Cardinality(kept))
        BY <1>3, <2>3 DEF OnGC
      <3>2. kept \in SUBSET DOMAIN peers
        OBVIOUS
      <3> HIDE DEF kept, n
      <3>3. peers' \in PeerMap
        BY <3>1, <3>2, TableRestrict
      <3>4. DOMAIN peers' = kept
        BY <3>1
      <3>5. sender_mailbox' \in Seq(MdnsMsg)
        BY <3>1, <3>3, <3>4, PeerMapSize, NotifyType
      <3>6. view' \in [PeerIds -> Infos \cup {Unknown}]
        BY <3>1 DEF CallBack
      <3> QED BY <1>3, <2>1, <3>3, <3>5, <3>6 DEF OnGC
    <2> QED BY <2>2, <2>3
  <1>4. CASE OnSubscription
    BY <1>4, TakeType DEF OnSubscription
  <1>5. CASE GCWake
    BY <1>5 DEF GCWake, mailboxes
  <1>6. CASE GCSend
    <2>1. GCMsg \in UpdaterInput
      BY DEF GCMsg, UpdaterInput
    <2>2. updater_mailbox' \in Seq(UpdaterInput)
      BY <1>6, <2>1, SendToFacts DEF GCSend
    <2> QED BY <1>6, <2>2 DEF GCSend
  <1>7. CASE Tick
    BY <1>7, AgedPeersFacts, AgedMailboxFacts DEF Tick, AgeTable
  <1>8. CASE SenderStub
    <2>1. CASE /\ sender_mailbox # <<>>
               /\ sender_mailbox' = Tail(sender_mailbox)
               /\ UNCHANGED updater_mailbox
      BY <1>8, <2>1, HeadAndTail DEF SenderStub, updaterVars
    <2>2. CASE /\ \E p \in Batches : updater_mailbox' =
                    SendTo("updater", updater_mailbox, PeersMsg(p))
               /\ UNCHANGED sender_mailbox
      <3>1. PICK p \in Batches : updater_mailbox' =
              SendTo("updater", updater_mailbox, PeersMsg(p))
        BY <2>2
      <3>2. PeersMsg(p) \in UpdaterInput
        BY BatchesAreMaps DEF PeersMsg, UpdaterInput
      <3>3. updater_mailbox' \in Seq(UpdaterInput)
        BY <3>1, <3>2, SendToFacts
      <3> QED BY <1>8, <2>2, <3>3 DEF SenderStub, updaterVars
    <2> QED BY <1>8, <2>1, <2>2 DEF SenderStub
  <1>9. CASE Drop
    <2>1. <<>> \in Seq(UpdaterInput) /\ <<>> \in Seq(MdnsMsg)
      BY EmptySeq
    <2> QED BY <1>9, <2>1
            DEF Drop, StopUpdater, AbortUpdater, AbortSender, updaterVars
  <1>10. CASE UNCHANGED uvars
    BY <1>10 DEF uvars, mailboxes, updaterVars
  <1> QED BY <1>1, <1>2, <1>3, <1>4, <1>5, <1>6, <1>7, <1>8, <1>9, <1>10
          DEF UNext, UpdaterStep

(* Every behaviour of the updater keeps its variables in their ranges, and *)
(* no size it reports is below zero.                                       *)
THEOREM UpdaterTypeCorrect == USpec => []UpdaterTypeOK
BY UpdaterTypeInit, UpdaterTypeStep, PTL DEF USpec
-----------------------------------------------------------------------------
(* The application's picture and the table.                                *)

(* What one announcement, and one pruning of the peers outside S, do to    *)
(* the table; facts used for the picture and for the refinement.           *)
LEMMA OnPeerFacts ==
  ASSUME UpdaterTypeOK, OnPeer
  PROVE  \E id \in PeerIds, r \in Peer :
           /\ id \in DOMAIN batch /\ r = batch[id]
           /\ DOMAIN peers' = DOMAIN peers \cup {id}
           /\ peers'[id] = r
           /\ \A x \in DOMAIN peers \ {id} : peers'[x] = peers[x]
           /\ view' = [x \in PeerIds |-> IF x = id THEN r.info ELSE view[x]]
  <1>1. PICK id \in DOMAIN batch :
          /\ CallBack([x \in {id} |-> batch[id].info])
          /\ peers' = [x \in DOMAIN peers \cup {id} |->
                         IF x = id THEN batch[id] ELSE peers[x]]
    BY DEF OnPeer
  <1>2. id \in PeerIds /\ batch[id] \in Peer
    BY PeerMapFacts DEF UpdaterTypeOK
  <1>3. view' = [x \in PeerIds |-> IF x = id THEN batch[id].info ELSE view[x]]
    BY <1>1 DEF CallBack
  <1> QED BY <1>1, <1>2, <1>3

LEMMA OnGCFacts ==
  ASSUME UpdaterTypeOK, OnGC, DOMAIN peers # {}
  PROVE  \E kept \in SUBSET DOMAIN peers :
           /\ kept = {id \in DOMAIN peers :
                        Keep(peers[id].age, Cardinality(DOMAIN peers))}
           /\ peers' = [id \in kept |-> peers[id]]
           /\ view' = [x \in PeerIds |->
                         IF x \in DOMAIN peers \ kept THEN Unknown ELSE view[x]]
  <1> DEFINE n == Cardinality(DOMAIN peers)
             kept == {id \in DOMAIN peers : Keep(peers[id].age, n)}
  <1>1. /\ peers' = [id \in kept |-> peers[id]]
        /\ CallBack([id \in DOMAIN peers \ kept |-> Unknown])
    BY DEF OnGC
  <1>2. kept \in SUBSET DOMAIN peers
    OBVIOUS
  <1>3. kept = {id \in DOMAIN peers :
                  Keep(peers[id].age, Cardinality(DOMAIN peers))}
    OBVIOUS
  <1> HIDE DEF kept, n
  <1>4. view' = [x \in PeerIds |->
                   IF x \in DOMAIN peers \ kept THEN Unknown ELSE view[x]]
    BY <1>1 DEF CallBack
  <1> QED BY <1>1, <1>2, <1>3, <1>4

(* Every other step leaves the picture and the announced contents alone.   *)
LEMMA OtherSteps ==
  ASSUME UpdaterTypeOK, [UNext]_uvars, ~OnPeer, ~(OnGC /\ DOMAIN peers # {})
  PROVE  /\ UNCHANGED view
         /\ peers' = peers \/ peers' = AgedPeers(peers)
  <1>1. CASE OnPeers \/ OnSubscription \/ GCWake \/ GCSend
    BY <1>1 DEF OnPeers, OnSubscription, GCWake, GCSend
  <1>2. CASE OnGC /\ DOMAIN peers = {}
    BY <1>2 DEF OnGC
  <1>3. CASE Tick
    BY <1>3 DEF Tick, AgeTable
  <1>4. CASE SenderStub \/ Drop \/ UNCHANGED uvars
    BY <1>4 DEF SenderStub, Drop, StopUpdater, uvars, updaterVars
  <1> QED BY <1>1, <1>2, <1>3, <1>4 DEF UNext, UpdaterStep

LEMMA ViewInit == UInit => ViewMatches
BY DEF UInit, UpdaterInit, ViewMatches

LEMMA ViewAged ==
  ASSUME UpdaterTypeOK, ViewMatches, UNCHANGED view, peers' = AgedPeers(peers)
  PROVE  ViewMatches'
  <1>1. /\ DOMAIN peers' = DOMAIN peers
        /\ \A id \in DOMAIN peers : peers'[id].info = peers[id].info
    BY AgedPeersFacts DEF UpdaterTypeOK
  <1> QED BY <1>1 DEF ViewMatches

LEMMA ViewStep ==
  UpdaterTypeOK /\ ViewMatches /\ [UNext]_uvars => ViewMatches'
  <1> SUFFICES ASSUME UpdaterTypeOK, ViewMatches, [UNext]_uvars
               PROVE  ViewMatches'
    OBVIOUS
  <1>1. CASE OnPeer
    BY <1>1, OnPeerFacts DEF ViewMatches
  <1>2. CASE OnGC /\ DOMAIN peers # {}
    BY <1>2, OnGCFacts DEF ViewMatches
  <1>3. CASE ~OnPeer /\ ~(OnGC /\ DOMAIN peers # {})
    <2>1. UNCHANGED view /\ (peers' = peers \/ peers' = AgedPeers(peers))
      BY <1>3, OtherSteps
    <2> QED BY <2>1, ViewAged DEF ViewMatches
  <1> QED BY <1>1, <1>2, <1>3

(* The application, which only hears callbacks, always has the same        *)
(* picture as the table.                                                   *)
THEOREM UpdaterViewMatches == USpec => []ViewMatches
  <1>1. UInit => UpdaterTypeOK /\ ViewMatches
    BY UpdaterTypeInit, ViewInit
  <1>2. UpdaterTypeOK /\ ViewMatches /\ [UNext]_uvars
          => (UpdaterTypeOK /\ ViewMatches)'
    BY UpdaterTypeStep, ViewStep
  <1> QED BY <1>1, <1>2, PTL DEF USpec
-----------------------------------------------------------------------------
(* The order of announcements, up to the skew of those who stamp them.     *)

(* The ages of what a mailbox, and a table, say of peer id.                *)
Ages(box, id) == {box[i].peers[id].age : i \in Carriers(box, id)}
AgeIn(p, id) == IF id \in DOMAIN p THEN {p[id].age} ELSE {}

NotOlder(b, A) == \A a \in A : b <= a + Skew

(* The announcements in a mailbox were heard in the order of their places, *)
(* and after those whose ages are in A.                                    *)
InLine(box, id, A) ==
  \A i \in Carriers(box, id) :
    /\ NotOlder(box[i].peers[id].age, A)
    /\ \A j \in Carriers(box, id) :
         j < i => box[i].peers[id].age <= box[j].peers[id].age + Skew

(* The ages of what is known of peer id, and of what is being told of it.  *)
AgesHeard(id) == AgeIn(peers, id) \cup AgeIn(batch, id)

InOrder(id) ==
  /\ \A b \in AgeIn(batch, id) : NotOlder(b, AgeIn(peers, id))
  /\ InLine(updater_mailbox, id, AgesHeard(id))

LEMMA AgesTyped ==
  ASSUME NEW id
  PROVE  /\ \A box : box \in Seq(MdnsMsg) \/ box \in Seq(UpdaterInput)
                       => Ages(box, id) \subseteq 0..MaxAge
         /\ \A p \in PeerMap : AgeIn(p, id) \subseteq 0..MaxAge
  <1>1. ASSUME NEW p \in PeerMap, id \in DOMAIN p PROVE p[id].age \in 0..MaxAge
    BY <1>1, PeerMapFacts DEF Peer
  <1> QED BY <1>1, CarriedInfo DEF Ages, AgeIn

LEMMA HeardTyped ==
  ASSUME UpdaterTypeOK, NEW id
  PROVE  AgesHeard(id) \subseteq Nat /\ Ages(updater_mailbox, id) \subseteq Nat
  <1>1. 0..MaxAge \subseteq Nat
    BY ActorsAssumption DEF ActorsAssumption
  <1>2. AgeIn(peers, id) \subseteq 0..MaxAge /\ AgeIn(batch, id) \subseteq 0..MaxAge
    BY AgesTyped DEF UpdaterTypeOK
  <1>3. Ages(updater_mailbox, id) \subseteq 0..MaxAge
    BY AgesTyped DEF UpdaterTypeOK, ActorsTypeOK
  <1> QED BY <1>1, <1>2, <1>3 DEF AgesHeard

LEMMA InLineLess ==
  ASSUME NEW box, NEW id, NEW A, NEW B, B \subseteq A, InLine(box, id, A)
  PROVE  InLine(box, id, B)
BY DEF InLine, NotOlder

LEMMA InLineTail ==
  ASSUME NEW S, NEW box \in Seq(S), box # <<>>, NEW id, NEW A, InLine(box, id, A)
  PROVE  /\ InLine(Tail(box), id, A)
         /\ Ages(Tail(box), id) \subseteq Ages(box, id)
         /\ Carries(Head(box), id) =>
              LET a == Head(box).peers[id].age
              IN  /\ InLine(Tail(box), id, A \cup {a})
                  /\ NotOlder(a, A)
                  /\ a \in Ages(box, id)
  <1> DEFINE tail == Tail(box)
  <1>1. /\ Len(box) \in Nat \ {0} /\ Len(tail) = Len(box) - 1
        /\ Head(box) = box[1]
        /\ \A i \in 1..Len(tail) : tail[i] = box[i + 1]
    BY HeadAndTail
  <1> HIDE DEF tail
  <1>2. ASSUME NEW i \in Carriers(tail, id)
        PROVE  i \in Nat /\ i >= 1 /\ i + 1 \in Carriers(box, id) /\ tail[i] = box[i + 1]
    BY <1>1 DEF Carriers
  <1>3. InLine(tail, id, A)
    <2>1. ASSUME NEW i \in Carriers(tail, id)
          PROVE  NotOlder(tail[i].peers[id].age, A)
      BY <1>2, <2>1 DEF InLine
    <2>2. ASSUME NEW i \in Carriers(tail, id), NEW j \in Carriers(tail, id), j < i
          PROVE  tail[i].peers[id].age <= tail[j].peers[id].age + Skew
      <3>1. j + 1 < i + 1
        BY <1>2, <2>2
      <3> QED BY <1>2, <2>2, <3>1 DEF InLine
    <2> QED BY <2>1, <2>2 DEF InLine
  <1>4. Ages(tail, id) \subseteq Ages(box, id)
    BY <1>2 DEF Ages
  <1>5. ASSUME Carries(Head(box), id)
        PROVE  /\ InLine(tail, id, A \cup {Head(box).peers[id].age})
               /\ NotOlder(Head(box).peers[id].age, A)
               /\ Head(box).peers[id].age \in Ages(box, id)
    <2>1. 1 \in Carriers(box, id)
      BY <1>1, <1>5 DEF Carriers
    <2>2. ASSUME NEW i \in Carriers(tail, id)
          PROVE  tail[i].peers[id].age <= Head(box).peers[id].age + Skew
      <3>1. 1 < i + 1
        BY <1>2, <2>2
      <3> QED BY <1>1, <1>2, <2>1, <2>2, <3>1 DEF InLine
    <2>3. InLine(tail, id, A \cup {Head(box).peers[id].age})
      BY <1>3, <2>2 DEF InLine, NotOlder
    <2> QED BY <1>1, <2>1, <2>3 DEF InLine, Ages
  <1> QED BY <1>3, <1>4, <1>5 DEF tail

LEMMA InLineSend ==
  ASSUME NEW S, NEW box \in Seq(S), NEW m \in S, NEW x, NEW id, NEW A,
         InLine(box, id, A),
         Carries(m, id) => NotOlder(m.peers[id].age, A \cup Ages(box, id))
  PROVE  /\ InLine(SendTo(x, box, m), id, A)
         /\ Ages(SendTo(x, box, m), id)
              \subseteq Ages(box, id) \cup
                        {a \in {m.peers[id].age} : Carries(m, id)}
  <1> DEFINE sent == SendTo(x, box, m)
  <1>1. CASE ~Accepts(x, box)
    BY <1>1 DEF SendTo
  <1>2. CASE Accepts(x, box)
    <2>1. /\ Len(box) \in Nat /\ Len(sent) = Len(box) + 1
          /\ sent[Len(box) + 1] = m
          /\ \A i \in 1..Len(box) : sent[i] = box[i]
      BY <1>2, SendToFacts
    <2> HIDE DEF sent
    <2>2. ASSUME NEW i \in Carriers(sent, id)
          PROVE  \/ i \in Carriers(box, id) /\ sent[i] = box[i] /\ i < Len(box) + 1
                 \/ i = Len(box) + 1 /\ sent[i] = m /\ Carries(m, id)
      BY <2>1 DEF Carriers
    <2>3. ASSUME NEW i \in Carriers(sent, id)
          PROVE  NotOlder(sent[i].peers[id].age, A)
      BY <2>2, <2>3 DEF InLine, NotOlder
    <2>4. ASSUME NEW i \in Carriers(sent, id), NEW j \in Carriers(sent, id), j < i
          PROVE  sent[i].peers[id].age <= sent[j].peers[id].age + Skew
      <3>1. i \in Nat /\ j \in Nat
        BY <2>1 DEF Carriers
      <3>2. j \in Carriers(box, id) /\ sent[j] = box[j]
        BY <2>1, <2>2, <2>4, <3>1
      <3>3. CASE i \in Carriers(box, id) /\ sent[i] = box[i]
        BY <2>4, <3>2, <3>3 DEF InLine
      <3>4. CASE sent[i] = m /\ Carries(m, id)
        BY <3>2, <3>4 DEF NotOlder, Ages
      <3> QED BY <2>2, <3>3, <3>4
    <2>5. InLine(sent, id, A)
      BY <2>3, <2>4 DEF InLine
    <2>6. Ages(sent, id) \subseteq Ages(box, id) \cup
                                   {a \in {m.peers[id].age} : Carries(m, id)}
      BY <2>2 DEF Ages
    <2> QED BY <2>5, <2>6 DEF sent
  <1> QED BY <1>1, <1>2

(* What is on its way grows old at the same pace as what is known.         *)
Older(A) == {MinOf(a + 1, MaxAge) : a \in A}

LEMMA NotOlderAged ==
  ASSUME NEW b \in Nat, NEW A \in SUBSET Nat, NotOlder(b, A)
  PROVE  NotOlder(MinOf(b + 1, MaxAge), Older(A))
  <1>1. ASSUME NEW a \in A
        PROVE  MinOf(b + 1, MaxAge) <= MinOf(a + 1, MaxAge) + Skew
    BY <1>1, ActorsAssumption, UpdaterAssumption
       DEF NotOlder, MinOf, ActorsAssumption, UpdaterAssumption
  <1> QED BY <1>1 DEF NotOlder, Older

LEMMA InLineAged ==
  ASSUME NEW box, box \in Seq(MdnsMsg) \/ box \in Seq(UpdaterInput), NEW id,
         NEW A \in SUBSET Nat, InLine(box, id, A)
  PROVE  /\ InLine(AgedMailbox(box), id, Older(A))
         /\ Ages(AgedMailbox(box), id) \subseteq Older(Ages(box, id))
  <1> DEFINE aged == AgedMailbox(box)
  <1>1. /\ Carriers(aged, id) = Carriers(box, id)
        /\ \A i \in Carriers(box, id) :
             aged[i].peers[id].age = MinOf(box[i].peers[id].age + 1, MaxAge)
    BY AgedCarriers
  <1>2. \A i \in Carriers(box, id) : box[i].peers[id].age \in Nat
    BY CarriedInfo, ActorsAssumption DEF ActorsAssumption
  <1> HIDE DEF aged
  <1>3. ASSUME NEW i \in Carriers(box, id)
        PROVE  NotOlder(aged[i].peers[id].age, Older(A))
    <2>1. NotOlder(box[i].peers[id].age, A)
      BY DEF InLine
    <2> QED BY <1>1, <1>2, <2>1, NotOlderAged
  <1>4. ASSUME NEW i \in Carriers(box, id), NEW j \in Carriers(box, id), j < i
        PROVE  aged[i].peers[id].age <= aged[j].peers[id].age + Skew
    <2>1. box[i].peers[id].age <= box[j].peers[id].age + Skew
      BY <1>4 DEF InLine
    <2> DEFINE A1 == {box[j].peers[id].age}
    <2>2. A1 \in SUBSET Nat /\ NotOlder(box[i].peers[id].age, A1)
      BY <1>2, <2>1 DEF NotOlder
    <2>3. aged[j].peers[id].age \in Older(A1)
      BY <1>1 DEF Older
    <2>4. NotOlder(aged[i].peers[id].age, Older(A1))
      BY <1>1, <1>2, <2>2, NotOlderAged
    <2> QED BY <2>3, <2>4 DEF NotOlder
  <1>5. Ages(aged, id) \subseteq Older(Ages(box, id))
    BY <1>1 DEF Ages, Older
  <1> QED BY <1>1, <1>3, <1>4, <1>5 DEF InLine, aged

LEMMA AgeInAged ==
  ASSUME NEW p \in PeerMap, NEW id
  PROVE  AgeIn(AgedPeers(p), id) = Older(AgeIn(p, id))
BY AgedPeersFacts DEF AgeIn, Older

(* The updater takes a message, or a peer of one.                          *)
LEMMA OrderUpdater ==
  ASSUME UpdaterTypeOK, UpdaterStep, NEW id \in PeerIds, InOrder(id)
  PROVE  /\ InOrder(id)'
         /\ AgesHeard(id)' \cup Ages(updater_mailbox, id)'
              \subseteq AgesHeard(id) \cup Ages(updater_mailbox, id)
  <1> DEFINE u == updater_mailbox
             h == Head(u)
  <1>1. u \in Seq(UpdaterInput) /\ InLine(u, id, AgesHeard(id))
    BY DEF UpdaterTypeOK, ActorsTypeOK, InOrder
  <1>2. ASSUME NEW t, Take(t)
        PROVE  /\ u' = Tail(u) /\ h.type = t /\ DOMAIN batch = {}
               /\ InLine(u', id, AgesHeard(id))
               /\ Ages(u', id) \subseteq Ages(u, id)
               /\ Carries(h, id) =>
                    /\ InLine(u', id, AgesHeard(id) \cup {h.peers[id].age})
                    /\ NotOlder(h.peers[id].age, AgesHeard(id))
                    /\ h.peers[id].age \in Ages(u, id)
    <2>1. u # <<>> /\ u' = Tail(u) /\ h.type = t /\ DOMAIN batch = {}
      BY <1>2 DEF Take, Receives, Idle
    <2> HIDE DEF u
    <2> QED BY <1>1, <2>1, InLineTail
  <1> HIDE DEF u, h
  <1>3. CASE OnPeers
    <2>1. Take("Peers") /\ batch' = h.peers /\ peers' = peers
      BY <1>3 DEF OnPeers, h, u
    <2>2. AgeIn(batch, id)' = {a \in {h.peers[id].age} : Carries(h, id)}
      BY <1>2, <2>1 DEF AgeIn, Carries
    <2>3. AgesHeard(id)' = AgesHeard(id) \cup AgeIn(batch, id)'
      BY <1>2, <2>1 DEF AgesHeard, AgeIn
    <2>4. InLine(u', id, AgesHeard(id)')
      BY <1>2, <2>1, <2>2, <2>3
    <2>5. \A b \in AgeIn(batch, id)' : NotOlder(b, AgeIn(peers, id))
      BY <1>2, <2>1, <2>2 DEF NotOlder, AgesHeard
    <2>6. AgeIn(peers, id)' = AgeIn(peers, id)
      BY <2>1 DEF AgeIn
    <2>7. InOrder(id)'
      BY <2>4, <2>5, <2>6 DEF InOrder, NotOlder, u
    <2> QED BY <1>2, <2>1, <2>2, <2>3, <2>7 DEF u
  <1>4. CASE OnPeer
    <2>1. PICK x \in DOMAIN batch :
            /\ peers' = [y \in DOMAIN peers \cup {x} |->
                           IF y = x THEN batch[x] ELSE peers[y]]
            /\ batch' = [y \in DOMAIN batch \ {x} |-> batch[y]]
      BY <1>4 DEF OnPeer
    <2>2. u' = u
      BY <1>4 DEF OnPeer, u
    <2>3. AgeIn(batch, id)' \subseteq AgeIn(batch, id)
      BY <2>1 DEF AgeIn
    <2>4. IF x = id THEN AgeIn(peers, id)' = AgeIn(batch, id) /\ AgeIn(batch, id)' = {}
                    ELSE AgeIn(peers, id)' = AgeIn(peers, id)
      BY <2>1 DEF AgeIn
    <2>5. AgesHeard(id)' \subseteq AgesHeard(id)
      BY <2>3, <2>4 DEF AgesHeard
    <2>6. InLine(u', id, AgesHeard(id)')
      BY <1>1, <2>2, <2>5, InLineLess
    <2>7. \A b \in AgeIn(batch, id)' : NotOlder(b, AgeIn(peers, id)')
      BY <2>3, <2>4 DEF InOrder
    <2>8. InOrder(id)'
      BY <2>6, <2>7 DEF InOrder, NotOlder, u
    <2> QED BY <2>2, <2>5, <2>8 DEF u, Ages
  <1>5. CASE OnGC \/ OnSubscription
    <2>1. PICK t : Take(t)
      BY <1>5 DEF OnGC, OnSubscription
    <2>2. AgeIn(batch, id) = {} /\ batch' = batch
      BY <1>2, <1>5, <2>1 DEF OnGC, OnSubscription, AgeIn
    <2>3. AgeIn(peers, id)' \subseteq AgeIn(peers, id)
      <3>1. CASE peers' = peers
        BY <3>1 DEF AgeIn
      <3>2. CASE OnGC /\ DOMAIN peers # {}
        <4>1. PICK kept \in SUBSET DOMAIN peers : peers' = [y \in kept |-> peers[y]]
          BY <3>2, OnGCFacts
        <4> QED BY <4>1 DEF AgeIn
      <3> QED BY <1>5, <3>1, <3>2 DEF OnGC, OnSubscription
    <2>4. AgeIn(batch, id)' = {}
      BY <2>2 DEF AgeIn
    <2>5. AgesHeard(id)' \subseteq AgesHeard(id)
      BY <2>3, <2>4 DEF AgesHeard
    <2>6. InLine(u', id, AgesHeard(id)')
      BY <1>2, <2>1, <2>5, InLineLess
    <2>7. InOrder(id)'
      BY <2>4, <2>6 DEF InOrder, u
    <2> QED BY <1>2, <2>1, <2>5, <2>7 DEF u
  <1> QED BY <1>3, <1>4, <1>5 DEF UpdaterStep

(* Something is sent to the updater, or its mailbox is left alone.         *)
LEMMA OrderSend ==
  ASSUME UpdaterTypeOK, UNCHANGED <<peers, batch>>, NEW id \in PeerIds, InOrder(id),
         NEW m \in UpdaterInput,
         updater_mailbox' = SendTo("updater", updater_mailbox, m),
         Carries(m, id) =>
           NotOlder(m.peers[id].age, AgesHeard(id) \cup Ages(updater_mailbox, id))
  PROVE  /\ InOrder(id)'
         /\ AgesHeard(id)' = AgesHeard(id)
         /\ Ages(updater_mailbox, id)'
              \subseteq Ages(updater_mailbox, id) \cup
                        {a \in {m.peers[id].age} : Carries(m, id)}
  <1>1. updater_mailbox \in Seq(UpdaterInput)
        /\ InLine(updater_mailbox, id, AgesHeard(id))
    BY DEF UpdaterTypeOK, ActorsTypeOK, InOrder
  <1>2. AgesHeard(id)' = AgesHeard(id) /\ AgeIn(batch, id)' = AgeIn(batch, id)
        /\ AgeIn(peers, id)' = AgeIn(peers, id)
    BY DEF AgesHeard, AgeIn
  <1>3. /\ InLine(updater_mailbox', id, AgesHeard(id))
        /\ Ages(updater_mailbox', id)
             \subseteq Ages(updater_mailbox, id) \cup
                       {a \in {m.peers[id].age} : Carries(m, id)}
    BY <1>1, InLineSend
  <1> QED BY <1>2, <1>3 DEF InOrder, NotOlder, Ages

LEMMA OrderKept ==
  ASSUME UNCHANGED <<peers, batch>>, NEW id \in PeerIds, InOrder(id),
         updater_mailbox' = updater_mailbox \/ updater_mailbox' = <<>>
  PROVE  /\ InOrder(id)'
         /\ AgesHeard(id)' = AgesHeard(id)
         /\ Ages(updater_mailbox, id)' \subseteq Ages(updater_mailbox, id)
  <1>1. AgesHeard(id)' = AgesHeard(id) /\ AgeIn(batch, id)' = AgeIn(batch, id)
        /\ AgeIn(peers, id)' = AgeIn(peers, id)
    BY DEF AgesHeard, AgeIn
  <1>2. Carriers(<<>>, id) = {}
    BY DEF Carriers
  <1>3. InLine(updater_mailbox', id, AgesHeard(id))
    BY <1>2 DEF InOrder, InLine
  <1>4. Ages(updater_mailbox', id) \subseteq Ages(updater_mailbox, id)
    BY <1>2 DEF Ages
  <1> QED BY <1>1, <1>3, <1>4 DEF InOrder, NotOlder, Ages

LEMMA OrderAged ==
  ASSUME UpdaterTypeOK, AgeTable, NEW id \in PeerIds, InOrder(id)
  PROVE  /\ InOrder(id)'
         /\ AgesHeard(id)' = Older(AgesHeard(id))
         /\ Ages(updater_mailbox, id)' \subseteq Older(Ages(updater_mailbox, id))
  <1>1. /\ updater_mailbox \in Seq(UpdaterInput) /\ peers \in PeerMap /\ batch \in PeerMap
        /\ InLine(updater_mailbox, id, AgesHeard(id))
    BY DEF UpdaterTypeOK, ActorsTypeOK, InOrder
  <1>2. /\ peers' = AgedPeers(peers) /\ batch' = AgedPeers(batch)
        /\ updater_mailbox' = AgedMailbox(updater_mailbox)
    BY DEF AgeTable
  <1>3. /\ AgeIn(peers', id) = Older(AgeIn(peers, id))
        /\ AgeIn(batch', id) = Older(AgeIn(batch, id))
    BY <1>1, <1>2, AgeInAged
  <1>4. AgesHeard(id)' = Older(AgesHeard(id))
    BY <1>3 DEF AgesHeard, Older
  <1>5. AgeIn(peers, id) \subseteq Nat /\ AgeIn(batch, id) \subseteq Nat
    BY <1>1, AgesTyped, ActorsAssumption DEF ActorsAssumption
  <1>6. AgesHeard(id) \in SUBSET Nat
    BY HeardTyped
  <1>7. /\ InLine(updater_mailbox', id, Older(AgesHeard(id)))
        /\ Ages(updater_mailbox', id) \subseteq Older(Ages(updater_mailbox, id))
    BY <1>1, <1>2, <1>6, InLineAged
  <1>8. ASSUME NEW b \in AgeIn(batch', id) PROVE NotOlder(b, AgeIn(peers', id))
    <2>1. PICK c \in AgeIn(batch, id) : b = MinOf(c + 1, MaxAge)
      BY <1>3 DEF Older
    <2>2. c \in Nat /\ NotOlder(c, AgeIn(peers, id))
      BY <1>5, <2>1 DEF InOrder
    <2> QED BY <1>3, <1>5, <2>1, <2>2, NotOlderAged
  <1>9. InOrder(id)'
    <2>1. InLine(updater_mailbox', id, AgesHeard(id)')
      BY <1>4, <1>7
    <2> QED BY <1>8, <2>1 DEF InOrder, NotOlder, AgeIn
  <1> QED BY <1>4, <1>7, <1>9 DEF Ages

LEMMA OrderInit ==
  ASSUME UInit, NEW id \in PeerIds
  PROVE  InOrder(id)
  <1>1. DOMAIN peers = {} /\ DOMAIN batch = {} /\ updater_mailbox = <<SizeSubscriptionMsg>>
    BY DEF UInit, UpdaterInit, ActorsInit
  <1>2. Carriers(updater_mailbox, id) = {} /\ AgeIn(batch, id) = {}
    BY <1>1 DEF Carriers, Carries, SizeSubscriptionMsg, AgeIn
  <1> QED BY <1>2 DEF InOrder, InLine

AllInOrder == \A id \in PeerIds : InOrder(id)

LEMMA OrderStep == UpdaterTypeOK /\ AllInOrder /\ [UNext]_uvars => AllInOrder'
  <1> SUFFICES ASSUME UpdaterTypeOK, [UNext]_uvars, NEW id \in PeerIds, InOrder(id)
               PROVE  InOrder(id)'
    BY DEF AllInOrder
  <1>1. CASE UpdaterStep
    BY <1>1, OrderUpdater
  <1>2. CASE GCSend
    <2>1. GCMsg \in UpdaterInput /\ ~Carries(GCMsg, id)
      BY DEF GCMsg, UpdaterInput, Carries
    <2> QED BY <1>2, <2>1, OrderSend DEF GCSend
  <1>3. CASE Tick
    BY <1>3, OrderAged DEF Tick
  <1>4. CASE SenderStub
    <2>1. UNCHANGED <<peers, batch>>
      BY <1>4 DEF SenderStub, updaterVars
    <2>2. CASE UNCHANGED updater_mailbox
      BY <2>1, <2>2, OrderKept
    <2>3. CASE \E p \in Batches : updater_mailbox' =
                 SendTo("updater", updater_mailbox, PeersMsg(p))
      <3>1. PICK p \in Batches : updater_mailbox' =
              SendTo("updater", updater_mailbox, PeersMsg(p))
        BY <2>3
      <3>2. PeersMsg(p) \in UpdaterInput /\ PeersMsg(p).peers = p
        BY BatchesAreMaps DEF PeersMsg, UpdaterInput
      <3>3. Carries(PeersMsg(p), id) => p[id].age \in Nat /\ p[id].age <= Skew
        <4>1. PICK S \in SUBSET PeerIds : p \in [S -> [info : Infos, age : StampAges]]
          BY DEF Batches
        <4>2. \A age \in StampAges : age \in Nat /\ age <= Skew
          BY UpdaterAssumption, ActorsAssumption
             DEF UpdaterAssumption, ActorsAssumption
        <4>3. SUFFICES ASSUME id \in DOMAIN p PROVE p[id].age \in StampAges
          BY <3>2, <4>2 DEF Carries
        <4>4. p[id] \in [info : Infos, age : StampAges]
          BY <4>1, <4>3
        <4> QED BY <4>4
      <3>4. AgesHeard(id) \cup Ages(updater_mailbox, id) \subseteq Nat
        BY HeardTyped
      <3>5. Carries(PeersMsg(p), id) =>
              NotOlder(p[id].age, AgesHeard(id) \cup Ages(updater_mailbox, id))
        BY <3>3, <3>4, UpdaterAssumption DEF NotOlder, UpdaterAssumption
      <3> QED BY <2>1, <3>1, <3>2, <3>5, OrderSend
    <2> QED BY <1>4, <2>2, <2>3 DEF SenderStub
  <1>5. CASE GCWake \/ Drop \/ UNCHANGED uvars
    <2>1. UNCHANGED <<peers, batch>>
          /\ (updater_mailbox' = updater_mailbox \/ updater_mailbox' = <<>>)
      BY <1>5 DEF GCWake, mailboxes, Drop, StopUpdater, AbortUpdater, AbortSender,
                  updaterVars, uvars
    <2> QED BY <2>1, OrderKept
  <1> QED BY <1>1, <1>2, <1>3, <1>4, <1>5 DEF UNext
-----------------------------------------------------------------------------
(* The refinement of PeerDirectory.                                        *)

(* A peer that fails the test of its age was silent for long.              *)
LEMMA GracePeriod ==
  ASSUME NEW age \in Nat, NEW n \in Nat \ {0}, ~Keep(age, n)
  PROVE  age >= 3 * Tau /\ age * Cutoff >= 3 * n * Tau
  <1> USE ActorsAssumption, UpdaterAssumption
          DEF ActorsAssumption, UpdaterAssumption
  <1>1. CASE Cutoff <= n
    <2>1. age * Cutoff >= 3 * n * Tau
      BY <1>1 DEF Keep, MinOf
    <2>2. 3 * n * Tau >= 3 * Cutoff * Tau
      BY <1>1
    <2>3. SUFFICES ASSUME age < 3 * Tau PROVE FALSE
      BY <2>1
    <2>4. age * Cutoff < (3 * Tau) * Cutoff
      BY <2>3
    <2> QED BY <2>1, <2>2, <2>4
  <1>2. CASE n < Cutoff
    <2>1. age * n >= 3 * n * Tau
      BY <1>2 DEF Keep, MinOf
    <2>2. age * Cutoff >= age * n
      BY <1>2
    <2>3. age >= 3 * Tau
      BY <2>1
    <2> QED BY <2>1, <2>2, <2>3
  <1> QED BY <1>1, <1>2

(* The silence of each peer, as the table knows it.                        *)
Silences == [id \in PeerIds |-> IF id \in DOMAIN peers THEN peers[id].age ELSE 0]

LEMMA KnownIsTable ==
  ASSUME UpdaterTypeOK, ViewMatches
  PROVE  Directory!Known = DOMAIN peers
  <1>1. \A id \in DOMAIN peers : id \in PeerIds /\ peers[id].info \in Infos
    BY PeerMapFacts DEF UpdaterTypeOK, Peer
  <1> QED BY <1>1, UpdaterAssumption
          DEF Directory!Known, ViewMatches, UpdaterAssumption

LEMMA SameCardinality ==
  ASSUME NEW S
  PROVE  Directory!Cardinality(S) = Cardinality(S)
BY DEF Directory!Cardinality, Cardinality

LEMMA DirectoryInit == UInit => Directory!DirInit
  <1> SUFFICES ASSUME UInit PROVE Directory!DirInit
    OBVIOUS
  <1>1. peers = <<>> /\ view = [id \in PeerIds |-> Unknown]
    BY DEF UInit, UpdaterInit
  <1>2. DOMAIN peers = {}
    BY <1>1
  <1> QED BY <1>1, <1>2 DEF Directory!DirInit

LEMMA DirectoryAged ==
  ASSUME UpdaterTypeOK, ViewMatches, UNCHANGED view, peers' = AgedPeers(peers)
  PROVE  Directory!Silence
  <1>1. /\ DOMAIN peers' = DOMAIN peers
        /\ \A id \in DOMAIN peers :
             peers'[id].age = MinOf(peers[id].age + 1, MaxAge)
    BY AgedPeersFacts DEF UpdaterTypeOK
  <1>2. \A id \in DOMAIN peers : peers[id].age \in 0..MaxAge
    BY PeerMapFacts DEF UpdaterTypeOK, Peer
  <1>3. Silences' = [id \in PeerIds |->
                       IF id \in DOMAIN peers /\ Silences[id] < MaxAge
                       THEN Silences[id] + 1 ELSE Silences[id]]
    BY <1>1, <1>2, ActorsAssumption DEF Silences, MinOf, ActorsAssumption
  <1> QED BY <1>3, KnownIsTable DEF Directory!Silence, Silences

LEMMA DirectoryStep ==
  UpdaterTypeOK /\ ViewMatches /\ AllInOrder
    /\ UpdaterTypeOK' /\ ViewMatches' /\ [UNext]_uvars
    => [Directory!DirNext]_(Directory!dirVars)
  <1> SUFFICES ASSUME UpdaterTypeOK, ViewMatches, AllInOrder,
                      UpdaterTypeOK', ViewMatches', [UNext]_uvars
               PROVE  [Directory!DirNext]_(Directory!dirVars)
    OBVIOUS
  <1>1. Directory!Known = DOMAIN peers
    BY KnownIsTable
  <1>2. CASE OnPeer
    <2>1. PICK id \in PeerIds, r \in Peer :
            /\ id \in DOMAIN batch /\ r = batch[id]
            /\ DOMAIN peers' = DOMAIN peers \cup {id}
            /\ peers'[id] = r
            /\ \A x \in DOMAIN peers \ {id} : peers'[x] = peers[x]
            /\ view' = [x \in PeerIds |-> IF x = id THEN r.info ELSE view[x]]
      BY <1>2, OnPeerFacts
    <2>2. r.info \in Infos /\ r.age \in 0..MaxAge
      BY DEF Peer
    <2>3. view' = [view EXCEPT ![id] = r.info]
      BY <2>1 DEF UpdaterTypeOK
    <2>4. Silences' = [Silences EXCEPT ![id] = r.age]
      BY <2>1 DEF Silences
    <2>5. id \in DOMAIN peers => r.age <= Silences[id] + Skew
      BY <2>1 DEF AllInOrder, InOrder, AgeIn, NotOlder, Silences
    <2>6. Directory!Learn(id, r.info, r.age)
      BY <1>1, <2>3, <2>4, <2>5 DEF Directory!Learn, Silences
    <2> QED BY <2>2, <2>6 DEF Directory!DirNext
  <1>3. CASE OnGC /\ DOMAIN peers # {}
    <2> DEFINE n == Cardinality(DOMAIN peers)
    <2>1. PICK kept \in SUBSET DOMAIN peers :
            /\ kept = {id \in DOMAIN peers :
                         Keep(peers[id].age, Cardinality(DOMAIN peers))}
            /\ peers' = [id \in kept |-> peers[id]]
            /\ view' = [x \in PeerIds |->
                          IF x \in DOMAIN peers \ kept THEN Unknown ELSE view[x]]
      BY <1>3, OnGCFacts
    <2>2. DOMAIN peers \subseteq PeerIds
      BY PeerMapFacts DEF UpdaterTypeOK
    <2>3. PICK gone \in SUBSET PeerIds : gone = DOMAIN peers \ kept
      BY <2>2
    <2>4. n \in Nat \ {0}
      BY <1>3, PeerMapSize, FS_EmptySet DEF UpdaterTypeOK
    <2>5. ASSUME NEW id \in gone
          PROVE  id \in Directory!Known /\ Directory!LongSilent(id)
      <3>1. id \in DOMAIN peers /\ ~Keep(peers[id].age, n)
        BY <2>1, <2>3
      <3>2. peers[id].age \in Nat
        BY <3>1, PeerMapFacts, ActorsAssumption
           DEF UpdaterTypeOK, Peer, ActorsAssumption
      <3>3. peers[id].age >= 3 * Tau /\ peers[id].age * Cutoff >= 3 * n * Tau
        BY <2>4, <3>1, <3>2, GracePeriod
      <3>4. Silences[id] = peers[id].age
        BY <2>2, <3>1 DEF Silences
      <3> DEFINE s == Silences[id]
      <3>5. /\ s >= 3 * Tau
            /\ s * Cutoff >= 3 * Directory!Cardinality(Directory!Known) * Tau
        BY <1>1, <3>3, <3>4, SameCardinality
      <3>6. Directory!LongSilent(id)
        BY <3>5, Zenon DEF Directory!LongSilent, Silences
      <3> QED BY <1>1, <3>1, <3>6
    <2>6. Silences' = [id \in PeerIds |->
                         IF id \in gone THEN 0 ELSE Silences[id]]
      BY <2>1, <2>2, <2>3 DEF Silences
    <2>7. view' = [id \in PeerIds |->
                     IF id \in gone THEN Unknown ELSE view[id]]
      BY <2>1, <2>3
    <2>8. \A id \in gone : id \in Directory!Known /\ Directory!LongSilent(id)
      BY <2>5
    <2>9. Directory!Forget(gone)
      BY <2>6, <2>7, <2>8, Zenon DEF Directory!Forget, Silences
    <2> QED BY <2>9 DEF Directory!DirNext
  <1>4. CASE ~OnPeer /\ ~(OnGC /\ DOMAIN peers # {})
    <2>1. UNCHANGED view /\ (peers' = peers \/ peers' = AgedPeers(peers))
      BY <1>4, OtherSteps
    <2>2. CASE peers' = peers
      BY <2>1, <2>2 DEF Directory!dirVars
    <2>3. CASE peers' = AgedPeers(peers)
      BY <2>1, <2>3, DirectoryAged DEF Directory!DirNext
    <2> QED BY <2>1, <2>2, <2>3
  <1> QED BY <1>2, <1>3, <1>4

(* The updater implements PeerDirectory: for every number of peers, every  *)
(* cadence and rate, a peer leaves the application's picture only after    *)
(* the grace period, the documented 3 S / phi and at least three cadences, *)
(* and no announcement that waited takes the place of a later one.         *)
THEOREM UpdaterImplementsDirectory == USpec => DirectorySpec
  <1> DEFINE Inv == UpdaterTypeOK /\ ViewMatches /\ AllInOrder
  <1>1. UInit => Inv
    BY UpdaterTypeInit, ViewInit, OrderInit DEF AllInOrder
  <1>2. Inv /\ [UNext]_uvars => Inv'
    BY UpdaterTypeStep, ViewStep, OrderStep
  <1>3. Inv /\ Inv' /\ [UNext]_uvars => [Directory!DirNext]_(Directory!dirVars)
    BY DirectoryStep
  <1> QED BY <1>1, <1>2, <1>3, DirectoryInit, PTL
          DEF USpec, DirectorySpec, Directory!DirSpec
-----------------------------------------------------------------------------
(* The chain of GC tasks.                                                  *)

(* What taking a message does to the positions of the pending GCs.         *)
LEMMA TakePending ==
  ASSUME UpdaterTypeOK, NEW t, Take(t)
  PROVE  /\ 1 \in GCPending <=> t = "GC"
         /\ \A i \in GCPending' : i \in Nat \ {0} /\ i + 1 \in GCPending
         /\ \A i \in GCPending : i # 1 => i - 1 \in GCPending'
  <1>1. /\ Len(updater_mailbox) \in Nat \ {0}
        /\ Head(updater_mailbox) = updater_mailbox[1]
        /\ Head(updater_mailbox).type = t
        /\ Len(updater_mailbox') = Len(updater_mailbox) - 1
        /\ \A i \in 1..Len(updater_mailbox') :
             updater_mailbox'[i] = updater_mailbox[i + 1]
    BY HeadAndTail DEF Take, Receives, UpdaterTypeOK, ActorsTypeOK
  <1>2. 1 \in GCPending <=> t = "GC"
    BY <1>1 DEF GCPending
  <1>3. \A i \in GCPending' : i \in Nat \ {0} /\ i + 1 \in GCPending
    BY <1>1 DEF GCPending
  <1>4. ASSUME NEW i \in GCPending, i # 1 PROVE i - 1 \in GCPending'
    <2>1. i \in 1..Len(updater_mailbox) /\ i - 1 \in 1..Len(updater_mailbox')
      BY <1>1, <1>4 DEF GCPending
    <2>2. updater_mailbox'[i - 1] = updater_mailbox[i]
      BY <1>1, <2>1
    <2> QED BY <1>4, <2>1, <2>2 DEF GCPending
  <1> QED BY <1>2, <1>3, <1>4

(* A message other than GC is taken.                                       *)
LEMMA ChainTake ==
  ASSUME UpdaterTypeOK, GcChain, NEW t, Take(t), t # "GC",
         UNCHANGED <<running, gc_sleeping, gc_due>>
  PROVE  GcChain'
  <1>1. "updater" \in running
    BY DEF Take, Receives
  <1>2. \A i \in GCPending : i \in Nat \ {0}
    BY DEF GCPending
  <1>3. CASE gc_sleeping + gc_due = 1 /\ GCPending = {}
    BY <1>3, TakePending DEF GcChain
  <1>4. CASE gc_sleeping + gc_due = 0 /\ \E i \in GCPending : GCPending = {i}
    <2>1. PICK i \in GCPending : GCPending = {i}
      BY <1>4
    <2>2. i # 1 /\ i \in Nat
      BY <1>2, <2>1, TakePending
    <2>3. i - 1 \in GCPending'
      BY <2>2, TakePending
    <2>4. \A j \in GCPending' : j = i - 1
      BY <2>1, <2>2, TakePending
    <2> QED BY <1>4, <2>3, <2>4 DEF GcChain
  <1> QED BY <1>1, <1>3, <1>4 DEF GcChain

(* A message is appended: only GCSend appends a GC.                        *)
LEMMA PendingAfterSend ==
  ASSUME UpdaterTypeOK, NEW m \in UpdaterInput,
         updater_mailbox' = SendTo("updater", updater_mailbox, m)
  PROVE  GCPending' =
           IF m.type = "GC" /\ Accepts("updater", updater_mailbox)
           THEN GCPending \cup {Len(updater_mailbox) + 1} ELSE GCPending
  <1>1. /\ Len(updater_mailbox) \in Nat
        /\ IF Accepts("updater", updater_mailbox)
           THEN /\ Len(updater_mailbox') = Len(updater_mailbox) + 1
                /\ updater_mailbox'[Len(updater_mailbox) + 1] = m
                /\ \A i \in 1..Len(updater_mailbox) :
                     updater_mailbox'[i] = updater_mailbox[i]
           ELSE updater_mailbox' = updater_mailbox
    BY SendToFacts DEF UpdaterTypeOK, ActorsTypeOK
  <1>2. CASE ~Accepts("updater", updater_mailbox)
    BY <1>1, <1>2 DEF GCPending
  <1>3. CASE Accepts("updater", updater_mailbox)
    <2>1. ASSUME NEW i
          PROVE  i \in GCPending' <=>
                   \/ i \in GCPending
                   \/ i = Len(updater_mailbox) + 1 /\ m.type = "GC"
      BY <1>1, <1>3 DEF GCPending
    <2> QED BY <1>3, <2>1
  <1> QED BY <1>2, <1>3

LEMMA ChainStep == UpdaterTypeOK /\ GcChain /\ [UNext]_uvars => GcChain'
  <1> SUFFICES ASSUME UpdaterTypeOK, GcChain, [UNext]_uvars PROVE GcChain'
    OBVIOUS
  <1>1. CASE OnPeers \/ OnSubscription
    BY <1>1, ChainTake DEF OnPeers, OnSubscription
  <1>2. CASE OnGC
    <2>1. "updater" \in running /\ Take("GC")
      BY <1>2 DEF OnGC, Take, Receives
    <2>2. gc_sleeping + gc_due = 0 /\ GCPending = {1}
      BY <2>1, TakePending DEF GcChain
    <2>3. GCPending' = {}
      BY <2>1, <2>2, TakePending
    <2>4. gc_sleeping' + gc_due' = 1
      BY <1>2, <2>2 DEF OnGC, UpdaterTypeOK
    <2> QED BY <2>3, <2>4 DEF GcChain
  <1>3. CASE GCWake
    <2>1. gc_sleeping' + gc_due' = gc_sleeping + gc_due
      BY <1>3 DEF GCWake, UpdaterTypeOK
    <2> QED BY <1>3, <2>1 DEF GCWake, mailboxes, GcChain, GCPending
  <1>4. CASE GCSend
    <2> SUFFICES ASSUME "updater" \in running PROVE GcChain'
      BY <1>4 DEF GCSend, GcChain
    <2>1. gc_sleeping + gc_due = 1 /\ GCPending = {}
      BY <1>4 DEF GCSend, GcChain, UpdaterTypeOK
    <2>2. GCMsg \in UpdaterInput /\ GCMsg.type = "GC"
      BY DEF GCMsg, UpdaterInput
    <2>3. CASE Accepts("updater", updater_mailbox)
      <3>1. gc_sleeping' + gc_due' = 0
        BY <1>4, <2>1, <2>3 DEF GCSend, UpdaterTypeOK
      <3>2. GCPending' = {Len(updater_mailbox) + 1}
        BY <1>4, <2>1, <2>2, <2>3, PendingAfterSend DEF GCSend
      <3> QED BY <3>1, <3>2 DEF GcChain
    <2>4. CASE ~Accepts("updater", updater_mailbox)
      <3>1. gc_sleeping' + gc_due' = 1
        BY <1>4, <2>1, <2>4 DEF GCSend, UpdaterTypeOK
      <3>2. GCPending' = {}
        BY <1>4, <2>1, <2>2, <2>4, PendingAfterSend DEF GCSend
      <3> QED BY <3>1, <3>2 DEF GcChain
    <2> QED BY <2>3, <2>4
  <1>5. CASE SenderStub
    <2>1. CASE UNCHANGED updater_mailbox
      BY <1>5, <2>1 DEF SenderStub, updaterVars, GcChain, GCPending
    <2>2. CASE \E p \in Batches : updater_mailbox' =
                 SendTo("updater", updater_mailbox, PeersMsg(p))
      <3>1. PICK m \in UpdaterInput :
              /\ updater_mailbox' = SendTo("updater", updater_mailbox, m)
              /\ m.type # "GC"
        BY <2>2, BatchesAreMaps DEF PeersMsg, UpdaterInput
      <3>2. GCPending' = GCPending
        BY <3>1, PendingAfterSend
      <3> QED BY <1>5, <3>2 DEF SenderStub, updaterVars, GcChain
    <2> QED BY <1>5, <2>1, <2>2 DEF SenderStub
  <1>6. CASE Tick
    <2>1. GCPending' = GCPending
      BY <1>6, AgedMailboxFacts
         DEF Tick, AgeTable, GCPending, UpdaterTypeOK, ActorsTypeOK
    <2> QED BY <1>6, <2>1 DEF Tick, AgeTable, GcChain
  <1>7. CASE OnPeer
    BY <1>7 DEF OnPeer, GcChain, GCPending
  <1>8. CASE Drop
    BY <1>8 DEF Drop, StopUpdater, AbortUpdater, AbortSender, updaterVars,
                GcChain, GCPending
  <1>9. CASE UNCHANGED uvars
    BY <1>9 DEF uvars, mailboxes, updaterVars, GcChain, GCPending
  <1> QED BY <1>1, <1>2, <1>3, <1>4, <1>5, <1>6, <1>7, <1>8, <1>9
          DEF UNext, UpdaterStep

LEMMA ChainInit == UInit => GcChain
  <1> SUFFICES ASSUME UInit PROVE GcChain
    OBVIOUS
  <1>1. updater_mailbox = <<SizeSubscriptionMsg>>
    BY DEF UInit, ActorsInit
  <1>2. GCPending = {}
    BY <1>1 DEF GCPending, SizeSubscriptionMsg
  <1> QED BY <1>2 DEF UInit, UpdaterInit, GcChain

(* Whatever the mailbox refuses, exactly one GC is under way while the     *)
(* updater runs.                                                           *)
THEOREM UpdaterGcChain == USpec => []GcChain
  <1>1. UInit => UpdaterTypeOK /\ GcChain
    BY UpdaterTypeInit, ChainInit
  <1>2. UpdaterTypeOK /\ GcChain /\ [UNext]_uvars => (UpdaterTypeOK /\ GcChain)'
    BY UpdaterTypeStep, ChainStep
  <1> QED BY <1>1, <1>2, PTL DEF USpec
=============================================================================
