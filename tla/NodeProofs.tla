----------------------------- MODULE NodeProofs -----------------------------
(***************************************************************************)
(* Proofs about sender and updater together: both keep their types, the    *)
(* sender's estimate follows the table, and the composition implements     *)
(* PeerDirectory.  Most steps of the node are steps of one actor against   *)
(* the environment its own module gives it, which is what the lemmas of    *)
(* SenderProofs and UpdaterProofs are about.                               *)
(***************************************************************************)
EXTENDS Node, SenderProofs, UpdaterProofs

(* The steps of the sender, its timers, and what sends to it.              *)
SenderSideActs ==
  SenderActs \/ EnvironmentActs \/ \E c \in Counts : TimerActs(c)

LEMMA SenderSide ==
  ASSUME SenderSideActs
  PROVE  SNext /\ UNCHANGED <<updaterVars, notice>>
BY DEF SenderSideActs, SenderActs, TimerActs, EnvironmentActs, SNext, history

LEMMA UpdaterSide ==
  ASSUME UpdaterActs \/ GCActs \/ DropService
  PROVE  UNext /\ UNCHANGED senderVars
BY DEF UpdaterActs, GCActs, DropService, UNext, Drop

LEMMA SenderTypeKept ==
  ASSUME SenderTypeOK, ActorsTypeOK', UNCHANGED senderVars
  PROVE  SenderTypeOK'
BY DEF SenderTypeOK, senderVars

LEMMA UpdaterTypeKept ==
  ASSUME UpdaterTypeOK, ActorsTypeOK', UNCHANGED updaterVars
  PROVE  UpdaterTypeOK'
BY DEF UpdaterTypeOK, updaterVars

LEMMA NodeTypeInit == Init => TypeOK
BY SenderTypeInit, UpdaterTypeInit DEF Init, SInit, UInit, TypeOK

LEMMA NodeTypeStep == TypeOK /\ [Next]_vars => TypeOK'
  <1> SUFFICES ASSUME TypeOK, [Next]_vars PROVE TypeOK'
    OBVIOUS
  <1> USE DEF TypeOK
  <1>1. CASE SenderSideActs
    <2>1. SenderTypeOK'
      BY <1>1, SenderSide, SenderTypeStep
    <2>2. UpdaterTypeOK'
      BY <1>1, <2>1, SenderSide, UpdaterTypeKept DEF SenderTypeOK
    <2>3. CASE EnvironmentActs
      <3>1. ASSUME NEW id \in Heard
            PROVE  sender_mailbox'[Len(sender_mailbox')].peers[id].info \in Infos
        BY <2>1, CarriedInfo DEF Heard, SenderTypeOK, ActorsTypeOK
      <3>2. latest' \in [PeerIds -> Infos \cup {Unknown}]
        BY <2>3, <3>1 DEF EnvironmentActs
      <3> QED BY <1>1, <2>1, <2>2, <3>2, SenderSide
    <2>4. CASE ~EnvironmentActs
      <3>1. latest' \in [PeerIds -> Infos \cup {Unknown}]
        BY <1>1, <2>4 DEF SenderSideActs, SenderActs, TimerActs, GiveUp, history
      <3> QED BY <1>1, <2>1, <2>2, <3>1, SenderSide
    <2> QED BY <2>3, <2>4
  <1>2. CASE UpdaterActs \/ GCActs \/ DropService
    <2>1. UpdaterTypeOK'
      BY <1>2, UpdaterSide, UpdaterTypeStep
    <2>2. SenderTypeOK'
      BY <1>2, <2>1, UpdaterSide, SenderTypeKept DEF UpdaterTypeOK
    <2>3. notice' \in {"none", "taken", "refused"}
      BY <1>2 DEF UpdaterActs, GCActs, DropService, history
    <2>4. latest' \in [PeerIds -> Infos \cup {Unknown}]
      BY <1>2 DEF UpdaterActs, GCActs, DropService, GiveUp, history
    <2> QED BY <2>1, <2>2, <2>3, <2>4
  <1>3. CASE ClockTick
    <2>1. /\ sender_mailbox' \in Seq(MdnsMsg)
          /\ updater_mailbox' \in Seq(UpdaterInput)
      BY <1>3, AgedSenderMailbox, AgedMailboxFacts
         DEF ClockTick, AgeTable, SenderTypeOK, ActorsTypeOK
    <2>2. peers' \in PeerMap /\ batch' \in PeerMap
      BY <1>3, AgedPeersFacts DEF ClockTick, AgeTable, UpdaterTypeOK
    <2>3. ActorsTypeOK'
      BY <1>3, <2>1 DEF ClockTick, AgeTable, SenderTypeOK, ActorsTypeOK
    <2>4. SenderTypeOK'
      BY <1>3, <2>3, SenderTypeKept DEF ClockTick
    <2>5. UpdaterTypeOK'
      BY <1>3, <2>2, <2>3 DEF ClockTick, AgeTable, UpdaterTypeOK
    <2> QED BY <1>3, <2>4, <2>5 DEF ClockTick, history
  <1>4. CASE UNCHANGED vars
    BY <1>4, SenderTypeKept, UpdaterTypeKept
       DEF vars, history, mailboxes, SenderTypeOK, UpdaterTypeOK, ActorsTypeOK
  <1> QED BY <1>1, <1>2, <1>3, <1>4 DEF Next, SenderSideActs

(* Side by side, both actors keep all their variables in range; no message *)
(* of one surprises the other.                                             *)
THEOREM NodeTypeCorrect == Spec => []TypeOK
BY NodeTypeInit, NodeTypeStep, PTL DEF Spec
-----------------------------------------------------------------------------
(* The estimate of the swarm size: what a mailbox says it will be.         *)

Notices(box) == {i \in 1..Len(box) : box[i].type = "SizeUpdate"}

(* With `size` in use and `box` still to be read, it ends at v.            *)
LeadsTo(box, size, v) ==
  \/ Notices(box) = {} /\ size = v
  \/ \E i \in Notices(box) :
       (\A j \in Notices(box) : j <= i) /\ box[i].size = v

LEMMA LeadsToTail ==
  ASSUME NEW box \in Seq(MdnsMsg), box # <<>>, NEW size, NEW v,
         LeadsTo(box, size, v)
  PROVE  LeadsTo(Tail(box),
                 IF Head(box).type = "SizeUpdate" THEN Head(box).size ELSE size, v)
  <1> DEFINE tail == Tail(box)
             next == IF Head(box).type = "SizeUpdate" THEN Head(box).size ELSE size
  <1>1. /\ Len(box) \in Nat \ {0} /\ Len(tail) = Len(box) - 1
        /\ Head(box) = box[1]
        /\ \A i \in 1..Len(tail) : tail[i] = box[i + 1]
    BY HeadAndTail
  <1> HIDE DEF tail
  <1>2. \A i \in Notices(tail) : i \in Nat /\ i + 1 \in Notices(box)
    BY <1>1 DEF Notices
  <1>3. \A i \in Notices(box) : i \in Nat /\ (i # 1 => i - 1 \in Notices(tail))
    BY <1>1 DEF Notices
  <1>4. CASE Notices(box) = {} /\ size = v
    <2>1. Notices(tail) = {}
      BY <1>2, <1>4
    <2>2. Head(box).type # "SizeUpdate"
      BY <1>1, <1>4 DEF Notices
    <2> QED BY <1>4, <2>1, <2>2 DEF LeadsTo, tail
  <1>5. ASSUME NEW i \in Notices(box), \A j \in Notices(box) : j <= i,
               box[i].size = v
        PROVE  LeadsTo(tail, next, v)
    <2>1. CASE i = 1
      <3>1. Notices(tail) = {}
        BY <1>2, <1>5, <2>1 DEF Notices
      <3>2. next = v
        BY <1>1, <1>5, <2>1 DEF Notices
      <3> QED BY <3>1, <3>2 DEF LeadsTo
    <2>2. CASE i # 1
      <3>1. i - 1 \in Notices(tail) /\ i \in Nat
        BY <1>3, <2>2
      <3>2. \A j \in Notices(tail) : j <= i - 1
        BY <1>2, <1>5, <3>1
      <3>3. tail[i - 1].size = v
        BY <1>1, <1>5, <3>1 DEF Notices
      <3> QED BY <3>1, <3>2, <3>3 DEF LeadsTo
    <2> QED BY <2>1, <2>2
  <1> QED BY <1>4, <1>5 DEF LeadsTo, tail

LEMMA LeadsToSend ==
  ASSUME NEW box \in Seq(MdnsMsg), NEW m \in MdnsMsg, NEW size, NEW v,
         m.type = "SizeUpdate" => Accepts("sender", box) /\ m.size = v,
         m.type # "SizeUpdate" => LeadsTo(box, size, v)
  PROVE  LeadsTo(SendTo("sender", box, m), size, v)
  <1> DEFINE sent == SendTo("sender", box, m)
  <1>1. CASE ~Accepts("sender", box)
    BY <1>1 DEF SendTo
  <1>2. CASE Accepts("sender", box)
    <2>1. /\ Len(box) \in Nat /\ Len(sent) = Len(box) + 1
          /\ sent[Len(box) + 1] = m
          /\ \A i \in 1..Len(box) : sent[i] = box[i]
      BY <1>2, SendToFacts
    <2> HIDE DEF sent
    <2>2. CASE m.type = "SizeUpdate"
      <3>1. /\ Len(box) + 1 \in Notices(sent)
            /\ \A j \in Notices(sent) : j <= Len(box) + 1
        BY <2>1, <2>2 DEF Notices
      <3> QED BY <2>1, <2>2, <3>1 DEF LeadsTo, sent
    <2>3. CASE m.type # "SizeUpdate"
      <3>1. Notices(sent) = Notices(box)
        BY <2>1, <2>3 DEF Notices
      <3>2. \A i \in Notices(box) : sent[i] = box[i]
        BY <2>1 DEF Notices
      <3> QED BY <2>3, <3>1, <3>2 DEF LeadsTo, sent
    <2> QED BY <2>2, <2>3
  <1> QED BY <1>1, <1>2

LEMMA LeadsToAged ==
  ASSUME NEW box \in Seq(MdnsMsg), NEW size, NEW v, LeadsTo(box, size, v)
  PROVE  LeadsTo(AgedMailbox(box), size, v)
  <1>1. Notices(AgedMailbox(box)) = Notices(box)
    BY AgedSenderMailbox DEF Notices
  <1>2. \A i \in Notices(box) : AgedMailbox(box)[i] = box[i]
    BY AgedSenderMailbox DEF Notices
  <1> QED BY <1>1, <1>2 DEF LeadsTo

(* CHOOSE has only one notice to choose from.                              *)
LEMMA LeadsToIsEventual ==
  ASSUME SenderTypeOK, NEW v, LeadsTo(sender_mailbox, swarm_size, v)
  PROVE  EventualSize = v
  <1>1. SizeNotices = Notices(sender_mailbox)
    BY DEF SizeNotices, Notices
  <1>2. ASSUME NEW i \in SizeNotices, \A j \in SizeNotices : j <= i,
               sender_mailbox[i].size = v
        PROVE  EventualSize = v
    <2> DEFINE last == CHOOSE k \in SizeNotices : \A j \in SizeNotices : j <= k
    <2>1. last \in SizeNotices /\ \A j \in SizeNotices : j <= last
      BY <1>2
    <2>2. Len(sender_mailbox) \in Nat
      BY LenProperties DEF SenderTypeOK, ActorsTypeOK
    <2>3. last \in Nat /\ i \in Nat /\ last <= i /\ i <= last
      BY <1>2, <2>1, <2>2 DEF SizeNotices
    <2>4. last = i
      BY <2>3
    <2> QED BY <1>2, <2>4 DEF EventualSize
  <1> QED BY <1>1, <1>2 DEF LeadsTo, EventualSize
-----------------------------------------------------------------------------
(* Until the updater has taken the subscription, which is the first of its *)
(* messages, it knows nobody.                                              *)
Subscribing ==
  ~subscribed =>
    /\ DOMAIN peers = {} /\ DOMAIN batch = {}
    /\ "updater" \in running =>
         updater_mailbox # <<>> /\ Head(updater_mailbox).type = "SizeSubscription"

(* SizeFresh, inductively.                                                 *)
Follows ==
  "sender" \in running =>
    /\ notice = "taken" =>
         LeadsTo(sender_mailbox, swarm_size, Cardinality(DOMAIN peers))
    /\ notice = "none" =>
         LeadsTo(sender_mailbox, swarm_size, 1) /\ DOMAIN peers = {}

NodeInv == TypeOK /\ Subscribing /\ Follows

(* What the sender, its timers and its environment do to the mailboxes.    *)
LEMMA SenderSideEffects ==
  ASSUME TypeOK, SenderSideActs
  PROVE  /\ UNCHANGED <<running, updaterVars, notice>>
         /\ \/ UNCHANGED updater_mailbox
            \/ \E m \in UpdaterInput :
                 /\ m.type # "GC"
                 /\ updater_mailbox' = SendTo("updater", updater_mailbox, m)
         /\ \/ UNCHANGED <<sender_mailbox, swarm_size>>
            \/ /\ sender_mailbox # <<>>
               /\ sender_mailbox' = Tail(sender_mailbox)
               /\ swarm_size' = IF Head(sender_mailbox).type = "SizeUpdate"
                                THEN Head(sender_mailbox).size ELSE swarm_size
            \/ /\ UNCHANGED swarm_size
               /\ \E m \in MdnsMsg :
                    /\ m.type # "SizeUpdate"
                    /\ sender_mailbox' = SendTo("sender", sender_mailbox, m)
  <1> USE DEF Receive, Receives
  <1>1. CASE OnQuery \/ OnQueryTimeout \/ OnResponseTimeout \/ OnUpdate \/ OnSizeUpdate
    BY <1>1, SenderSide
       DEF OnQuery, OnQueryTimeout, OnResponseTimeout, OnUpdate, OnSizeUpdate
  <1>2. CASE OnLateResponse \/ OnResponse
    <2>1. Receive("Response") /\ Forward(Head(sender_mailbox).peers)
      BY <1>2 DEF OnLateResponse, OnResponse
    <2>2. Head(sender_mailbox).peers \in PeerMap
      BY <2>1, ReceiveType, MdnsMsgFields DEF TypeOK
    <2>3. /\ PeersMsg(Head(sender_mailbox).peers) \in UpdaterInput
          /\ PeersMsg(Head(sender_mailbox).peers).type # "GC"
      BY <2>2 DEF PeersMsg, UpdaterInput
    <2>4. UNCHANGED <<running, swarm_size>>
      BY <1>2 DEF OnLateResponse, OnResponse, senderVars
    <2> QED BY <2>1, <2>3, <2>4, SenderSide DEF Forward
  <1>3. CASE OnIgnored
    BY <1>3, SenderSide DEF OnIgnored, QueryTypes, senderVars
  <1>4. ASSUME NEW c \in Counts, TimerWake(c)
        PROVE  UNCHANGED <<running, mailboxes, swarm_size>>
    BY <1>4 DEF TimerWake
  <1>5. ASSUME NEW c \in Counts, TimerSend(c)
        PROVE  /\ UNCHANGED <<running, updater_mailbox, swarm_size>>
               /\ \E m \in MdnsMsg :
                    /\ m.type # "SizeUpdate"
                    /\ sender_mailbox' = SendTo("sender", sender_mailbox, m)
    <2>1. PICK t \in timers :
            sender_mailbox' = SendTo("sender", sender_mailbox, TimeoutMsg(c, t.armed))
      BY <1>5 DEF TimerSend
    <2>2. TimeoutMsg(c, t.armed) \in MdnsMsg
      BY MessagesTyped, SenderAssumption
         DEF TypeOK, SenderTypeOK, Timer, Counts, SenderAssumption
    <2>3. TimeoutMsg(c, t.armed).type # "SizeUpdate"
      BY DEF TimeoutMsg
    <2> QED BY <1>5, <2>1, <2>2, <2>3 DEF TimerSend
  <1>6. ASSUME EnvironmentActs, ~ForgetOwnPacket
        PROVE  /\ UNCHANGED <<running, updater_mailbox, swarm_size>>
               /\ \E m \in MdnsMsg :
                    /\ m.type # "SizeUpdate"
                    /\ sender_mailbox' = SendTo("sender", sender_mailbox, m)
    <2>1. PICK m : /\ Arrives(m)
                   /\ \/ \E t \in Queries : m = QueryMsg(t)
                      \/ \E p \in Payloads \cup OwnPayloads : m = ResponseMsg(p)
                      \/ \E op \in Ops : m = UpdateMsg(op)
      BY <1>6 DEF EnvironmentActs, ReceivePacket, ReceiveOwnPacket, GuardianForwards
    <2>2. m \in MdnsMsg
      BY <2>1, MessagesTyped, PayloadsAreMaps, SenderAssumption DEF SenderAssumption
    <2>3. m.type # "SizeUpdate"
      BY <2>1, SenderAssumption
         DEF QueryMsg, ResponseMsg, UpdateMsg, SenderAssumption, QueryTypes
    <2>4. UNCHANGED <<running, updater_mailbox, swarm_size>>
      BY <1>6 DEF EnvironmentActs, ReceivePacket, ReceiveOwnPacket, GuardianForwards,
                  senderVars
    <2> QED BY <2>1, <2>2, <2>3, <2>4 DEF Arrives
  <1>7. CASE EnvironmentActs /\ ForgetOwnPacket
    BY <1>7, SenderSide DEF ForgetOwnPacket, mailboxes
  <1> QED BY <1>1, <1>2, <1>3, <1>4, <1>5, <1>6, <1>7, SenderSide
          DEF SenderSideActs, SenderActs, TimerActs, SenderStep, mailboxes

LEMMA SubscribingSend ==
  ASSUME TypeOK, Subscribing, NEW m,
         updater_mailbox' = SendTo("updater", updater_mailbox, m),
         UNCHANGED <<running, peers, batch, subscribed>>
  PROVE  Subscribing'
  <1>1. updater_mailbox \in Seq(UpdaterInput)
    BY DEF TypeOK, UpdaterTypeOK, ActorsTypeOK
  <1>2. updater_mailbox # <<>> =>
          /\ Append(updater_mailbox, m) # <<>>
          /\ Head(Append(updater_mailbox, m)) = Head(updater_mailbox)
    <2>1. updater_mailbox \in Seq(UpdaterInput \cup {m}) /\ m \in UpdaterInput \cup {m}
      BY <1>1, SeqDef
    <2>2. SUFFICES ASSUME updater_mailbox # <<>>
                   PROVE  /\ Append(updater_mailbox, m) # <<>>
                          /\ Head(Append(updater_mailbox, m)) = Head(updater_mailbox)
      OBVIOUS
    <2>3. Len(updater_mailbox) \in Nat \ {0}
      BY <1>1, <2>2, EmptySeq, LenProperties
    <2>4. /\ Append(updater_mailbox, m) \in Seq(UpdaterInput \cup {m})
          /\ Append(updater_mailbox, m) # <<>>
          /\ Append(updater_mailbox, m)[1] = updater_mailbox[1]
      BY <2>1, <2>3, AppendProperties
    <2> QED BY <2>1, <2>2, <2>4, HeadAndTail
  <1> QED BY <1>2 DEF Subscribing, SendTo

LEMMA NodeInvInit == Init => NodeInv
  <1> SUFFICES ASSUME Init PROVE NodeInv
    OBVIOUS
  <1>1. TypeOK
    BY NodeTypeInit
  <1>2. Subscribing
    BY DEF Init, ActorsInit, UpdaterInit, Subscribing, SizeSubscriptionMsg
  <1>3. Follows
    BY DEF Init, ActorsInit, SenderInit, UpdaterInit, Follows, LeadsTo, Notices
  <1> QED BY <1>1, <1>2, <1>3 DEF NodeInv

LEMMA SubscribingStep ==
  ASSUME NodeInv, [Next]_vars
  PROVE  Subscribing'
  <1> USE DEF NodeInv
  <1>1. CASE SenderSideActs
    <2>1. UNCHANGED <<running, peers, batch, subscribed>>
      BY <1>1, SenderSideEffects DEF updaterVars
    <2>2. \/ UNCHANGED updater_mailbox
          \/ \E m : updater_mailbox' = SendTo("updater", updater_mailbox, m)
      BY <1>1, SenderSideEffects
    <2> QED BY <2>1, <2>2, SubscribingSend DEF Subscribing
  <1>2. CASE OnPeers \/ OnGC
    <2>1. subscribed
      BY <1>2 DEF Subscribing, OnPeers, OnGC, Take, Receives
    <2> QED BY <1>2, <2>1 DEF Subscribing, OnPeers, OnGC
  <1>3. CASE OnPeer
    BY <1>3 DEF Subscribing, OnPeer
  <1>4. CASE OnSubscription
    BY <1>4 DEF Subscribing, OnSubscription
  <1>5. CASE GCActs
    <2>1. CASE GCWake
      BY <2>1 DEF GCWake, mailboxes, Subscribing
    <2>2. CASE GCSend
      BY <2>2, SubscribingSend DEF GCSend
    <2> QED BY <1>5, <2>1, <2>2 DEF GCActs
  <1>6. CASE ClockTick
    <2>1. DOMAIN peers' = DOMAIN peers /\ DOMAIN batch' = DOMAIN batch
      BY <1>6, AgedPeersFacts DEF ClockTick, AgeTable, TypeOK, UpdaterTypeOK
    <2>2. updater_mailbox \in Seq(UpdaterInput)
      BY DEF TypeOK, UpdaterTypeOK, ActorsTypeOK
    <2>3. ASSUME updater_mailbox # <<>>
          PROVE  /\ updater_mailbox' # <<>>
                 /\ Head(updater_mailbox').type = Head(updater_mailbox).type
      <3>1. /\ updater_mailbox' \in Seq(UpdaterInput)
            /\ Len(updater_mailbox') = Len(updater_mailbox)
            /\ \A i \in 1..Len(updater_mailbox) :
                 updater_mailbox'[i].type = updater_mailbox[i].type
        BY <1>6, <2>2, AgedMailboxFacts DEF ClockTick, AgeTable
      <3>2. Len(updater_mailbox) \in Nat \ {0} /\ Head(updater_mailbox) = updater_mailbox[1]
        BY <2>2, <2>3, HeadAndTail
      <3>3. updater_mailbox' # <<>>
        BY <3>1, <3>2
      <3>4. Head(updater_mailbox') = updater_mailbox'[1]
        BY <3>1, <3>3, HeadAndTail
      <3> QED BY <3>1, <3>2, <3>3, <3>4
    <2> QED BY <1>6, <2>1, <2>3 DEF Subscribing, ClockTick, AgeTable
  <1>7. CASE DropService
    BY <1>7 DEF DropService, StopUpdater, AbortUpdater, AbortSender, updaterVars, Subscribing
  <1>8. CASE UNCHANGED vars
    BY <1>8 DEF vars, mailboxes, updaterVars, Subscribing
  <1> QED BY <1>1, <1>2, <1>3, <1>4, <1>5, <1>6, <1>7, <1>8
          DEF Next, SenderSideActs, UpdaterActs, UpdaterStep

(* What the updater does to the table and to the sender's mailbox: either  *)
(* it sends the new size, or the peers it knows stay the same.             *)
LEMMA UpdaterSideEffects ==
  ASSUME NodeInv, UpdaterActs
  PROVE  /\ UNCHANGED <<running, swarm_size>>
         /\ Cardinality(DOMAIN peers') \in Nat
         /\ IF Reports
            THEN sender_mailbox' = SendTo("sender", sender_mailbox,
                                          SizeUpdateMsg(Cardinality(DOMAIN peers')))
            ELSE UNCHANGED sender_mailbox /\ DOMAIN peers' = DOMAIN peers
  <1> USE DEF NodeInv
  <1>1. TypeOK'
    BY NodeTypeStep DEF Next
  <1>2. Cardinality(DOMAIN peers') \in Nat
    BY <1>1, PeerMapSize DEF TypeOK, UpdaterTypeOK
  <1>3. CASE OnPeers \/ OnSubscription
    <2>1. ~Reports /\ UNCHANGED <<running, sender_mailbox, peers>>
      BY <1>3 DEF OnPeers, OnSubscription, Reports, Take, Idle, Receives
    <2> QED BY <1>2, <2>1 DEF UpdaterActs, senderVars
  <1>4. CASE OnPeer
    <2>1. PICK id \in DOMAIN batch :
            /\ peers' = [x \in DOMAIN peers \cup {id} |->
                           IF x = id THEN batch[id] ELSE peers[x]]
            /\ IF id \in DOMAIN peers
               THEN UNCHANGED sender_mailbox
               ELSE NotifySize(Cardinality(DOMAIN peers'))
      BY <1>4 DEF OnPeer
    <2>2. subscribed
      BY <2>1 DEF Subscribing
    <2>3. DOMAIN peers' = DOMAIN peers \cup {id}
      BY <2>1
    <2>4. Reports <=> id \notin DOMAIN peers
      BY <2>1, <2>2, <2>3 DEF Reports
    <2> QED BY <1>2, <1>4, <2>1, <2>2, <2>3, <2>4
            DEF UpdaterActs, senderVars, OnPeer, NotifySize
  <1>5. CASE OnGC
    <2>1. /\ DOMAIN batch = {} /\ Head(updater_mailbox).type = "GC"
          /\ subscribed
      BY <1>5 DEF OnGC, Take, Idle, Receives, Subscribing
    <2>2. Reports <=> DOMAIN peers # {}
      BY <2>1 DEF Reports
    <2>3. CASE DOMAIN peers = {}
      BY <1>2, <1>5, <2>2, <2>3 DEF OnGC, UpdaterActs, senderVars
    <2>4. CASE DOMAIN peers # {}
      <3> DEFINE n == Cardinality(DOMAIN peers)
                 kept == {id \in DOMAIN peers : Keep(peers[id].age, n)}
      <3>1. peers' = [id \in kept |-> peers[id]] /\ NotifySize(Cardinality(kept))
        BY <1>5, <2>4 DEF OnGC
      <3> HIDE DEF kept, n
      <3>2. DOMAIN peers' = kept
        BY <3>1
      <3> QED BY <1>2, <1>5, <2>1, <2>2, <2>4, <3>1, <3>2
              DEF OnGC, UpdaterActs, senderVars, NotifySize
    <2> QED BY <2>3, <2>4
  <1> QED BY <1>3, <1>4, <1>5 DEF UpdaterActs, UpdaterStep

LEMMA FollowsStep ==
  ASSUME NodeInv, [Next]_vars
  PROVE  Follows'
  <1> USE DEF NodeInv
  <1> SUFFICES ASSUME "sender" \in running'
               PROVE  /\ notice' = "taken" =>
                           LeadsTo(sender_mailbox', swarm_size', Cardinality(DOMAIN peers'))
                      /\ notice' = "none" =>
                           LeadsTo(sender_mailbox', swarm_size', 1) /\ DOMAIN peers' = {}
    BY DEF Follows
  <1>1. "sender" \in running
    BY SenderSideEffects, UpdaterSideEffects
       DEF Next, SenderSideActs, GCActs, GCWake, GCSend, ClockTick, AgeTable, DropService,
           StopUpdater, AbortUpdater, AbortSender, vars
  <1>2. sender_mailbox \in Seq(MdnsMsg)
    BY DEF TypeOK, SenderTypeOK, ActorsTypeOK
  <1>3. CASE SenderSideActs
    <2>1. UNCHANGED <<peers, notice>>
      BY <1>3, SenderSideEffects DEF updaterVars
    <2>2. ASSUME NEW v, LeadsTo(sender_mailbox, swarm_size, v)
          PROVE  LeadsTo(sender_mailbox', swarm_size', v)
      <3>1. CASE UNCHANGED <<sender_mailbox, swarm_size>>
        BY <2>2, <3>1
      <3>2. CASE /\ sender_mailbox # <<>>
                 /\ sender_mailbox' = Tail(sender_mailbox)
                 /\ swarm_size' = IF Head(sender_mailbox).type = "SizeUpdate"
                                  THEN Head(sender_mailbox).size ELSE swarm_size
        BY <1>2, <2>2, <3>2, LeadsToTail
      <3>3. CASE /\ UNCHANGED swarm_size
                 /\ \E m \in MdnsMsg :
                      /\ m.type # "SizeUpdate"
                      /\ sender_mailbox' = SendTo("sender", sender_mailbox, m)
        BY <1>2, <2>2, <3>3, LeadsToSend
      <3> QED BY <1>3, <3>1, <3>2, <3>3, SenderSideEffects
    <2> QED BY <1>1, <2>1, <2>2 DEF Follows
  <1>4. CASE UpdaterActs
    <2>1. CASE Reports /\ Accepts("sender", sender_mailbox)
      <3> DEFINE n == Cardinality(DOMAIN peers')
                 m == SizeUpdateMsg(n)
      <3>1. sender_mailbox' = SendTo("sender", sender_mailbox, m) /\ n \in Nat
        BY <1>4, <2>1, UpdaterSideEffects
      <3>2. m \in MdnsMsg /\ m.type = "SizeUpdate" /\ m.size = n
        BY <3>1, MessagesTyped DEF SizeUpdateMsg
      <3>3. LeadsTo(SendTo("sender", sender_mailbox, m), swarm_size', n)
        <4> HIDE DEF m, n
        <4> QED BY <1>2, <2>1, <3>2, LeadsToSend
      <3>4. notice' = "taken"
        BY <1>4, <2>1 DEF UpdaterActs
      <3> QED BY <3>1, <3>3, <3>4
    <2>2. CASE Reports /\ ~Accepts("sender", sender_mailbox)
      BY <1>4, <2>2 DEF UpdaterActs
    <2>3. CASE ~Reports
      <3>1. UNCHANGED <<sender_mailbox, swarm_size, notice>> /\ DOMAIN peers' = DOMAIN peers
        BY <1>4, <2>3, UpdaterSideEffects DEF UpdaterActs
      <3> QED BY <1>1, <3>1 DEF Follows
    <2> QED BY <2>1, <2>2, <2>3
  <1>5. CASE GCActs \/ DropService \/ UNCHANGED vars
    <2>1. UNCHANGED <<sender_mailbox, swarm_size, peers, notice>>
      BY <1>1, <1>5 DEF GCActs, GCWake, GCSend, DropService, StopUpdater, AbortUpdater,
                       AbortSender, vars, mailboxes, senderVars, updaterVars, history
    <2> QED BY <1>1, <2>1 DEF Follows
  <1>6. CASE ClockTick
    <2>1. DOMAIN peers' = DOMAIN peers
      BY <1>6, AgedPeersFacts DEF ClockTick, AgeTable, TypeOK, UpdaterTypeOK
    <2>2. /\ sender_mailbox' = AgedMailbox(sender_mailbox)
          /\ UNCHANGED <<swarm_size, notice>>
      BY <1>6 DEF ClockTick, senderVars, history
    <2> QED BY <1>1, <1>2, <2>1, <2>2, LeadsToAged DEF Follows
  <1> QED BY <1>3, <1>4, <1>5, <1>6 DEF Next, SenderSideActs

LEMMA NodeInvFresh == NodeInv => SizeFresh
BY LeadsToIsEventual DEF NodeInv, TypeOK, Follows, SizeFresh

(* However announcements, prunings, reports and refusals interleave, the   *)
(* last report the sender's mailbox took is what its estimate comes to.    *)
THEOREM NodeSizeFresh == Spec => []SizeFresh
  <1>1. NodeInv /\ [Next]_vars => NodeInv'
    BY NodeTypeStep, SubscribingStep, FollowsStep DEF NodeInv
  <1> QED BY NodeInvInit, NodeInvFresh, <1>1, PTL DEF Spec
-----------------------------------------------------------------------------
(* What was proved of each actor against any other holds of the two        *)
(* together.                                                               *)

LEMMA NodeInvStep == NodeInv /\ [Next]_vars => NodeInv'
BY NodeTypeStep, SubscribingStep, FollowsStep DEF NodeInv

(* The timers under steps that leave the sender's own state alone.         *)
LEMMA TimersKept ==
  ASSUME NodeInv, TimerDiscipline, WakeUpPending, [Next]_vars, ~SenderSideActs
  PROVE  TimerDiscipline' /\ WakeUpPending'
  <1> USE DEF NodeInv, TypeOK
  <1>1. UNCHANGED <<phase, timeout_count, timers, stranded>>
    BY DEF Next, SenderSideActs, UpdaterActs, GCActs, ClockTick, DropService, senderVars,
           vars
  <1>2. CurrentTimers' = CurrentTimers
    BY <1>1 DEF CurrentTimers
  <1>3. CASE UpdaterActs /\ Reports
    <2>1. PICK n \in Nat :
            /\ sender_mailbox' = SendTo("sender", sender_mailbox, SizeUpdateMsg(n))
            /\ UNCHANGED running
      BY <1>3, UpdaterSideEffects
    <2>2. SizeUpdateMsg(n) \in MdnsMsg /\ SizeUpdateMsg(n).type # "Timeout"
      BY MessagesTyped DEF SizeUpdateMsg
    <2>3. Awaited' <=> Awaited
      BY <1>1, <2>1, <2>2, AwaitedSend
    <2>4. WakeUpPending'
      BY <1>1, <2>1, <2>3 DEF WakeUpPending, Awaited
    <2> QED BY <1>1, <2>1, <2>2, <2>4, DisciplineSend
  <1>4. CASE UNCHANGED <<running, sender_mailbox>>
    BY <1>1, <1>4 DEF TimerDiscipline, WakeUpPending, CurrentTimers, CurrentTimeouts
  <1>5. CASE ClockTick
    <2>1. /\ Len(sender_mailbox') = Len(sender_mailbox)
          /\ \A i \in 1..Len(sender_mailbox) :
               /\ sender_mailbox'[i].type = sender_mailbox[i].type
               /\ sender_mailbox[i].type # "Response" =>
                    sender_mailbox'[i] = sender_mailbox[i]
      BY <1>5, AgedSenderMailbox DEF ClockTick, SenderTypeOK, ActorsTypeOK
    <2>2. /\ CurrentTimeouts' = CurrentTimeouts
          /\ \A i \in CurrentTimeouts : sender_mailbox'[i] = sender_mailbox[i]
      BY <1>1, <2>1 DEF CurrentTimeouts
    <2>3. UNCHANGED running
      BY <1>5 DEF ClockTick, AgeTable
    <2> QED BY <1>1, <1>2, <2>2, <2>3 DEF TimerDiscipline, WakeUpPending
  <1>6. CASE AbortSender
    <2>1. sender_mailbox' = <<>> /\ "sender" \notin running'
      BY <1>6 DEF AbortSender
    <2>2. CurrentTimeouts' = {}
      BY <2>1 DEF CurrentTimeouts
    <2> QED BY <1>1, <1>2, <2>1, <2>2 DEF TimerDiscipline, WakeUpPending
  <1>7. CASE StopUpdater
    <2>1. UNCHANGED sender_mailbox /\ ("sender" \in running' <=> "sender" \in running)
      BY <1>7 DEF StopUpdater, AbortUpdater
    <2>2. CurrentTimeouts' = CurrentTimeouts
      BY <1>1, <2>1 DEF CurrentTimeouts
    <2> QED BY <1>1, <1>2, <2>1, <2>2 DEF TimerDiscipline, WakeUpPending, CurrentTimeouts
  <1> QED BY <1>3, <1>4, <1>5, <1>6, <1>7, UpdaterSideEffects
          DEF Next, SenderSideActs, GCActs, GCWake, GCSend, DropService, vars, mailboxes

(* GcChain and ViewMatches under steps of the sender and its environment,  *)
(* and of the clock.                                                       *)
LEMMA ChainKept ==
  ASSUME TypeOK, GcChain, SenderSideActs \/ ClockTick
  PROVE  GcChain'
  <1> USE DEF TypeOK
  <1>1. UNCHANGED <<running, gc_sleeping, gc_due>>
    BY SenderSideEffects DEF updaterVars, ClockTick, AgeTable
  <1>2. GCPending' = GCPending
    <2>1. CASE UNCHANGED updater_mailbox
      BY <2>1 DEF GCPending
    <2>2. CASE \E m \in UpdaterInput :
                 /\ m.type # "GC"
                 /\ updater_mailbox' = SendTo("updater", updater_mailbox, m)
      BY <2>2, PendingAfterSend
    <2>3. CASE ClockTick
      BY <2>3, AgedMailboxFacts
         DEF ClockTick, AgeTable, GCPending, UpdaterTypeOK, ActorsTypeOK
    <2> QED BY <2>1, <2>2, <2>3, SenderSideEffects
  <1> QED BY <1>1, <1>2 DEF GcChain

Parts == TimerDiscipline /\ WakeUpPending /\ HandicapDecays /\ GcChain /\ ViewMatches

LEMMA PartsInit == Init => Parts
BY SenderInvInit, ChainInit, ViewInit DEF Init, SInit, UInit, Parts

LEMMA PartsStep == NodeInv /\ Parts /\ [Next]_vars => Parts'
  <1> SUFFICES ASSUME NodeInv, Parts, [Next]_vars PROVE Parts'
    OBVIOUS
  <1> USE DEF Parts, NodeInv, TypeOK
  <1>1. CASE SenderSideActs
    <2>1. TimerDiscipline' /\ WakeUpPending' /\ HandicapDecays'
      BY <1>1, SenderSide, DisciplineStep, AwaitedStep, HandicapStep
    <2>2. ViewMatches'
      BY <1>1, SenderSide DEF updaterVars, ViewMatches
    <2> QED BY <1>1, <2>1, <2>2, ChainKept
  <1>2. CASE ~SenderSideActs
    <2>1. TimerDiscipline' /\ WakeUpPending'
      BY <1>2, TimersKept
    <2>2. HandicapDecays'
      BY <1>2 DEF Next, SenderSideActs, UpdaterActs, GCActs, ClockTick, DropService,
                  senderVars, vars, HandicapDecays, HandicapAfter
    <2>3. CASE UpdaterActs \/ GCActs \/ DropService
      BY <2>1, <2>2, <2>3, UpdaterSide, ChainStep, ViewStep
    <2>4. CASE ClockTick
      BY <2>1, <2>2, <2>4, ChainKept, ViewAged DEF ClockTick, AgeTable
    <2>5. CASE UNCHANGED vars
      BY <2>1, <2>2, <2>5
         DEF vars, mailboxes, updaterVars, GcChain, GCPending, ViewMatches
    <2> QED BY <1>2, <2>3, <2>4, <2>5 DEF Next, SenderSideActs
  <1> QED BY <1>1, <1>2

(* The timers, the handicap, the GC tasks and the application's picture    *)
(* stay in order when sender and updater run against each other and a      *)
(* clock instead of arbitrary environments.                                *)
THEOREM NodeKeepsParts == Spec => []Parts
  <1>1. Init => NodeInv /\ Parts
    BY NodeInvInit, PartsInit
  <1>2. NodeInv /\ Parts /\ [Next]_vars => (NodeInv /\ Parts)'
    BY NodeInvStep, PartsStep
  <1> QED BY <1>1, <1>2, PTL DEF Spec

-----------------------------------------------------------------------------
(* The order of announcements across both mailboxes.                       *)

(* Ages of what was heard of peer id before what waits for the sender.     *)
Ahead(id) == AgesHeard(id) \cup Ages(updater_mailbox, id)

NodeInOrder(id) == InOrder(id) /\ InLine(sender_mailbox, id, Ahead(id))

NodeOrder == \A id \in PeerIds : NodeInOrder(id)

LEMMA SenderStepMailboxes ==
  ASSUME TypeOK, SenderStep
  PROVE  /\ Receives("sender", sender_mailbox, Head(sender_mailbox).type)
         /\ sender_mailbox # <<>> /\ sender_mailbox' = Tail(sender_mailbox)
         /\ UNCHANGED running
         /\ IF Head(sender_mailbox).type = "Response"
            THEN updater_mailbox' = SendTo("updater", updater_mailbox,
                                           PeersMsg(Head(sender_mailbox).peers))
            ELSE UNCHANGED updater_mailbox
  <1> USE DEF Receive, Receives
  <1>1. CASE OnQuery \/ OnQueryTimeout \/ OnResponseTimeout \/ OnUpdate \/ OnSizeUpdate
    BY <1>1 DEF OnQuery, OnQueryTimeout, OnResponseTimeout, OnUpdate, OnSizeUpdate
  <1>2. CASE OnLateResponse \/ OnResponse
    BY <1>2 DEF OnLateResponse, OnResponse, Forward
  <1>3. CASE OnIgnored
    BY <1>3 DEF OnIgnored, QueryTypes
  <1> QED BY <1>1, <1>2, <1>3 DEF SenderStep

(* A message that says nothing of the peer, or nothing at all.             *)
LEMMA OrderAside ==
  ASSUME TypeOK, NEW id \in PeerIds, NodeInOrder(id), InOrder(id)',
         Ahead(id)' \subseteq Ahead(id),
         \/ UNCHANGED sender_mailbox
         \/ sender_mailbox' = <<>>
         \/ \E m \in MdnsMsg :
              ~Carries(m, id) /\ sender_mailbox' = SendTo("sender", sender_mailbox, m)
  PROVE  NodeInOrder(id)'
  <1>1. sender_mailbox \in Seq(MdnsMsg) /\ InLine(sender_mailbox, id, Ahead(id)')
    BY InLineLess DEF NodeInOrder, TypeOK, SenderTypeOK, ActorsTypeOK
  <1>2. CASE sender_mailbox' = <<>>
    <2>1. Carriers(<<>>, id) = {}
      BY DEF Carriers
    <2>2. InLine(sender_mailbox', id, Ahead(id)')
      BY <1>2, <2>1 DEF InLine
    <2> QED BY <2>2 DEF NodeInOrder
  <1>3. CASE UNCHANGED sender_mailbox
    BY <1>1, <1>3 DEF NodeInOrder
  <1>4. ASSUME NEW m \in MdnsMsg, ~Carries(m, id),
               sender_mailbox' = SendTo("sender", sender_mailbox, m)
        PROVE  NodeInOrder(id)'
    <2>1. InLine(sender_mailbox', id, Ahead(id)')
      BY <1>1, <1>4, InLineSend
    <2> QED BY <2>1 DEF NodeInOrder
  <1> QED BY <1>2, <1>3, <1>4

LEMMA AheadTyped ==
  ASSUME TypeOK, NEW id
  PROVE  Ahead(id) \subseteq Nat
BY HeardTyped DEF Ahead, TypeOK

(* What the sender passes on waited longer than what still waits for it.   *)
LEMMA OrderSender ==
  ASSUME TypeOK, SenderActs, NEW id \in PeerIds, NodeInOrder(id)
  PROVE  NodeInOrder(id)'
  <1> DEFINE s == sender_mailbox
             h == Head(s)
  <1>1. /\ s \in Seq(MdnsMsg) /\ InLine(s, id, Ahead(id)) /\ InOrder(id)
        /\ UNCHANGED <<peers, batch>>
    BY DEF NodeInOrder, TypeOK, SenderTypeOK, ActorsTypeOK, SenderActs, updaterVars
  <1>2. /\ s # <<>> /\ s' = Tail(s)
        /\ IF h.type = "Response"
           THEN updater_mailbox' = SendTo("updater", updater_mailbox, PeersMsg(h.peers))
           ELSE UNCHANGED updater_mailbox
    BY SenderStepMailboxes DEF SenderActs
  <1> HIDE DEF s, h
  <1>3. /\ h \in MdnsMsg
        /\ InLine(s', id, Ahead(id))
        /\ Carries(h, id) => /\ InLine(s', id, Ahead(id) \cup {h.peers[id].age})
                             /\ NotOlder(h.peers[id].age, Ahead(id))
    BY <1>1, <1>2, HeadAndTail, InLineTail DEF h
  <1>4. CASE h.type = "Response"
    <2> DEFINE m == PeersMsg(h.peers)
    <2>1. m \in UpdaterInput /\ m.peers = h.peers
      BY <1>3, <1>4, MdnsMsgFields DEF PeersMsg, UpdaterInput
    <2>2. Carries(m, id) <=> Carries(h, id)
      BY <1>4 DEF Carries, PeersMsg
    <2>3. updater_mailbox' = SendTo("updater", updater_mailbox, m)
      BY <1>2, <1>4
    <2> HIDE DEF m
    <2>4. /\ InOrder(id)' /\ AgesHeard(id)' = AgesHeard(id)
          /\ Ages(updater_mailbox, id)'
               \subseteq Ages(updater_mailbox, id) \cup
                         {a \in {h.peers[id].age} : Carries(h, id)}
      BY <1>1, <1>3, <2>1, <2>2, <2>3, OrderSend DEF Ahead, TypeOK
    <2>5. CASE Carries(h, id)
      <3>1. Ahead(id)' \subseteq Ahead(id) \cup {h.peers[id].age}
        BY <2>4 DEF Ahead
      <3>2. InLine(s', id, Ahead(id)')
        BY <1>3, <2>5, <3>1, InLineLess
      <3> QED BY <2>4, <3>2 DEF NodeInOrder, s
    <2>6. CASE ~Carries(h, id)
      <3>1. Ahead(id)' \subseteq Ahead(id)
        BY <2>4, <2>6 DEF Ahead
      <3>2. InLine(s', id, Ahead(id)')
        BY <1>3, <3>1, InLineLess
      <3> QED BY <2>4, <3>2 DEF NodeInOrder, s
    <2> QED BY <2>5, <2>6
  <1>5. CASE h.type # "Response"
    <2>1. InOrder(id)' /\ Ahead(id)' \subseteq Ahead(id)
      BY <1>1, <1>2, <1>5, OrderKept DEF Ahead
    <2>2. InLine(s', id, Ahead(id)')
      BY <1>3, <2>1, InLineLess
    <2> QED BY <2>1, <2>2 DEF NodeInOrder, s
  <1> QED BY <1>4, <1>5

(* What a receiver hands over is the latest.                               *)
LEMMA OrderEnvironment ==
  ASSUME TypeOK, EnvironmentActs, NEW id \in PeerIds, NodeInOrder(id)
  PROVE  NodeInOrder(id)'
  <1>1. UNCHANGED <<updater_mailbox, peers, batch>>
    BY DEF EnvironmentActs, ReceivePacket, ReceiveOwnPacket, ForgetOwnPacket,
           GuardianForwards, mailboxes, updaterVars
  <1>2. InOrder(id)' /\ Ahead(id)' \subseteq Ahead(id)
    BY <1>1, OrderKept DEF Ahead, NodeInOrder
  <1>3. CASE ForgetOwnPacket
    BY <1>2, <1>3, OrderAside DEF ForgetOwnPacket, mailboxes
  <1>4. CASE ~ForgetOwnPacket
    <2>1. PICK m : /\ Arrives(m)
                   /\ \/ \E t \in Queries : m = QueryMsg(t)
                      \/ \E p \in Payloads \cup OwnPayloads : m = ResponseMsg(p)
                      \/ \E op \in Ops : m = UpdateMsg(op)
      BY <1>4 DEF EnvironmentActs, ReceivePacket, ReceiveOwnPacket, GuardianForwards
    <2>2. m \in MdnsMsg
      BY <2>1, MessagesTyped, PayloadsAreMaps, SenderAssumption DEF SenderAssumption
    <2>3. sender_mailbox' = SendTo("sender", sender_mailbox, m)
      BY <2>1 DEF Arrives
    <2>4. CASE ~Carries(m, id)
      BY <1>2, <2>2, <2>3, <2>4, OrderAside
    <2>5. CASE Carries(m, id)
      <3>1. PICK p \in Payloads \cup OwnPayloads : m = ResponseMsg(p)
        BY <2>1, <2>5, SenderAssumption
           DEF Carries, QueryMsg, UpdateMsg, SenderAssumption, QueryTypes
      <3>2. m.peers = p /\ id \in DOMAIN p
        BY <2>5, <3>1 DEF Carries, ResponseMsg
      <3>3. m.peers[id].age = 0
        <4>1. PICK S : p \in [S -> [info : Infos, age : {0}]]
          BY <3>1 DEF Payloads, OwnPayloads
        <4>2. p[id] \in [info : Infos, age : {0}]
          BY <3>2, <4>1
        <4> QED BY <3>2, <4>2
      <3>4. Ahead(id) \cup Ages(sender_mailbox, id) \subseteq Nat
        <4>1. Ages(sender_mailbox, id) \subseteq 0..MaxAge
          BY AgesTyped DEF TypeOK, SenderTypeOK, ActorsTypeOK
        <4>2. 0..MaxAge \subseteq Nat
          BY ActorsAssumption DEF ActorsAssumption
        <4> QED BY <4>1, <4>2, AheadTyped
      <3>5. NotOlder(m.peers[id].age, Ahead(id) \cup Ages(sender_mailbox, id))
        BY <3>3, <3>4, UpdaterAssumption DEF NotOlder, UpdaterAssumption
      <3>6. sender_mailbox \in Seq(MdnsMsg) /\ InLine(sender_mailbox, id, Ahead(id))
        BY DEF NodeInOrder, TypeOK, SenderTypeOK, ActorsTypeOK
      <3>7. InLine(sender_mailbox', id, Ahead(id))
        BY <2>2, <2>3, <3>5, <3>6, InLineSend
      <3>8. InLine(sender_mailbox', id, Ahead(id)')
        BY <1>2, <3>7, InLineLess
      <3> QED BY <1>2, <3>8 DEF NodeInOrder
    <2> QED BY <2>4, <2>5
  <1> QED BY <1>3, <1>4

LEMMA OrderTick ==
  ASSUME TypeOK, ClockTick, NEW id \in PeerIds, NodeInOrder(id)
  PROVE  NodeInOrder(id)'
  <1>1. AgeTable /\ sender_mailbox' = AgedMailbox(sender_mailbox)
    BY DEF ClockTick
  <1>2. sender_mailbox \in Seq(MdnsMsg) /\ InLine(sender_mailbox, id, Ahead(id))
    BY DEF NodeInOrder, TypeOK, SenderTypeOK, ActorsTypeOK
  <1>3. InOrder(id)' /\ Ahead(id)' \subseteq Older(Ahead(id))
    BY <1>1, OrderAged DEF Ahead, Older, NodeInOrder, TypeOK
  <1>4. InLine(sender_mailbox', id, Older(Ahead(id)))
    BY <1>1, <1>2, AheadTyped, InLineAged
  <1>5. InLine(sender_mailbox', id, Ahead(id)')
    BY <1>3, <1>4, InLineLess
  <1> QED BY <1>3, <1>5 DEF NodeInOrder

LEMMA NodeOrderInit == Init => NodeOrder
  <1> SUFFICES ASSUME Init, NEW id \in PeerIds PROVE NodeInOrder(id)
    BY DEF NodeOrder
  <1>1. InOrder(id)
    BY OrderInit DEF Init, UInit
  <1>2. Carriers(sender_mailbox, id) = {}
    BY DEF Init, ActorsInit, Carriers
  <1> QED BY <1>1, <1>2 DEF NodeInOrder, InLine

LEMMA NodeOrderStep == NodeInv /\ NodeOrder /\ [Next]_vars => NodeOrder'
  <1> SUFFICES ASSUME NodeInv, [Next]_vars, NEW id \in PeerIds, NodeInOrder(id)
               PROVE  NodeInOrder(id)'
    BY DEF NodeOrder
  <1> USE DEF NodeInv
  <1>1. CASE SenderActs
    BY <1>1, OrderSender
  <1>2. ASSUME NEW c \in Counts, TimerActs(c) PROVE NodeInOrder(id)'
    <2>1. UNCHANGED <<updater_mailbox, peers, batch>>
      BY <1>2 DEF TimerActs, TimerWake, TimerSend, mailboxes, updaterVars
    <2>2. InOrder(id)' /\ Ahead(id)' \subseteq Ahead(id)
      BY <2>1, OrderKept DEF Ahead, NodeInOrder
    <2>3. CASE TimerWake(c)
      BY <2>2, <2>3, OrderAside DEF TimerWake, mailboxes
    <2>4. CASE TimerSend(c)
      <3>1. PICK t \in timers :
              sender_mailbox' = SendTo("sender", sender_mailbox, TimeoutMsg(c, t.armed))
        BY <2>4 DEF TimerSend
      <3>2. TimeoutMsg(c, t.armed) \in MdnsMsg
        BY MessagesTyped, SenderAssumption
           DEF TypeOK, SenderTypeOK, Timer, Counts, SenderAssumption
      <3>3. ~Carries(TimeoutMsg(c, t.armed), id)
        BY DEF Carries, TimeoutMsg
      <3> QED BY <2>2, <3>1, <3>2, <3>3, OrderAside
    <2> QED BY <1>2, <2>3, <2>4 DEF TimerActs
  <1>3. CASE UpdaterActs
    <2>1. InOrder(id)' /\ Ahead(id)' \subseteq Ahead(id)
      BY <1>3, OrderUpdater DEF UpdaterActs, Ahead, NodeInOrder, TypeOK
    <2>2. \/ UNCHANGED sender_mailbox
          \/ \E m \in MdnsMsg :
               ~Carries(m, id) /\ sender_mailbox' = SendTo("sender", sender_mailbox, m)
      <3>1. \/ UNCHANGED sender_mailbox
            \/ /\ Cardinality(DOMAIN peers') \in Nat
               /\ sender_mailbox' = SendTo("sender", sender_mailbox,
                                           SizeUpdateMsg(Cardinality(DOMAIN peers')))
        BY <1>3, UpdaterSideEffects
      <3>2. \A n \in Nat : SizeUpdateMsg(n) \in MdnsMsg /\ ~Carries(SizeUpdateMsg(n), id)
        BY DEF SizeUpdateMsg, MdnsMsg, Carries
      <3> QED BY <3>1, <3>2
    <2> QED BY <2>1, <2>2, OrderAside
  <1>4. CASE GCActs
    <2>1. UNCHANGED <<sender_mailbox, peers, batch>>
      BY <1>4 DEF GCActs, GCWake, GCSend, mailboxes
    <2>2. GCMsg \in UpdaterInput /\ ~Carries(GCMsg, id)
      BY DEF GCMsg, UpdaterInput, Carries
    <2>3. \/ UNCHANGED updater_mailbox
          \/ updater_mailbox' = SendTo("updater", updater_mailbox, GCMsg)
      BY <1>4 DEF GCActs, GCWake, GCSend, mailboxes
    <2>4. InOrder(id)' /\ Ahead(id)' \subseteq Ahead(id)
      <3>1. CASE UNCHANGED updater_mailbox
        BY <2>1, <3>1, OrderKept DEF Ahead, NodeInOrder
      <3>2. CASE updater_mailbox' = SendTo("updater", updater_mailbox, GCMsg)
        BY <2>1, <2>2, <3>2, OrderSend DEF Ahead, NodeInOrder, TypeOK
      <3> QED BY <2>3, <3>1, <3>2
    <2> QED BY <2>1, <2>4, OrderAside
  <1>5. CASE EnvironmentActs
    BY <1>5, OrderEnvironment
  <1>6. CASE ClockTick
    BY <1>6, OrderTick
  <1>7. CASE DropService \/ UNCHANGED vars
    <2>1. /\ UNCHANGED <<peers, batch>>
          /\ updater_mailbox' = updater_mailbox \/ updater_mailbox' = <<>>
          /\ sender_mailbox' = sender_mailbox \/ sender_mailbox' = <<>>
      BY <1>7 DEF DropService, StopUpdater, AbortUpdater, AbortSender, updaterVars,
                  vars, mailboxes
    <2>2. InOrder(id)' /\ Ahead(id)' \subseteq Ahead(id)
      BY <2>1, OrderKept DEF Ahead, NodeInOrder
    <2> QED BY <2>1, <2>2, OrderAside
  <1> QED BY <1>1, <1>2, <1>3, <1>4, <1>5, <1>6, <1>7 DEF Next

LEMMA NodeDirectoryStep ==
  NodeInv /\ Parts /\ NodeOrder /\ NodeInv' /\ Parts' /\ [Next]_vars
    => [Directory!DirNext]_(Directory!dirVars)
  <1> SUFFICES ASSUME NodeInv, Parts, NodeOrder, NodeInv', Parts', [Next]_vars
               PROVE  [Directory!DirNext]_(Directory!dirVars)
    OBVIOUS
  <1> USE DEF Parts, NodeInv, TypeOK
  <1>1. CASE UpdaterActs \/ GCActs \/ DropService
    BY <1>1, UpdaterSide, DirectoryStep DEF NodeOrder, NodeInOrder, AllInOrder
  <1>2. CASE ClockTick
    BY <1>2, DirectoryAged DEF ClockTick, AgeTable, Directory!DirNext
  <1>3. CASE SenderSideActs \/ UNCHANGED vars
    <2>1. UNCHANGED <<peers, view>>
      BY <1>3, SenderSide DEF vars, updaterVars
    <2> QED BY <2>1 DEF Directory!dirVars
  <1> QED BY <1>1, <1>2, <1>3 DEF Next, SenderSideActs

(* A whole node, in which an announcement waits in two mailboxes for any   *)
(* time, keeps the same directory: no peer goes before its grace period is *)
(* over, and none is taken for longer silent because an announcement was   *)
(* overtaken on its way.                                                   *)
THEOREM NodeImplementsDirectory == Spec => DirectorySpec
  <1> DEFINE Inv == NodeInv /\ Parts /\ NodeOrder
  <1>1. Init => Inv
    BY NodeInvInit, PartsInit, NodeOrderInit
  <1>2. Inv /\ [Next]_vars => Inv'
    BY NodeInvStep, PartsStep, NodeOrderStep
  <1>3. Inv /\ Inv' /\ [Next]_vars => [Directory!DirNext]_(Directory!dirVars)
    BY NodeDirectoryStep
  <1>4. Init => Directory!DirInit
    BY DirectoryInit DEF Init, UInit
  <1> QED BY <1>1, <1>2, <1>3, <1>4, PTL
          DEF Spec, DirectorySpec, Directory!DirSpec
-----------------------------------------------------------------------------
(* Announcements on their way: what a mailbox says last of a peer.         *)

Says(box, id, before, v) ==
  \/ Carriers(box, id) = {} /\ before = v
  \/ \E i \in Carriers(box, id) :
       (\A j \in Carriers(box, id) : j <= i) /\ box[i].peers[id].info = v

LEMMA SaysTail ==
  ASSUME NEW S, NEW box \in Seq(S), box # <<>>, NEW id, NEW before, NEW v,
         Says(box, id, before, v), NEW next,
         IF Carries(Head(box), id) THEN next = Head(box).peers[id].info
                                   ELSE next = before
  PROVE  Says(Tail(box), id, next, v)
  <1> DEFINE tail == Tail(box)
  <1>1. /\ Len(box) \in Nat \ {0} /\ Len(tail) = Len(box) - 1
        /\ Head(box) = box[1]
        /\ \A i \in 1..Len(tail) : tail[i] = box[i + 1]
    BY HeadAndTail
  <1> HIDE DEF tail
  <1>2. \A i \in Carriers(tail, id) : i \in Nat /\ i + 1 \in Carriers(box, id)
    BY <1>1 DEF Carriers
  <1>3. \A i \in Carriers(box, id) :
          i \in Nat /\ (i # 1 => i - 1 \in Carriers(tail, id))
    BY <1>1 DEF Carriers
  <1>4. CASE Carriers(box, id) = {} /\ before = v
    <2>1. Carriers(tail, id) = {}
      BY <1>2, <1>4
    <2>2. ~Carries(Head(box), id)
      BY <1>1, <1>4 DEF Carriers
    <2> QED BY <1>4, <2>1, <2>2 DEF Says, tail
  <1>5. ASSUME NEW i \in Carriers(box, id), \A j \in Carriers(box, id) : j <= i,
               box[i].peers[id].info = v
        PROVE  Says(tail, id, next, v)
    <2>1. CASE i = 1
      <3>1. Carriers(tail, id) = {}
        BY <1>2, <1>5, <2>1 DEF Carriers
      <3>2. next = v
        BY <1>1, <1>5, <2>1 DEF Carriers
      <3> QED BY <3>1, <3>2 DEF Says
    <2>2. CASE i # 1
      <3>1. i - 1 \in Carriers(tail, id) /\ i \in Nat
        BY <1>3, <2>2
      <3>2. \A j \in Carriers(tail, id) : j <= i - 1
        BY <1>2, <1>5, <3>1
      <3>3. tail[i - 1] = box[i]
        BY <1>1, <1>5, <3>1 DEF Carriers
      <3> QED BY <1>5, <3>1, <3>2, <3>3 DEF Says
    <2> QED BY <2>1, <2>2
  <1> QED BY <1>4, <1>5 DEF Says, tail

LEMMA SaysSend ==
  ASSUME NEW S, NEW box \in Seq(S), NEW m \in S, NEW x, NEW id, NEW before,
         NEW v, Says(box, id, before, v)
  PROVE  /\ Accepts(x, box) /\ Carries(m, id) =>
              Says(SendTo(x, box, m), id, before, m.peers[id].info)
         /\ ~Accepts(x, box) \/ ~Carries(m, id) =>
              Says(SendTo(x, box, m), id, before, v)
  <1> DEFINE sent == SendTo(x, box, m)
  <1>1. CASE ~Accepts(x, box)
    BY <1>1 DEF SendTo
  <1>2. CASE Accepts(x, box)
    <2>1. /\ Len(box) \in Nat /\ Len(sent) = Len(box) + 1
          /\ sent[Len(box) + 1] = m
          /\ \A i \in 1..Len(box) : sent[i] = box[i]
      BY <1>2, SendToFacts
    <2> HIDE DEF sent
    <2>2. CASE Carries(m, id)
      <3>1. /\ Len(box) + 1 \in Carriers(sent, id)
            /\ \A j \in Carriers(sent, id) : j <= Len(box) + 1
        BY <2>1, <2>2 DEF Carriers
      <3>2. Says(sent, id, before, m.peers[id].info)
        BY <2>1, <3>1 DEF Says
      <3> QED BY <1>2, <2>2, <3>2 DEF sent
    <2>3. CASE ~Carries(m, id)
      <3>1. Carriers(sent, id) = Carriers(box, id)
        BY <2>1, <2>3 DEF Carriers
      <3>2. \A i \in Carriers(box, id) : sent[i] = box[i]
        BY <2>1 DEF Carriers
      <3>3. Says(sent, id, before, v)
        BY <3>1, <3>2 DEF Says
      <3> QED BY <2>3, <3>3 DEF sent
    <2> QED BY <2>2, <2>3
  <1> QED BY <1>1, <1>2

LEMMA SaysAged ==
  ASSUME NEW box, box \in Seq(MdnsMsg) \/ box \in Seq(UpdaterInput),
         NEW id, NEW before, NEW v, Says(box, id, before, v)
  PROVE  Says(AgedMailbox(box), id, before, v)
BY AgedCarriers DEF Says

LEMMA SaysIsLast ==
  ASSUME NEW S, NEW box \in Seq(S), NEW id, NEW before, NEW v,
         Says(box, id, before, v)
  PROVE  LastCarried(box, id, before) = v
  <1>1. ASSUME NEW i \in Carriers(box, id), \A j \in Carriers(box, id) : j <= i,
               box[i].peers[id].info = v
        PROVE  LastCarried(box, id, before) = v
    <2> DEFINE last == CHOOSE k \in Carriers(box, id) :
                         \A j \in Carriers(box, id) : j <= k
    <2>1. last \in Carriers(box, id) /\ \A j \in Carriers(box, id) : j <= last
      BY <1>1
    <2>2. Len(box) \in Nat
      BY LenProperties
    <2> HIDE DEF last
    <2>3. \A j \in Carriers(box, id) : j \in Nat
      BY <2>2 DEF Carriers
    <2>4. last <= i /\ i <= last
      BY <1>1, <2>1
    <2>5. last = i
      BY <2>1, <2>3, <2>4
    <2> QED BY <1>1, <2>5 DEF LastCarried, last
  <1> QED BY <1>1 DEF Says, LastCarried

(* What the application will know of a peer once the updater is through    *)
(* with the message it has begun.                                          *)
Known(id) == IF id \in DOMAIN batch THEN batch[id].info ELSE view[id]

(* With updater mailbox u, sender mailbox s and `known` before, the last   *)
(* word about peer id is l, unless that is Unknown.                        *)
Tracked(u, s, known, l, id) ==
  \E w, v : Says(u, id, known, w) /\ Says(s, id, w, v) /\ (l # Unknown => v = l)

(* InfoFresh, inductively.                                                 *)
InTransit ==
  running = ActorNames =>
    \A id \in PeerIds :
      Tracked(updater_mailbox, sender_mailbox, Known(id), latest[id], id)

LEMMA CarriersOfTail ==
  ASSUME NEW S, NEW box \in Seq(S), box # <<>>, NEW id,
         ~Carries(Head(box), id), Carriers(Tail(box), id) = {}
  PROVE  Carriers(box, id) = {}
  <1>1. /\ Len(box) \in Nat \ {0} /\ Len(Tail(box)) = Len(box) - 1
        /\ Head(box) = box[1]
        /\ \A i \in 1..Len(Tail(box)) : Tail(box)[i] = box[i + 1]
    BY HeadAndTail
  <1> SUFFICES ASSUME NEW i \in Carriers(box, id) PROVE FALSE
    OBVIOUS
  <1>2. i \in 1..Len(box) /\ Carries(box[i], id)
    BY DEF Carriers
  <1>3. i # 1
    BY <1>1, <1>2
  <1>4. i - 1 \in 1..Len(Tail(box)) /\ Tail(box)[i - 1] = box[i]
    BY <1>1, <1>2, <1>3
  <1> QED BY <1>2, <1>4 DEF Carriers

(* A message of the sender's mailbox that carries anything is a Response.  *)
LEMMA CarriesResponse ==
  ASSUME NEW m \in MdnsMsg, NEW id
  PROVE  Carries(m, id) <=> m.type = "Response" /\ id \in DOMAIN m.peers
BY DEF Carries, MdnsMsg, QueryTypes

LEMMA TransitSender ==
  ASSUME TypeOK, SenderActs, NEW id \in PeerIds,
         Tracked(updater_mailbox, sender_mailbox, Known(id), latest[id], id)
  PROVE  Tracked(updater_mailbox', sender_mailbox', Known(id)', latest'[id], id)
  <1> DEFINE h == Head(sender_mailbox)
             u == updater_mailbox
             s == sender_mailbox
  <1>1. s \in Seq(MdnsMsg) /\ u \in Seq(UpdaterInput)
    BY DEF TypeOK, SenderTypeOK, ActorsTypeOK
  <1>2. /\ s # <<>> /\ s' = Tail(s)
        /\ Receives("sender", s, h.type)
        /\ IF h.type = "Response"
           THEN u' = SendTo("updater", u, PeersMsg(h.peers)) ELSE u' = u
    BY SenderStepMailboxes DEF SenderActs
  <1>3. h \in MdnsMsg
    BY <1>1, <1>2, HeadAndTail
  <1>4. Known(id)' = Known(id)
    BY DEF SenderActs, Known, updaterVars
  <1>5. PICK w, v : /\ Says(u, id, Known(id), w) /\ Says(s, id, w, v)
                    /\ latest[id] # Unknown => v = latest[id]
    BY DEF Tracked
  <1>6. latest'[id] = IF id \in Refused THEN Unknown ELSE latest[id]
    BY DEF SenderActs, GiveUp
  <1>7. h.type = "Response" => PeersMsg(h.peers) \in UpdaterInput
    BY <1>3, MdnsMsgFields DEF PeersMsg, UpdaterInput
  <1>8. Carries(h, id) <=> h.type = "Response" /\ id \in DOMAIN h.peers
    BY <1>3, CarriesResponse
  <1>9. Carries(PeersMsg(h.peers), id) <=> id \in DOMAIN h.peers
    BY DEF Carries, PeersMsg
  <1>10. PeersMsg(h.peers).peers = h.peers
    BY DEF PeersMsg
  <1> HIDE DEF h, u, s
  <1>11. CASE ~Carries(h, id)
    <2>1. Says(s', id, w, v)
      BY <1>1, <1>2, <1>5, <1>11, SaysTail DEF h, s
    <2>2. Says(u', id, Known(id), w)
      BY <1>1, <1>2, <1>5, <1>7, <1>8, <1>9, <1>11, SaysSend
    <2>3. latest'[id] = latest[id]
      BY <1>2, <1>6, <1>8, <1>11 DEF Refused, h, s, Receives
    <2> QED BY <1>4, <1>5, <2>1, <2>2, <2>3 DEF Tracked, u, s
  <1>12. CASE Carries(h, id) /\ Accepts("updater", u)
    <2> DEFINE i == h.peers[id].info
    <2>1. Says(u', id, Known(id), i)
      BY <1>1, <1>2, <1>5, <1>7, <1>8, <1>9, <1>10, <1>12, SaysSend
    <2>2. Says(s', id, i, v)
      BY <1>1, <1>2, <1>5, <1>12, SaysTail DEF h, s
    <2>3. latest'[id] = latest[id]
      BY <1>6, <1>12 DEF Refused, u
    <2> QED BY <1>4, <1>5, <2>1, <2>2, <2>3 DEF Tracked, u, s
  <1>13. CASE Carries(h, id) /\ ~Accepts("updater", u)
    <2>1. u' = u
      BY <1>2, <1>8, <1>13 DEF SendTo
    <2>2. Says(s', id, h.peers[id].info, v)
      BY <1>1, <1>2, <1>5, <1>13, SaysTail DEF h, s
    <2>3. CASE Carriers(Tail(s), id) # {}
      <3>1. Says(s', id, w, v)
        BY <1>2, <2>2, <2>3 DEF Says
      <3>2. latest'[id] = latest[id]
        BY <1>6, <2>3 DEF Refused, s
      <3> QED BY <1>4, <1>5, <2>1, <3>1, <3>2 DEF Tracked, u, s
    <2>4. CASE Carriers(Tail(s), id) = {}
      <3>1. Says(s', id, w, w)
        BY <1>2, <2>4 DEF Says
      <3>2. id \in Refused
        BY <1>2, <1>8, <1>13, <2>4 DEF Refused, s, u, h
      <3>3. latest'[id] = Unknown
        BY <1>6, <3>2
      <3> QED BY <1>4, <1>5, <2>1, <3>1, <3>3 DEF Tracked, u, s
    <2> QED BY <2>3, <2>4
  <1> QED BY <1>11, <1>12, <1>13

(* A message that carries nothing about the peer changes nothing.          *)
LEMMA TransitAside ==
  ASSUME TypeOK, NEW id \in PeerIds,
         Tracked(updater_mailbox, sender_mailbox, Known(id), latest[id], id),
         \/ UNCHANGED sender_mailbox
         \/ \E m \in MdnsMsg :
              ~Carries(m, id) /\ sender_mailbox' = SendTo("sender", sender_mailbox, m),
         \/ UNCHANGED updater_mailbox
         \/ \E m \in UpdaterInput :
              ~Carries(m, id) /\ updater_mailbox' = SendTo("updater", updater_mailbox, m),
         Known(id)' = Known(id), latest'[id] = latest[id]
  PROVE  Tracked(updater_mailbox', sender_mailbox', Known(id)', latest'[id], id)
  <1>1. sender_mailbox \in Seq(MdnsMsg) /\ updater_mailbox \in Seq(UpdaterInput)
    BY DEF TypeOK, SenderTypeOK, ActorsTypeOK
  <1>2. PICK w, v : /\ Says(updater_mailbox, id, Known(id), w)
                    /\ Says(sender_mailbox, id, w, v)
                    /\ latest[id] # Unknown => v = latest[id]
    BY DEF Tracked
  <1>3. Says(sender_mailbox', id, w, v)
    BY <1>1, <1>2, SaysSend
  <1>4. Says(updater_mailbox', id, Known(id), w)
    BY <1>1, <1>2, SaysSend
  <1> QED BY <1>2, <1>3, <1>4 DEF Tracked

LEMMA TransitEnvironment ==
  ASSUME TypeOK, EnvironmentActs, NEW id \in PeerIds,
         Tracked(updater_mailbox, sender_mailbox, Known(id), latest[id], id)
  PROVE  Tracked(updater_mailbox', sender_mailbox', Known(id)', latest'[id], id)
  <1> DEFINE u == updater_mailbox
             s == sender_mailbox
  <1>1. s \in Seq(MdnsMsg) /\ Len(s) \in Nat
    BY LenProperties DEF TypeOK, SenderTypeOK, ActorsTypeOK
  <1>2. u' = u /\ Known(id)' = Known(id)
    BY DEF EnvironmentActs, ReceivePacket, ReceiveOwnPacket, ForgetOwnPacket,
           GuardianForwards, mailboxes, updaterVars, Known
  <1>3. latest'[id] = IF id \in Heard THEN s'[Len(s')].peers[id].info ELSE latest[id]
    BY DEF EnvironmentActs
  <1>4. CASE s' = s
    <2>1. latest'[id] = latest[id]
      BY <1>3, <1>4 DEF Heard
    <2> QED BY <1>2, <1>4, <2>1, TransitAside
  <1>5. CASE s' # s
    <2>1. PICK m : /\ Arrives(m)
                   /\ \/ \E t \in Queries : m = QueryMsg(t)
                      \/ \E p \in Payloads \cup OwnPayloads : m = ResponseMsg(p)
                      \/ \E op \in Ops : m = UpdateMsg(op)
      BY <1>5 DEF EnvironmentActs, ReceivePacket, ReceiveOwnPacket, ForgetOwnPacket,
                  GuardianForwards, mailboxes
    <2>2. m \in MdnsMsg
      BY <2>1, MessagesTyped, PayloadsAreMaps, SenderAssumption DEF SenderAssumption
    <2>3. s' = SendTo("sender", s, m) /\ Accepts("sender", s)
      BY <1>5, <2>1 DEF Arrives, SendTo
    <2>4. Len(s') = Len(s) + 1 /\ s'[Len(s')] = m
      BY <1>1, <2>2, <2>3, SendToFacts
    <2>5. id \in Heard <=> Carries(m, id)
      BY <1>1, <1>5, <2>4 DEF Heard, Carriers
    <2>6. PICK w, v : Says(u, id, Known(id), w) /\ Says(s, id, w, v)
      BY DEF Tracked
    <2> HIDE DEF u, s
    <2>7. CASE Carries(m, id)
      <3>1. Says(s', id, w, m.peers[id].info)
        BY <1>1, <2>2, <2>3, <2>6, <2>7, SaysSend
      <3>2. latest'[id] = m.peers[id].info
        BY <1>3, <2>4, <2>5, <2>7
      <3> QED BY <1>2, <2>6, <3>1, <3>2 DEF Tracked, u, s
    <2>8. CASE ~Carries(m, id)
      <3>1. latest'[id] = latest[id]
        BY <1>3, <2>5, <2>8
      <3> QED BY <1>2, <2>2, <2>3, <2>8, <3>1, TransitAside DEF u, s
    <2> QED BY <2>7, <2>8
  <1> QED BY <1>4, <1>5

(* A message for the sender about something else.                          *)
LEMMA TransitBeside ==
  ASSUME NEW id, NEW s \in Seq(MdnsMsg), NEW v, NEW w, NEW n \in Nat, Says(s, id, w, v)
  PROVE  Says(SendTo("sender", s, SizeUpdateMsg(n)), id, w, v)
  <1> DEFINE m == SizeUpdateMsg(n)
  <1>1. m \in MdnsMsg /\ m.type = "SizeUpdate"
    BY MessagesTyped DEF SizeUpdateMsg
  <1> HIDE DEF m
  <1>2. ~Carries(m, id)
    BY <1>1 DEF Carries
  <1>3. Says(SendTo("sender", s, m), id, w, v)
    BY <1>1, <1>2, SaysSend
  <1> QED BY <1>3 DEF m

(* Why a GC loses no announcement unseen: a peer it prunes has nothing on  *)
(* its way, or what is on its way has the last word anyhow.                *)
LEMMA TransitUpdater ==
  ASSUME NodeInv, UpdaterActs, NEW id \in PeerIds,
         Tracked(updater_mailbox, sender_mailbox, Known(id), latest[id], id)
  PROVE  Tracked(updater_mailbox', sender_mailbox', Known(id)', latest'[id], id)
  <1>1. /\ sender_mailbox \in Seq(MdnsMsg) /\ updater_mailbox \in Seq(UpdaterInput)
        /\ batch \in PeerMap /\ peers \in PeerMap
    BY DEF NodeInv, TypeOK, SenderTypeOK, UpdaterTypeOK, ActorsTypeOK
  <1>2. PICK w, v : /\ Says(updater_mailbox, id, Known(id), w)
                    /\ Says(sender_mailbox, id, w, v)
                    /\ latest[id] # Unknown => v = latest[id]
    BY DEF Tracked
  <1>3. \A x, y : Says(sender_mailbox, id, x, y) => Says(sender_mailbox', id, x, y)
    BY <1>1, UpdaterSideEffects, TransitBeside
  <1>4. latest'[id] = IF id \in Pruned THEN Unknown ELSE latest[id]
    BY DEF UpdaterActs, GiveUp
  <1>5. CASE OnPeers
    <2> DEFINE h == Head(updater_mailbox)
    <2>1. /\ updater_mailbox # <<>> /\ updater_mailbox' = Tail(updater_mailbox)
          /\ h.type = "Peers" /\ batch' = h.peers /\ DOMAIN batch = {}
          /\ UNCHANGED <<peers, view>>
      BY <1>5 DEF OnPeers, Take, Idle, Receives
    <2>2. IF Carries(h, id) THEN Known(id)' = h.peers[id].info
                            ELSE Known(id)' = Known(id)
      BY <2>1 DEF Known, Carries
    <2>3. Says(updater_mailbox', id, Known(id)', w)
      BY <1>1, <1>2, <2>1, <2>2, SaysTail
    <2>4. latest'[id] = latest[id]
      BY <1>4, <2>1 DEF Pruned
    <2> QED BY <1>2, <1>3, <2>3, <2>4 DEF Tracked
  <1>6. CASE OnPeer
    <2>1. PICK x \in DOMAIN batch :
            /\ CallBack([y \in {x} |-> batch[x].info])
            /\ peers' = [y \in DOMAIN peers \cup {x} |->
                           IF y = x THEN batch[x] ELSE peers[y]]
            /\ batch' = [y \in DOMAIN batch \ {x} |-> batch[y]]
            /\ UNCHANGED updater_mailbox
      BY <1>6 DEF OnPeer
    <2>2. Known(id)' = Known(id)
      BY <2>1 DEF CallBack, Known
    <2>3. latest'[id] = latest[id]
      BY <1>4, <2>1 DEF Pruned
    <2> QED BY <1>2, <1>3, <2>1, <2>2, <2>3 DEF Tracked
  <1>7. CASE OnGC
    <2>1. /\ updater_mailbox # <<>> /\ updater_mailbox' = Tail(updater_mailbox)
          /\ Head(updater_mailbox).type = "GC" /\ DOMAIN batch = {} /\ batch' = batch
      BY <1>7 DEF OnGC, Take, Idle, Receives
    <2>2. ~Carries(Head(updater_mailbox), id)
      BY <2>1 DEF Carries
    <2>3. Says(updater_mailbox', id, Known(id), w)
      BY <1>1, <1>2, <2>1, <2>2, SaysTail
    <2>4. \/ view'[id] = view[id]
          \/ id \in DOMAIN peers \ DOMAIN peers'
      <3>1. CASE DOMAIN peers = {}
        BY <1>7, <3>1 DEF OnGC
      <3>2. CASE DOMAIN peers # {}
        <4> DEFINE n == Cardinality(DOMAIN peers)
                   kept == {x \in DOMAIN peers : Keep(peers[x].age, n)}
        <4>1. /\ peers' = [x \in kept |-> peers[x]]
              /\ CallBack([x \in DOMAIN peers \ kept |-> Unknown])
          BY <1>7, <3>2 DEF OnGC
        <4> HIDE DEF kept, n
        <4> QED BY <4>1 DEF CallBack
      <3> QED BY <3>1, <3>2
    <2>5. CASE view'[id] = view[id] /\ id \notin Pruned
      <3>1. Known(id)' = Known(id)
        BY <2>1, <2>5 DEF Known
      <3> QED BY <1>2, <1>3, <1>4, <2>3, <2>5, <3>1 DEF Tracked
    <2>6. CASE Carriers(updater_mailbox', id) # {}
      <3>1. Says(updater_mailbox', id, Known(id)', w)
        BY <2>3, <2>6 DEF Says
      <3>2. Carriers(updater_mailbox, id) # {}
        <4>1. PICK i \in Carriers(Tail(updater_mailbox), id) : TRUE
          BY <2>1, <2>6
        <4>2. i \in Nat /\ i + 1 \in 1..Len(updater_mailbox)
              /\ Tail(updater_mailbox)[i] = updater_mailbox[i + 1]
          BY <1>1, <2>1, HeadAndTail DEF Carriers
        <4>3. i + 1 \in Carriers(updater_mailbox, id)
          BY <4>2 DEF Carriers
        <4> QED BY <4>3
      <3>3. id \notin Pruned
        BY <3>2 DEF Pruned
      <3> QED BY <1>2, <1>3, <1>4, <3>1, <3>3 DEF Tracked
    <2>7. CASE Carriers(updater_mailbox', id) = {} /\ Carriers(sender_mailbox, id) # {}
      <3>1. Says(updater_mailbox', id, Known(id)', Known(id)')
        BY <2>7 DEF Says
      <3>2. Says(sender_mailbox, id, Known(id)', v)
        BY <1>2, <2>7 DEF Says
      <3>3. id \notin Pruned
        BY <2>7 DEF Pruned
      <3> QED BY <1>2, <1>3, <1>4, <3>1, <3>2, <3>3 DEF Tracked
    <2>8. CASE id \in DOMAIN peers \ DOMAIN peers' /\ Carriers(updater_mailbox', id) = {}
               /\ Carriers(sender_mailbox, id) = {}
      <3>1. Carriers(updater_mailbox, id) = {}
        BY <1>1, <2>1, <2>2, <2>8, CarriersOfTail
      <3>2. latest'[id] = Unknown
        BY <1>4, <2>8, <3>1 DEF Pruned
      <3>3. Says(updater_mailbox', id, Known(id)', Known(id)')
        BY <2>8 DEF Says
      <3>4. Says(sender_mailbox', id, Known(id)', Known(id)')
        BY <1>3, <2>8 DEF Says
      <3> QED BY <3>2, <3>3, <3>4 DEF Tracked
    <2> QED BY <2>4, <2>5, <2>6, <2>7, <2>8 DEF Pruned
  <1>8. CASE OnSubscription
    <2>1. /\ updater_mailbox # <<>> /\ updater_mailbox' = Tail(updater_mailbox)
          /\ Head(updater_mailbox).type = "SizeSubscription"
          /\ UNCHANGED <<peers, batch, view>>
      BY <1>8 DEF OnSubscription, Take, Receives
    <2>2. ~Carries(Head(updater_mailbox), id) /\ Known(id)' = Known(id)
      BY <2>1 DEF Carries, Known
    <2>3. Says(updater_mailbox', id, Known(id)', w)
      BY <1>1, <1>2, <2>1, <2>2, SaysTail
    <2>4. latest'[id] = latest[id]
      BY <1>4, <2>1 DEF Pruned
    <2> QED BY <1>2, <1>3, <2>3, <2>4 DEF Tracked
  <1> QED BY <1>5, <1>6, <1>7, <1>8 DEF UpdaterActs, UpdaterStep

LEMMA TransitTick ==
  ASSUME TypeOK, ClockTick, NEW id \in PeerIds,
         Tracked(updater_mailbox, sender_mailbox, Known(id), latest[id], id)
  PROVE  Tracked(updater_mailbox', sender_mailbox', Known(id)', latest'[id], id)
  <1>1. /\ sender_mailbox \in Seq(MdnsMsg) /\ updater_mailbox \in Seq(UpdaterInput)
        /\ batch \in PeerMap
    BY DEF TypeOK, SenderTypeOK, UpdaterTypeOK, ActorsTypeOK
  <1>2. PICK w, v : /\ Says(updater_mailbox, id, Known(id), w)
                    /\ Says(sender_mailbox, id, w, v)
                    /\ latest[id] # Unknown => v = latest[id]
    BY DEF Tracked
  <1>3. /\ sender_mailbox' = AgedMailbox(sender_mailbox)
        /\ updater_mailbox' = AgedMailbox(updater_mailbox)
        /\ batch' = AgedPeers(batch) /\ UNCHANGED <<view, latest>>
    BY DEF ClockTick, AgeTable, history
  <1>4. Known(id)' = Known(id)
    BY <1>1, <1>3, AgedPeersFacts DEF Known
  <1>5. /\ Says(sender_mailbox', id, w, v)
        /\ Says(updater_mailbox', id, Known(id)', w)
    BY <1>1, <1>2, <1>3, <1>4, SaysAged
  <1> QED BY <1>2, <1>3, <1>5 DEF Tracked

LEMMA TransitInit == Init => InTransit
  <1> SUFFICES ASSUME Init, NEW id \in PeerIds
               PROVE  Tracked(updater_mailbox, sender_mailbox, Known(id), latest[id], id)
    BY DEF InTransit
  <1>1. Carriers(updater_mailbox, id) = {} /\ Carriers(sender_mailbox, id) = {}
    BY DEF Init, ActorsInit, SizeSubscriptionMsg, Carriers, Carries
  <1>2. latest[id] = Unknown
    BY DEF Init
  <1> QED BY <1>1, <1>2 DEF Says, Tracked

LEMMA TransitStep == NodeInv /\ InTransit /\ [Next]_vars => InTransit'
  <1> SUFFICES ASSUME NodeInv, InTransit, [Next]_vars, running' = ActorNames,
                      NEW id \in PeerIds
               PROVE  Tracked(updater_mailbox', sender_mailbox', Known(id)', latest'[id], id)
    BY DEF InTransit
  <1>1. running = ActorNames
    BY SenderSideEffects, UpdaterSideEffects
       DEF NodeInv, TypeOK, SenderTypeOK, ActorsTypeOK, Next, SenderSideActs, GCActs, GCWake,
           GCSend, ClockTick, AgeTable, DropService, StopUpdater, AbortUpdater, AbortSender,
           vars
  <1>2. Tracked(updater_mailbox, sender_mailbox, Known(id), latest[id], id) /\ TypeOK
    BY <1>1 DEF InTransit, NodeInv
  <1>3. CASE SenderActs
    BY <1>2, <1>3, TransitSender
  <1>4. ASSUME NEW c \in Counts, TimerActs(c)
        PROVE  Tracked(updater_mailbox', sender_mailbox', Known(id)', latest'[id], id)
    <2>1. UNCHANGED updater_mailbox /\ Known(id)' = Known(id) /\ latest'[id] = latest[id]
      BY <1>4 DEF TimerActs, TimerWake, TimerSend, mailboxes, updaterVars, history, Known
    <2>2. CASE TimerWake(c)
      BY <1>2, <2>1, <2>2, TransitAside DEF TimerWake, mailboxes
    <2>3. CASE TimerSend(c)
      <3>1. PICK t \in timers :
              sender_mailbox' = SendTo("sender", sender_mailbox, TimeoutMsg(c, t.armed))
        BY <2>3 DEF TimerSend
      <3>2. TimeoutMsg(c, t.armed) \in MdnsMsg
        BY <1>2, MessagesTyped, SenderAssumption
           DEF TypeOK, SenderTypeOK, Timer, Counts, SenderAssumption
      <3>3. ~Carries(TimeoutMsg(c, t.armed), id)
        BY DEF Carries, TimeoutMsg
      <3> QED BY <1>2, <2>1, <3>1, <3>2, <3>3, TransitAside
    <2> QED BY <1>4, <2>2, <2>3 DEF TimerActs
  <1>5. CASE UpdaterActs
    BY <1>2, <1>5, TransitUpdater
  <1>6. CASE GCActs
    <2>1. UNCHANGED sender_mailbox /\ Known(id)' = Known(id) /\ latest'[id] = latest[id]
      BY <1>6 DEF GCActs, GCWake, GCSend, mailboxes, history, Known
    <2>2. GCMsg \in UpdaterInput /\ ~Carries(GCMsg, id)
      BY DEF GCMsg, UpdaterInput, Carries
    <2>3. \/ UNCHANGED updater_mailbox
          \/ updater_mailbox' = SendTo("updater", updater_mailbox, GCMsg)
      BY <1>6 DEF GCActs, GCWake, GCSend, mailboxes
    <2> QED BY <1>2, <2>1, <2>2, <2>3, TransitAside
  <1>7. CASE EnvironmentActs
    BY <1>2, <1>7, TransitEnvironment
  <1>8. CASE ClockTick
    BY <1>2, <1>8, TransitTick
  <1>9. CASE DropService
    BY <1>1, <1>9 DEF DropService, StopUpdater, AbortUpdater, AbortSender
  <1>10. CASE UNCHANGED vars
    BY <1>2, <1>10 DEF vars, mailboxes, updaterVars, history, Known
  <1> QED BY <1>3, <1>4, <1>5, <1>6, <1>7, <1>8, <1>9, <1>10 DEF Next

LEMMA TransitFresh == NodeInv /\ InTransit => InfoFresh
  <1> SUFFICES ASSUME NodeInv, InTransit, running = ActorNames, NEW id \in PeerIds,
                      latest[id] # Unknown
               PROVE  EventualInfo(id) = latest[id]
    BY DEF InfoFresh
  <1>1. sender_mailbox \in Seq(MdnsMsg) /\ updater_mailbox \in Seq(UpdaterInput)
    BY DEF NodeInv, TypeOK, SenderTypeOK, ActorsTypeOK
  <1>2. PICK w, v : /\ Says(updater_mailbox, id, Known(id), w)
                    /\ Says(sender_mailbox, id, w, v)
                    /\ v = latest[id]
    BY DEF InTransit, Tracked
  <1>3. LastCarried(updater_mailbox, id, Known(id)) = w
    BY <1>1, <1>2, SaysIsLast
  <1>4. LastCarried(sender_mailbox, id, w) = v
    BY <1>1, <1>2, SaysIsLast
  <1> QED BY <1>2, <1>3, <1>4 DEF EventualInfo, Known

(* For any mailboxes, any number of peers and any interleaving of sender,  *)
(* updater, GC and clock: what the application ends with is what each peer *)
(* announced last of what reached the sender's mailbox.                    *)
THEOREM NodeInfoFresh == Spec => []InfoFresh
  <1>1. Init => NodeInv /\ InTransit
    BY NodeInvInit, TransitInit
  <1>2. NodeInv /\ InTransit /\ [Next]_vars => (NodeInv /\ InTransit)'
    BY NodeInvStep, TransitStep
  <1> QED BY <1>1, <1>2, TransitFresh, PTL DEF Spec
=============================================================================
