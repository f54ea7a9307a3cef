---------------------------- MODULE SenderProofs ----------------------------
(***************************************************************************)
(* Proofs about the sender: its variables stay in their ranges, a timer    *)
(* acts only in the phase that started it, and the handicap wears off, for *)
(* every number of peers, cutoff, mailbox size and counter width.          *)
(***************************************************************************)
EXTENDS Sender, ActorsProofs

(* The fields of a message, by its type.                                   *)
LEMMA MdnsMsgFields ==
  ASSUME NEW m \in MdnsMsg
  PROVE  /\ m.type = "Response" => m.peers \in PeerMap
         /\ m.type = "Timeout" => m.count \in Nat /\ m.armed \in Phases
         /\ m.type = "SizeUpdate" => m.size \in Nat
         /\ m.type = "Update" => m.op \in UpdateOps
BY DEF MdnsMsg, QueryTypes, Phases, UpdateOps

LEMMA PayloadsAreMaps ==
  Payloads \subseteq PeerMap /\ OwnPayloads \subseteq PeerMap
  <1>1. [info : Infos, age : {0}] \subseteq Peer
    BY ActorsAssumption DEF Peer, ActorsAssumption
  <1>2. ASSUME NEW p \in Payloads PROVE p \in PeerMap
    <2>1. PICK S \in SUBSET (PeerIds \ {Self}) :
            p \in [S -> [info : Infos, age : {0}]]
      BY DEF Payloads
    <2>2. p \in [S -> Peer]
      BY <1>1, <2>1
    <2> QED BY <2>2 DEF PeerMap
  <1>3. ASSUME NEW p \in OwnPayloads PROVE p \in PeerMap
    <2>1. p \in [{Self} -> Peer]
      BY <1>1 DEF OwnPayloads
    <2> QED BY <2>1, SenderAssumption DEF PeerMap, SenderAssumption
  <1> QED BY <1>2, <1>3

LEMMA CountFacts ==
  ASSUME NEW c \in Counts
  PROVE  NextCount(c) \in Counts /\ NextCount(c) # c
BY SenderAssumption DEF Counts, NextCount, SenderAssumption

(* The extra delay stays between zero and its limit.                       *)
LEMMA ExtraDelayRange ==
  ASSUME SenderTypeOK
  PROVE  /\ NextExtraDelay \in 0..ExtraCap
         /\ ~has_responded => NextExtraDelay =
              IF extra_delay = 0 THEN 0 ELSE extra_delay - 1
  <1>1. swarm_size \div Cutoff \in Nat
    BY ActorsAssumption DEF SenderTypeOK, ActorsAssumption
  <1>2. MinOf(swarm_size \div Cutoff, ExtraCap) \in 0..ExtraCap
    BY <1>1, SenderAssumption DEF MinOf, SenderAssumption
  <1> QED BY <1>2, SenderAssumption DEF SenderTypeOK, NextExtraDelay, SenderAssumption
-----------------------------------------------------------------------------
(* The type invariant.                                                     *)

LEMMA NewTimerType ==
  ASSUME NEW c \in Counts, NEW a \in Phases
  PROVE  NewTimer(c, a) \in Timer
BY DEF NewTimer, Timer

(* The two phase changes keep the types, whatever tasks they leave alive.  *)
LEMMA EnterResponseType ==
  ASSUME SenderTypeOK, NEW m \in {"V4", "V6", "Any"}, NEW ts \in SUBSET timers,
         EnterResponse(m, ts)
  PROVE  /\ phase' \in Phases
         /\ mode' \in {"V4", "V6", "Any"}
         /\ timeout_count' \in Counts
         /\ timers' \subseteq Timer
         /\ extra_delay' \in 0..ExtraCap
         /\ has_responded' \in BOOLEAN
         /\ response_count' \in Nat
         /\ silent' \in 0..(ExtraCap + 1)
         /\ stranded' \in BOOLEAN
  <1>1. NextCount(timeout_count) \in Counts
    BY CountFacts DEF SenderTypeOK
  <1>2. timers' \subseteq Timer
    BY <1>1, NewTimerType DEF EnterResponse, SenderTypeOK, Phases
  <1> QED BY <1>1, <1>2, ExtraDelayRange DEF EnterResponse, SenderTypeOK, Phases

LEMMA EnterQueryType ==
  ASSUME SenderTypeOK, NEW sent \in BOOLEAN, NEW ts \in SUBSET timers,
         EnterQuery(ts, sent)
  PROVE  /\ phase' \in Phases
         /\ mode' \in {"V4", "V6", "Any"}
         /\ timeout_count' \in Counts
         /\ timers' \subseteq Timer
         /\ extra_delay' \in 0..ExtraCap
         /\ has_responded' \in BOOLEAN
         /\ response_count' \in Nat
         /\ silent' \in 0..(ExtraCap + 1)
         /\ stranded' \in BOOLEAN
  <1>1. silent' \in 0..(ExtraCap + 1)
    BY SenderAssumption DEF EnterQuery, SenderTypeOK, MinOf, SenderAssumption
  <1>2. NextCount(timeout_count) \in Counts
    BY CountFacts DEF SenderTypeOK
  <1>3. timers' \subseteq Timer
    BY <1>2, NewTimerType DEF EnterQuery, SenderTypeOK, Phases
  <1> QED BY <1>1, <1>2, <1>3 DEF EnterQuery, SenderTypeOK, Phases

LEMMA AfterAbortSubset == AfterAbort \in SUBSET timers
BY DEF AfterAbort

(* Taking a message of type t, and passing on the peers of a Response.     *)
LEMMA ReceiveType ==
  ASSUME SenderTypeOK, NEW t, Receive(t)
  PROVE  /\ sender_mailbox' \in Seq(MdnsMsg)
         /\ Head(sender_mailbox) \in MdnsMsg
         /\ Head(sender_mailbox).type = t
BY HeadAndTail DEF Receive, Receives, SenderTypeOK, ActorsTypeOK

LEMMA ForwardType ==
  ASSUME SenderTypeOK, NEW p \in PeerMap, Forward(p)
  PROVE  updater_mailbox' \in Seq(UpdaterInput)
  <1>1. PeersMsg(p) \in UpdaterInput
    BY DEF PeersMsg, UpdaterInput
  <1> QED BY <1>1, SendToFacts DEF Forward, SenderTypeOK, ActorsTypeOK

LEMMA ArrivesType ==
  ASSUME SenderTypeOK, NEW m \in MdnsMsg, Arrives(m)
  PROVE  sender_mailbox' \in Seq(MdnsMsg)
BY SendToFacts DEF Arrives, SenderTypeOK, ActorsTypeOK

LEMMA MessagesTyped ==
  /\ \A t \in QueryTypes : QueryMsg(t) \in MdnsMsg
  /\ \A p \in PeerMap : ResponseMsg(p) \in MdnsMsg
  /\ \A c \in Nat, a \in Phases : TimeoutMsg(c, a) \in MdnsMsg
  /\ \A n \in Nat : SizeUpdateMsg(n) \in MdnsMsg
  /\ \A o \in UpdateOps : UpdateMsg(o) \in MdnsMsg
BY DEF QueryMsg, ResponseMsg, TimeoutMsg, SizeUpdateMsg, UpdateMsg, MdnsMsg

LEMMA SenderTypeInit == SInit => SenderTypeOK
  <1> SUFFICES ASSUME SInit PROVE SenderTypeOK
    OBVIOUS
  <1>1. ActorsTypeOK
    BY DEF SInit, ActorsInit, ActorsTypeOK, SizeSubscriptionMsg, UpdaterInput
  <1>2. 0 \in Counts
    BY SenderAssumption DEF Counts, SenderAssumption
  <1>3. NewTimer(0, "query") \in Timer
    BY <1>2, NewTimerType DEF Phases
  <1>4. extra_delay \in 0..ExtraCap /\ silent \in 0..(ExtraCap + 1)
    BY SenderAssumption DEF SInit, SenderInit, SenderAssumption
  <1>5. swarm_size \in Nat /\ response_count \in Nat
    BY DEF SInit, SenderInit
  <1>6. response \in BOOLEAN
    BY SenderAssumption DEF SInit, SenderInit, SenderAssumption
  <1> QED BY <1>1, <1>2, <1>3, <1>4, <1>5, <1>6
             DEF SInit, SenderInit, SenderTypeOK, Phases

LEMMA SenderTypeStep == SenderTypeOK /\ [SNext]_svars => SenderTypeOK'
  <1> SUFFICES ASSUME SenderTypeOK, [SNext]_svars PROVE SenderTypeOK'
    OBVIOUS
  <1> USE DEF SenderTypeOK, ActorsTypeOK
  <1>1. CASE OnQuery
    <2>1. PICK t \in {"QueryV4", "QueryV6"}, m \in {"V4", "V6"} :
            Receive(t) /\ EnterResponse(m, AfterAbort)
      BY <1>1 DEF OnQuery
    <2> QED BY <1>1, <2>1, ReceiveType, EnterResponseType, AfterAbortSubset
               DEF OnQuery
  <1>2. CASE OnQueryTimeout
    BY <1>2, ReceiveType, EnterResponseType DEF OnQueryTimeout
  <1>3. CASE OnLateResponse
    BY <1>3, ReceiveType, MdnsMsgFields, ForwardType
       DEF OnLateResponse, senderVars
  <1>4. CASE OnResponse
    <2> DEFINE p == Head(sender_mailbox).peers
    <2>1. p \in PeerMap /\ sender_mailbox' \in Seq(MdnsMsg)
      BY <1>4, ReceiveType, MdnsMsgFields DEF OnResponse
    <2>2. updater_mailbox' \in Seq(UpdaterInput)
      BY <1>4, <2>1, ForwardType DEF OnResponse
    <2> DEFINE count == response_count + Cardinality(DOMAIN p)
    <2>3. count \in Nat
      BY <2>1, PeerMapSize
    <2>4. CASE count >= Cutoff
      BY <1>4, <2>1, <2>2, <2>4, EnterQueryType, AfterAbortSubset
         DEF OnResponse
    <2>5. CASE ~(count >= Cutoff)
      BY <1>4, <2>1, <2>2, <2>3, <2>5 DEF OnResponse
    <2> QED BY <2>4, <2>5
  <1>5. CASE OnResponseTimeout
    BY <1>5, ReceiveType, EnterQueryType DEF OnResponseTimeout
  <1>6. CASE OnSizeUpdate
    BY <1>6, ReceiveType, MdnsMsgFields DEF OnSizeUpdate
  <1>7. CASE OnUpdate
    BY <1>7, ReceiveType DEF OnUpdate, UpdateResponse
  <1>8. CASE OnIgnored
    BY <1>8, ReceiveType DEF OnIgnored, senderVars
  <1>9. ASSUME NEW c \in Counts, TimerWake(c) PROVE SenderTypeOK'
    BY <1>9 DEF TimerWake, Timer, mailboxes
  <1>10. ASSUME NEW c \in Counts, TimerSend(c) PROVE SenderTypeOK'
    <2>1. PICK t \in timers :
            /\ timers' = timers \ {t}
            /\ sender_mailbox' =
                 SendTo("sender", sender_mailbox, TimeoutMsg(c, t.armed))
      BY <1>10 DEF TimerSend
    <2>2. TimeoutMsg(c, t.armed) \in MdnsMsg
      BY MessagesTyped, SenderAssumption DEF Timer, Counts, SenderAssumption
    <2>3. sender_mailbox' \in Seq(MdnsMsg)
      BY <2>1, <2>2, SendToFacts
    <2> QED BY <1>10, <2>1, <2>3 DEF TimerSend
  <1>11. CASE ReceivePacket
    <2>1. PICK m \in MdnsMsg : Arrives(m)
      BY <1>11, MessagesTyped, PayloadsAreMaps, SenderAssumption
         DEF ReceivePacket, SenderAssumption
    <2> QED BY <1>11, <2>1, ArrivesType DEF ReceivePacket, senderVars
  <1>12. CASE ReceiveOwnPacket
    <2>1. PICK m \in MdnsMsg : Arrives(m)
      BY <1>12, MessagesTyped, PayloadsAreMaps, SenderAssumption
         DEF ReceiveOwnPacket, SenderAssumption
    <2> QED BY <1>12, <2>1, ArrivesType DEF ReceiveOwnPacket, senderVars
  <1>13. CASE ForgetOwnPacket
    BY <1>13 DEF ForgetOwnPacket, mailboxes
  <1>14. CASE GuardianForwards
    <2>1. PICK m \in MdnsMsg : Arrives(m)
      BY <1>14, MessagesTyped, SenderAssumption
         DEF GuardianForwards, SenderAssumption
    <2> QED BY <1>14, <2>1, ArrivesType DEF GuardianForwards, senderVars
  <1>15. CASE UpdaterStub
    <2>1. CASE /\ updater_mailbox # <<>>
               /\ updater_mailbox' = Tail(updater_mailbox)
               /\ UNCHANGED sender_mailbox
      BY <1>15, <2>1, HeadAndTail DEF UpdaterStub, senderVars
    <2>2. CASE /\ \E n \in Sizes : Arrives(SizeUpdateMsg(n))
               /\ UNCHANGED updater_mailbox
      <3>1. PICK m \in MdnsMsg : Arrives(m)
        BY <2>2, MessagesTyped, SenderAssumption DEF SenderAssumption
      <3> QED BY <1>15, <2>2, <3>1, ArrivesType DEF UpdaterStub, senderVars
    <2> QED BY <1>15, <2>1, <2>2 DEF UpdaterStub
  <1>16. CASE UNCHANGED svars
    BY <1>16 DEF svars, mailboxes, senderVars
  <1> QED BY <1>1, <1>2, <1>3, <1>4, <1>5, <1>6, <1>7, <1>8, <1>9, <1>10,
             <1>11, <1>12, <1>13, <1>14, <1>15, <1>16
          DEF SNext, SenderStep

(* Every behaviour of the sender keeps its variables in their ranges; the  *)
(* extra delay in particular is capped for every swarm size.               *)
THEOREM SenderTypeCorrect == SSpec => []SenderTypeOK
BY SenderTypeInit, SenderTypeStep, PTL DEF SSpec
-----------------------------------------------------------------------------
(* The timer discipline, by what a step does to the timers, to the mailbox *)
(* and to the count.                                                       *)

(* No timer that is still alive has the count of the phase to come.        *)
LEMMA NextCountIsFresh ==
  ASSUME SenderTypeOK, WrapSafe, NEW t \in timers
  PROVE  t.count # NextCount(timeout_count)
  <1> DEFINE c == NextCount(timeout_count)
  <1>1. Behind(c) = CountMod - 1
    BY SenderAssumption
       DEF SenderTypeOK, Counts, Behind, NextCount, SenderAssumption
  <1>2. MaxLate < CountMod - 1
    BY SenderAssumption DEF SenderAssumption
  <1>3. Behind(t.count) <= MaxLate
    BY DEF WrapSafe
  <1> SUFFICES ASSUME t.count = c PROVE FALSE
    OBVIOUS
  <1>4. Behind(t.count) = CountMod - 1
    BY <1>1
  <1>5. MaxLate \in Nat /\ CountMod \in Nat
    BY SenderAssumption DEF SenderAssumption
  <1> HIDE DEF c
  <1> QED BY <1>2, <1>3, <1>4, <1>5

(* A message is taken and the phase stays.                                 *)
LEMMA DisciplineReceive ==
  ASSUME SenderTypeOK, TimerDiscipline, NEW t, Receive(t),
         UNCHANGED <<phase, timeout_count, timers>>
  PROVE  TimerDiscipline'
  <1>1. /\ Len(sender_mailbox) \in Nat
        /\ Len(sender_mailbox') = Len(sender_mailbox) - 1
        /\ \A i \in 1..Len(sender_mailbox') :
             sender_mailbox'[i] = sender_mailbox[i + 1]
    BY HeadAndTail DEF Receive, Receives, SenderTypeOK, ActorsTypeOK
  <1>2. \A i \in CurrentTimeouts' : i \in Nat /\ i + 1 \in CurrentTimeouts
    BY <1>1 DEF CurrentTimeouts
  <1>3. CurrentTimers' = CurrentTimers
    BY DEF CurrentTimers
  <1>4. \A i \in CurrentTimeouts' : sender_mailbox'[i].armed = phase'
    BY <1>1, <1>2 DEF TimerDiscipline, CurrentTimeouts
  <1>5. \A i, j \in CurrentTimeouts' : i = j
    BY <1>2 DEF TimerDiscipline
  <1>6. CurrentTimers' = {} \/ CurrentTimeouts' = {}
    BY <1>2, <1>3 DEF TimerDiscipline
  <1> QED BY <1>3, <1>4, <1>5, <1>6 DEF TimerDiscipline

(* A message other than a Timeout is sent to the sender.                   *)
LEMMA DisciplineSend ==
  ASSUME SenderTypeOK, TimerDiscipline, NEW m \in MdnsMsg, m.type # "Timeout",
         sender_mailbox' = SendTo("sender", sender_mailbox, m),
         UNCHANGED <<phase, timeout_count, timers>>
  PROVE  TimerDiscipline'
  <1>1. \/ sender_mailbox' = sender_mailbox
        \/ /\ Len(sender_mailbox') = Len(sender_mailbox) + 1
           /\ sender_mailbox'[Len(sender_mailbox) + 1] = m
           /\ \A i \in 1..Len(sender_mailbox) :
                sender_mailbox'[i] = sender_mailbox[i]
    BY SendToFacts DEF SenderTypeOK, ActorsTypeOK
  <1>2. Len(sender_mailbox) \in Nat
    BY LenProperties DEF SenderTypeOK, ActorsTypeOK
  <1>3. \A i \in CurrentTimeouts' :
          i \in CurrentTimeouts /\ sender_mailbox'[i] = sender_mailbox[i]
    BY <1>1, <1>2 DEF CurrentTimeouts
  <1>4. CurrentTimers' = CurrentTimers
    BY DEF CurrentTimers
  <1> QED BY <1>3, <1>4 DEF TimerDiscipline

(* A new phase starts: nothing carries its count but its own timer.        *)
LEMMA DisciplineEnter ==
  ASSUME SenderTypeOK, TimerDiscipline, NEW t, Receive(t), WrapSafe,
         NEW ph, NEW ts \in SUBSET timers, phase' = ph,
         timeout_count' = NextCount(timeout_count),
         timers' = ts \cup {NewTimer(NextCount(timeout_count), ph)}
  PROVE  TimerDiscipline'
  <1> DEFINE c == NextCount(timeout_count)
  <1>1. /\ Len(sender_mailbox) \in Nat
        /\ Len(sender_mailbox') = Len(sender_mailbox) - 1
        /\ \A i \in 1..Len(sender_mailbox') :
             sender_mailbox'[i] = sender_mailbox[i + 1]
    BY HeadAndTail DEF Receive, Receives, SenderTypeOK, ActorsTypeOK
  <1>2. ASSUME NEW i \in CurrentTimeouts' PROVE FALSE
    <2>1. /\ i + 1 \in 1..Len(sender_mailbox)
          /\ sender_mailbox[i + 1].type = "Timeout"
          /\ sender_mailbox[i + 1].count = c
      BY <1>1, <1>2 DEF CurrentTimeouts
    <2> QED BY <2>1 DEF WrapSafe
  <1>3. CurrentTimeouts' = {}
    BY <1>2
  <1>4. CurrentTimers' \subseteq {NewTimer(c, ph)}
    <2>1. ASSUME NEW u \in CurrentTimers' PROVE u \notin timers
      BY <2>1, NextCountIsFresh DEF CurrentTimers
    <2> QED BY <2>1 DEF CurrentTimers
  <1>5. NewTimer(c, ph).armed = ph
    BY DEF NewTimer
  <1> HIDE DEF c
  <1> QED BY <1>3, <1>4, <1>5 DEF TimerDiscipline

(* A timer task wakes, or hands its message to the mailbox.                *)
LEMMA DisciplineWake ==
  ASSUME SenderTypeOK, TimerDiscipline, NEW c \in Counts, TimerWake(c)
  PROVE  TimerDiscipline'
  <1>1. PICK t \in timers :
          /\ t.count = c
          /\ timers' = (timers \ {t}) \cup {[t EXCEPT !.state = "woken"]}
    BY DEF TimerWake
  <1> DEFINE w == [t EXCEPT !.state = "woken"]
  <1>2. w.count = t.count /\ w.armed = t.armed
    BY DEF SenderTypeOK, Timer
  <1>3. UNCHANGED <<sender_mailbox, phase, timeout_count>>
    BY DEF TimerWake, mailboxes
  <1>4. CurrentTimeouts' = CurrentTimeouts
    BY <1>3 DEF CurrentTimeouts
  <1>5. CASE t.count = timeout_count
    <2>1. t \in CurrentTimers
      BY <1>5 DEF CurrentTimers
    <2>2. CurrentTimers = {t}
      BY <2>1 DEF TimerDiscipline
    <2>3. CurrentTimers' = {w}
      BY <1>1, <1>2, <1>3, <1>5, <2>2 DEF CurrentTimers
    <2>4. \A i \in CurrentTimeouts' : sender_mailbox'[i].armed = phase'
      BY <1>3, <1>4 DEF TimerDiscipline
    <2>5. w.armed = phase'
      BY <1>2, <1>3, <2>1 DEF TimerDiscipline
    <2> QED BY <1>3, <1>4, <2>1, <2>3, <2>4, <2>5 DEF TimerDiscipline
  <1>6. CASE t.count # timeout_count
    <2>1. CurrentTimers' = CurrentTimers
      BY <1>1, <1>2, <1>3, <1>6 DEF CurrentTimers
    <2> QED BY <1>3, <1>4, <2>1 DEF TimerDiscipline
  <1> QED BY <1>5, <1>6

LEMMA DisciplineTimerSend ==
  ASSUME SenderTypeOK, TimerDiscipline, NEW c \in Counts, TimerSend(c)
  PROVE  TimerDiscipline'
  <1>1. PICK t \in timers :
          /\ t.count = c
          /\ timers' = timers \ {t}
          /\ sender_mailbox' =
               SendTo("sender", sender_mailbox, TimeoutMsg(c, t.armed))
    BY DEF TimerSend
  <1> DEFINE m == TimeoutMsg(c, t.armed)
             n == Len(sender_mailbox) + 1
  <1>2. m \in MdnsMsg
    BY MessagesTyped, SenderAssumption
       DEF SenderTypeOK, Timer, Counts, SenderAssumption
  <1>3. m.count = c /\ m.armed = t.armed
    BY DEF TimeoutMsg
  <1>4. UNCHANGED <<phase, timeout_count>>
    BY DEF TimerSend
  <1>5. \/ sender_mailbox' = sender_mailbox
        \/ /\ Len(sender_mailbox') = n
           /\ sender_mailbox'[n] = m
           /\ \A i \in 1..Len(sender_mailbox) :
                sender_mailbox'[i] = sender_mailbox[i]
    BY <1>1, <1>2, SendToFacts DEF SenderTypeOK, ActorsTypeOK
  <1>6. Len(sender_mailbox) \in Nat
    BY LenProperties DEF SenderTypeOK, ActorsTypeOK
  <1>7. CurrentTimers' = CurrentTimers \ {t}
    BY <1>1, <1>4 DEF CurrentTimers
  <1> HIDE DEF m
  <1>8. \A i \in CurrentTimeouts' :
          \/ i \in CurrentTimeouts /\ sender_mailbox'[i] = sender_mailbox[i]
          \/ i = n /\ sender_mailbox'[i] = m /\ m.count = timeout_count
    BY <1>4, <1>5, <1>6 DEF CurrentTimeouts
  <1>9. CASE c = timeout_count
    <2>1. t \in CurrentTimers
      BY <1>1, <1>9 DEF CurrentTimers
    <2>2. CurrentTimers = {t} /\ CurrentTimeouts = {} /\ t.armed = phase
      BY <2>1 DEF TimerDiscipline
    <2>3. CurrentTimers' = {}
      BY <1>7, <2>2
    <2>4. \A i \in CurrentTimeouts' : i = n /\ sender_mailbox'[i] = m
      BY <1>8, <2>2
    <2> QED BY <1>3, <1>4, <2>2, <2>3, <2>4 DEF TimerDiscipline
  <1>10. CASE c # timeout_count
    <2>1. \A i \in CurrentTimeouts' :
            i \in CurrentTimeouts /\ sender_mailbox'[i] = sender_mailbox[i]
      BY <1>3, <1>8, <1>10
    <2> QED BY <1>4, <1>7, <2>1 DEF TimerDiscipline
  <1> QED BY <1>9, <1>10

LEMMA DisciplineArrives ==
  ASSUME SenderTypeOK, TimerDiscipline, NEW m \in MdnsMsg,
         m.type # "Timeout", Arrives(m),
         UNCHANGED <<phase, timeout_count, timers>>
  PROVE  TimerDiscipline'
BY DisciplineSend DEF Arrives

LEMMA DisciplineStep ==
  SenderTypeOK /\ TimerDiscipline /\ [SNext]_svars => TimerDiscipline'
  <1> SUFFICES ASSUME SenderTypeOK, TimerDiscipline, [SNext]_svars
               PROVE  TimerDiscipline'
    OBVIOUS
  <1>1. CASE OnQuery
    <2>1. PICK t \in {"QueryV4", "QueryV6"}, m \in {"V4", "V6"} :
            Receive(t) /\ EnterResponse(m, AfterAbort)
      BY <1>1 DEF OnQuery
    <2> QED BY <2>1, AfterAbortSubset, DisciplineEnter DEF EnterResponse
  <1>2. CASE OnQueryTimeout
    BY <1>2, DisciplineEnter DEF OnQueryTimeout, EnterResponse
  <1>3. CASE OnLateResponse
    BY <1>3, DisciplineReceive DEF OnLateResponse, senderVars
  <1>4. CASE OnResponse
    <2>1. CASE EnterQuery(AfterAbort, FALSE)
      BY <1>4, <2>1, AfterAbortSubset, DisciplineEnter
         DEF OnResponse, EnterQuery
    <2>2. CASE UNCHANGED <<phase, timeout_count, timers>>
      BY <1>4, <2>2, DisciplineReceive DEF OnResponse
    <2> QED BY <1>4, <2>1, <2>2 DEF OnResponse
  <1>5. CASE OnResponseTimeout
    BY <1>5, DisciplineEnter DEF OnResponseTimeout, EnterQuery
  <1>6. CASE OnSizeUpdate
    BY <1>6, DisciplineReceive DEF OnSizeUpdate
  <1>7. CASE OnUpdate
    BY <1>7, DisciplineReceive DEF OnUpdate
  <1>8. CASE OnIgnored
    BY <1>8, DisciplineReceive DEF OnIgnored, senderVars
  <1>9. ASSUME NEW c \in Counts, TimerWake(c) \/ TimerSend(c)
        PROVE  TimerDiscipline'
    BY <1>9, DisciplineWake, DisciplineTimerSend
  <1>10. CASE ReceivePacket
    <2>1. PICK m \in MdnsMsg : Arrives(m) /\ m.type # "Timeout"
      BY <1>10, MessagesTyped, PayloadsAreMaps, SenderAssumption
         DEF ReceivePacket, SenderAssumption, QueryMsg, ResponseMsg, QueryTypes
    <2> QED BY <1>10, <2>1, DisciplineArrives DEF ReceivePacket, senderVars
  <1>11. CASE ReceiveOwnPacket
    <2>1. PICK m \in MdnsMsg : Arrives(m) /\ m.type # "Timeout"
      BY <1>11, MessagesTyped, PayloadsAreMaps, SenderAssumption
         DEF ReceiveOwnPacket, SenderAssumption, QueryMsg, ResponseMsg,
             QueryTypes
    <2> QED BY <1>11, <2>1, DisciplineArrives
            DEF ReceiveOwnPacket, senderVars
  <1>12. CASE GuardianForwards
    <2>1. PICK m \in MdnsMsg : Arrives(m) /\ m.type # "Timeout"
      BY <1>12, MessagesTyped, SenderAssumption
         DEF GuardianForwards, SenderAssumption, UpdateMsg
    <2> QED BY <1>12, <2>1, DisciplineArrives DEF GuardianForwards, senderVars
  <1>13. CASE UpdaterStub /\ ~UNCHANGED sender_mailbox
    <2>1. PICK m \in MdnsMsg : Arrives(m) /\ m.type # "Timeout"
      BY <1>13, MessagesTyped, SenderAssumption
         DEF UpdaterStub, SenderAssumption, SizeUpdateMsg
    <2> QED BY <1>13, <2>1, DisciplineArrives DEF UpdaterStub, senderVars
  <1>14. CASE /\ UNCHANGED <<sender_mailbox, phase, timeout_count, timers>>
    BY <1>14 DEF TimerDiscipline, CurrentTimers, CurrentTimeouts
  <1>15. CASE ForgetOwnPacket \/ UNCHANGED svars
    BY <1>14, <1>15 DEF ForgetOwnPacket, svars, mailboxes, senderVars
  <1>16. CASE UpdaterStub /\ UNCHANGED sender_mailbox
    BY <1>14, <1>16 DEF UpdaterStub, senderVars
  <1> QED BY <1>1, <1>2, <1>3, <1>4, <1>5, <1>6, <1>7, <1>8, <1>9, <1>10,
             <1>11, <1>12, <1>13, <1>15, <1>16
          DEF SNext, SenderStep
-----------------------------------------------------------------------------
(* The wake-up of the current phase.                                       *)

Awaited == CurrentTimers # {} \/ CurrentTimeouts # {}

(* A message other than the Timeout of this phase is taken.                *)
LEMMA AwaitedReceive ==
  ASSUME SenderTypeOK, NEW t, Receive(t),
         t = "Timeout" => Head(sender_mailbox).count # timeout_count,
         UNCHANGED <<timeout_count, timers>>
  PROVE  Awaited' <=> Awaited
  <1>1. /\ Len(sender_mailbox) \in Nat \ {0}
        /\ Len(sender_mailbox') = Len(sender_mailbox) - 1
        /\ Head(sender_mailbox) = sender_mailbox[1]
        /\ Head(sender_mailbox).type = t
        /\ \A i \in 1..Len(sender_mailbox') :
             sender_mailbox'[i] = sender_mailbox[i + 1]
    BY HeadAndTail DEF Receive, Receives, SenderTypeOK, ActorsTypeOK
  <1>2. \A i \in CurrentTimeouts' : i + 1 \in CurrentTimeouts
    BY <1>1 DEF CurrentTimeouts
  <1>3. ASSUME NEW i \in CurrentTimeouts PROVE i - 1 \in CurrentTimeouts'
    <2>1. i \in 1..Len(sender_mailbox) /\ i # 1
      BY <1>1 DEF CurrentTimeouts
    <2>2. i - 1 \in 1..Len(sender_mailbox') /\ (i - 1) + 1 = i
      BY <1>1, <2>1
    <2> QED BY <1>1, <2>2 DEF CurrentTimeouts
  <1>4. CurrentTimers' = CurrentTimers
    BY DEF CurrentTimers
  <1> QED BY <1>2, <1>3, <1>4 DEF Awaited

(* A message other than a Timeout is sent to the sender.                   *)
LEMMA AwaitedSend ==
  ASSUME SenderTypeOK, NEW m \in MdnsMsg, m.type # "Timeout",
         sender_mailbox' = SendTo("sender", sender_mailbox, m),
         UNCHANGED <<timeout_count, timers>>
  PROVE  Awaited' <=> Awaited
  <1>1. \/ sender_mailbox' = sender_mailbox
        \/ /\ Len(sender_mailbox') = Len(sender_mailbox) + 1
           /\ sender_mailbox'[Len(sender_mailbox) + 1] = m
           /\ \A i \in 1..Len(sender_mailbox) :
                sender_mailbox'[i] = sender_mailbox[i]
    BY SendToFacts DEF SenderTypeOK, ActorsTypeOK
  <1>2. Len(sender_mailbox) \in Nat
    BY LenProperties DEF SenderTypeOK, ActorsTypeOK
  <1>3. CurrentTimeouts' = CurrentTimeouts
    BY <1>1, <1>2 DEF CurrentTimeouts
  <1>4. CurrentTimers' = CurrentTimers
    BY DEF CurrentTimers
  <1> QED BY <1>3, <1>4 DEF Awaited

LEMMA AwaitedArrives ==
  ASSUME SenderTypeOK, WakeUpPending, NEW m \in MdnsMsg, m.type # "Timeout",
         Arrives(m), UNCHANGED <<running, timeout_count, timers, stranded>>
  PROVE  WakeUpPending'
  <1>1. Awaited' <=> Awaited
    BY AwaitedSend DEF Arrives
  <1> QED BY <1>1 DEF WakeUpPending, Awaited

(* The timer of a new phase is waited for.                                 *)
LEMMA AwaitedEnter ==
  ASSUME NEW ph, NEW ts, timeout_count' = NextCount(timeout_count),
         timers' = ts \cup {NewTimer(NextCount(timeout_count), ph)},
         stranded' = FALSE
  PROVE  WakeUpPending'
  <1>1. NewTimer(NextCount(timeout_count), ph) \in CurrentTimers'
    BY DEF CurrentTimers, NewTimer
  <1> QED BY <1>1 DEF WakeUpPending

LEMMA AwaitedWake ==
  ASSUME SenderTypeOK, WakeUpPending, NEW c \in Counts, TimerWake(c)
  PROVE  WakeUpPending'
  <1>1. PICK t \in timers :
          timers' = (timers \ {t}) \cup {[t EXCEPT !.state = "woken"]}
    BY DEF TimerWake
  <1> DEFINE w == [t EXCEPT !.state = "woken"]
  <1>2. w.count = t.count
    BY DEF SenderTypeOK, Timer
  <1>3. UNCHANGED <<running, sender_mailbox, timeout_count, stranded>>
    BY DEF TimerWake, mailboxes
  <1>4. CurrentTimeouts' = CurrentTimeouts
    BY <1>3 DEF CurrentTimeouts
  <1> HIDE DEF w
  <1>5. timers' = (timers \ {t}) \cup {w}
    BY <1>1 DEF w
  <1>6. CurrentTimers' = {} <=> CurrentTimers = {}
    <2>1. CASE t.count = timeout_count
      BY <1>2, <1>3, <1>5, <2>1 DEF CurrentTimers
    <2>2. CASE t.count # timeout_count
      BY <1>2, <1>3, <1>5, <2>2 DEF CurrentTimers
    <2> QED BY <2>1, <2>2
  <1> QED BY <1>3, <1>4, <1>6 DEF WakeUpPending

(* The timer of this phase hands its Timeout over, or strands the sender.  *)
LEMMA AwaitedTimerSend ==
  ASSUME SenderTypeOK, TimerDiscipline, WakeUpPending,
         NEW c \in Counts, TimerSend(c)
  PROVE  WakeUpPending'
  <1>1. PICK t \in timers :
          /\ t.count = c
          /\ timers' = timers \ {t}
          /\ sender_mailbox' =
               SendTo("sender", sender_mailbox, TimeoutMsg(c, t.armed))
    BY DEF TimerSend
  <1> DEFINE m == TimeoutMsg(c, t.armed)
             n == Len(sender_mailbox) + 1
  <1>2. m \in MdnsMsg
    BY MessagesTyped, SenderAssumption
       DEF SenderTypeOK, Timer, Counts, SenderAssumption
  <1>3. m.type = "Timeout" /\ m.count = c
    BY DEF TimeoutMsg
  <1>4. /\ UNCHANGED <<running, timeout_count>>
        /\ stranded' = (stranded \/ (c = timeout_count /\ ~Accepts("sender", sender_mailbox)))
    BY DEF TimerSend
  <1>5. /\ ~Accepts("sender", sender_mailbox) => sender_mailbox' = sender_mailbox
        /\ Accepts("sender", sender_mailbox) =>
             /\ Len(sender_mailbox') = n
             /\ sender_mailbox'[n] = m
             /\ \A i \in 1..Len(sender_mailbox) :
                  sender_mailbox'[i] = sender_mailbox[i]
    BY <1>1, <1>2, SendToFacts DEF SenderTypeOK, ActorsTypeOK, SendTo
  <1>6. Len(sender_mailbox) \in Nat
    BY LenProperties DEF SenderTypeOK, ActorsTypeOK
  <1>7. CurrentTimers' = CurrentTimers \ {t}
    BY <1>1, <1>4 DEF CurrentTimers
  <1> HIDE DEF m
  <1>8. CASE c = timeout_count
    <2>1. t \in CurrentTimers
      BY <1>1, <1>8 DEF CurrentTimers
    <2>2. CurrentTimers = {t} /\ CurrentTimeouts = {}
      BY <2>1 DEF TimerDiscipline
    <2>3. CurrentTimers' = {}
      BY <1>7, <2>2
    <2>4. CASE Accepts("sender", sender_mailbox)
      <3>1. n \in CurrentTimeouts'
        BY <1>3, <1>4, <1>5, <1>6, <1>8, <2>4 DEF CurrentTimeouts
      <3> QED BY <1>4, <2>1, <2>4, <3>1 DEF WakeUpPending
    <2>5. CASE ~Accepts("sender", sender_mailbox)
      <3>1. CurrentTimeouts' = CurrentTimeouts
        BY <1>4, <1>5, <2>5 DEF CurrentTimeouts
      <3> QED BY <1>4, <1>8, <2>2, <2>3, <2>5, <3>1 DEF WakeUpPending
    <2> QED BY <2>4, <2>5
  <1>9. CASE c # timeout_count
    <2>1. CurrentTimers' = CurrentTimers
      BY <1>1, <1>7, <1>9 DEF CurrentTimers
    <2>2. CurrentTimeouts' = CurrentTimeouts
      BY <1>3, <1>4, <1>5, <1>6, <1>9 DEF CurrentTimeouts
    <2> QED BY <1>4, <1>9, <2>1, <2>2 DEF WakeUpPending
  <1> QED BY <1>8, <1>9

LEMMA AwaitedStep ==
  SenderTypeOK /\ TimerDiscipline /\ WakeUpPending /\ [SNext]_svars
    => WakeUpPending'
  <1> SUFFICES ASSUME SenderTypeOK, TimerDiscipline, WakeUpPending, [SNext]_svars
               PROVE  WakeUpPending'
    OBVIOUS
  <1>1. ASSUME NEW t, Receive(t),
               t = "Timeout" => Head(sender_mailbox).count # timeout_count,
               UNCHANGED <<running, timeout_count, timers, stranded>>
        PROVE  WakeUpPending'
    <2>1. Awaited' <=> Awaited
      BY <1>1, AwaitedReceive
    <2> QED BY <1>1, <2>1 DEF WakeUpPending, Awaited
  <1>2. CASE OnQuery \/ OnQueryTimeout
    BY <1>2, AwaitedEnter DEF OnQuery, OnQueryTimeout, EnterResponse
  <1>3. CASE OnLateResponse
    BY <1>1, <1>3 DEF OnLateResponse, senderVars
  <1>4. CASE OnResponse
    <2>1. CASE EnterQuery(AfterAbort, FALSE)
      BY <2>1, AwaitedEnter DEF EnterQuery
    <2>2. CASE UNCHANGED <<timeout_count, timers, stranded>>
      BY <1>1, <1>4, <2>2 DEF OnResponse
    <2> QED BY <1>4, <2>1, <2>2 DEF OnResponse
  <1>5. CASE OnResponseTimeout
    BY <1>5, AwaitedEnter DEF OnResponseTimeout, EnterQuery
  <1>6. CASE OnSizeUpdate \/ OnUpdate
    BY <1>1, <1>6 DEF OnSizeUpdate, OnUpdate
  <1>7. CASE OnIgnored
    BY <1>1, <1>7 DEF OnIgnored, senderVars, QueryTypes
  <1>8. ASSUME NEW c \in Counts, TimerWake(c) \/ TimerSend(c)
        PROVE  WakeUpPending'
    BY <1>8, AwaitedWake, AwaitedTimerSend
  <1>9. ASSUME ReceivePacket \/ ReceiveOwnPacket \/ GuardianForwards
        PROVE  WakeUpPending'
    <2>1. PICK m \in MdnsMsg : Arrives(m) /\ m.type # "Timeout"
      BY <1>9, MessagesTyped, PayloadsAreMaps, SenderAssumption
         DEF ReceivePacket, ReceiveOwnPacket, GuardianForwards, SenderAssumption,
             QueryMsg, ResponseMsg, UpdateMsg, QueryTypes
    <2> QED BY <1>9, <2>1, AwaitedArrives
            DEF ReceivePacket, ReceiveOwnPacket, GuardianForwards, senderVars
  <1>10. CASE UNCHANGED <<running, sender_mailbox, timeout_count, timers, stranded>>
    BY <1>10 DEF WakeUpPending, CurrentTimers, CurrentTimeouts
  <1>11. CASE UpdaterStub
    <2>1. CASE \E n \in Sizes : Arrives(SizeUpdateMsg(n))
      <3>1. PICK m \in MdnsMsg : Arrives(m) /\ m.type # "Timeout"
        BY <2>1, MessagesTyped, SenderAssumption DEF SenderAssumption, SizeUpdateMsg
      <3> QED BY <1>11, <3>1, AwaitedArrives DEF UpdaterStub, senderVars
    <2> QED BY <1>10, <1>11, <2>1 DEF UpdaterStub, senderVars
  <1>12. CASE ForgetOwnPacket \/ UNCHANGED svars
    BY <1>10, <1>12 DEF ForgetOwnPacket, svars, mailboxes, senderVars
  <1> QED BY <1>2, <1>3, <1>4, <1>5, <1>6, <1>7, <1>8, <1>9, <1>11, <1>12
          DEF SNext, SenderStep
-----------------------------------------------------------------------------
(* The handicap.                                                           *)

LEMMA HandicapStep ==
  SenderTypeOK /\ HandicapDecays /\ [SNext]_svars => HandicapDecays'
  <1> SUFFICES ASSUME SenderTypeOK, HandicapDecays, [SNext]_svars
               PROVE  HandicapDecays'
    OBVIOUS
  <1> USE SenderAssumption DEF SenderAssumption
  <1>1. ASSUME NEW m, NEW ts, phase = "query", EnterResponse(m, ts)
        PROVE  HandicapDecays'
    <2>1. /\ phase' = "response" /\ silent' = silent
          /\ extra_delay' = NextExtraDelay
      BY <1>1 DEF EnterResponse
    <2>2. CASE has_responded
      <3>1. HandicapAfter(silent') = ExtraCap
        BY <1>1, <2>1, <2>2 DEF HandicapDecays, HandicapAfter
      <3>2. extra_delay' <= ExtraCap
        BY <2>1, ExtraDelayRange
      <3> QED BY <2>1, <3>1, <3>2 DEF HandicapDecays
    <2>3. CASE ~has_responded
      <3>1. extra_delay' <= HandicapAfter(silent')
        BY <1>1, <2>1, <2>3, ExtraDelayRange
           DEF SenderTypeOK, HandicapDecays, HandicapAfter
      <3> QED BY <2>1, <3>1 DEF HandicapDecays
    <2> QED BY <2>2, <2>3
  <1>2. ASSUME NEW ts, NEW sent \in BOOLEAN, phase = "response",
               EnterQuery(ts, sent)
        PROVE  HandicapDecays'
    <2>1. phase' = "query" /\ has_responded' = sent /\ extra_delay' = extra_delay
      BY <1>2 DEF EnterQuery
    <2>2. CASE sent
      BY <1>2, <2>1, <2>2 DEF EnterQuery, HandicapDecays
    <2>3. CASE ~sent
      <3>1. silent' = MinOf(silent + 1, ExtraCap + 1) /\ silent' # 0
        BY <1>2, <2>3 DEF EnterQuery, MinOf, SenderTypeOK
      <3>2. extra_delay' <= HandicapAfter(silent' - 1)
        BY <1>2, <2>1, <3>1
           DEF SenderTypeOK, HandicapDecays, HandicapAfter, MinOf
      <3> QED BY <2>1, <2>3, <3>1, <3>2 DEF HandicapDecays
    <2> QED BY <2>2, <2>3
  <1>3. CASE UNCHANGED <<phase, extra_delay, has_responded, silent>>
    BY <1>3 DEF HandicapDecays, HandicapAfter
  <1>4. CASE OnQuery
    BY <1>1, <1>4 DEF OnQuery
  <1>5. CASE OnQueryTimeout
    BY <1>1, <1>5 DEF OnQueryTimeout
  <1>6. CASE OnResponse
    BY <1>2, <1>3, <1>6 DEF OnResponse
  <1>7. CASE OnResponseTimeout
    BY <1>2, <1>7 DEF OnResponseTimeout, SenderTypeOK
  <1>8. CASE OnLateResponse \/ OnSizeUpdate \/ OnUpdate \/ OnIgnored
    BY <1>3, <1>8
       DEF OnLateResponse, OnSizeUpdate, OnUpdate, OnIgnored, senderVars
  <1>9. ASSUME NEW c \in Counts, TimerWake(c) \/ TimerSend(c)
        PROVE  HandicapDecays'
    BY <1>3, <1>9 DEF TimerWake, TimerSend
  <1>10. CASE \/ ReceivePacket \/ ReceiveOwnPacket \/ ForgetOwnPacket
              \/ GuardianForwards \/ UpdaterStub \/ UNCHANGED svars
    BY <1>3, <1>10
       DEF ReceivePacket, ReceiveOwnPacket, ForgetOwnPacket, GuardianForwards,
           UpdaterStub, svars, senderVars
  <1> QED BY <1>4, <1>5, <1>6, <1>7, <1>8, <1>9, <1>10 DEF SNext, SenderStep
-----------------------------------------------------------------------------
LEMMA SenderInvInit == SInit => TimerDiscipline /\ WakeUpPending /\ HandicapDecays
  <1> SUFFICES ASSUME SInit PROVE TimerDiscipline /\ WakeUpPending /\ HandicapDecays
    OBVIOUS
  <1>1. sender_mailbox = <<>>
    BY DEF SInit, ActorsInit
  <1>2. CurrentTimeouts = {}
    BY <1>1 DEF CurrentTimeouts
  <1>3. TimerDiscipline
    BY <1>2 DEF SInit, SenderInit, CurrentTimers, TimerDiscipline, NewTimer
  <1>4. HandicapDecays
    BY DEF SInit, SenderInit, HandicapDecays
  <1>5. WakeUpPending
    <2>1. /\ timers = {NewTimer(0, "query")} /\ timeout_count = 0
          /\ stranded = FALSE
      BY DEF SInit, SenderInit
    <2>2. NewTimer(0, "query") \in CurrentTimers
      BY <2>1 DEF CurrentTimers, NewTimer
    <2> QED BY <2>1, <2>2 DEF WakeUpPending
  <1> QED BY <1>3, <1>4, <1>5

(* However timers, aborts and messages interleave, the sender acts only on *)
(* a timer of the phase it is in, and at most once per phase.              *)
THEOREM SenderTimerDiscipline == SSpec => []TimerDiscipline
  <1>1. SInit => SenderTypeOK /\ TimerDiscipline
    BY SenderTypeInit, SenderInvInit
  <1>2. SenderTypeOK /\ TimerDiscipline /\ [SNext]_svars
          => (SenderTypeOK /\ TimerDiscipline)'
    BY SenderTypeStep, DisciplineStep
  <1> QED BY <1>1, <1>2, PTL DEF SSpec

(* However late timer tasks, aborts and messages are, the sender is never  *)
(* without the one timer or Timeout that ends its phase, unless its full   *)
(* mailbox refused just that; this is the safety part of SenderCycles.     *)
THEOREM SenderWakeUpPending == SSpec => []WakeUpPending
  <1>1. SInit => SenderTypeOK /\ TimerDiscipline /\ WakeUpPending
    BY SenderTypeInit, SenderInvInit
  <1>2. SenderTypeOK /\ TimerDiscipline /\ WakeUpPending /\ [SNext]_svars
          => (SenderTypeOK /\ TimerDiscipline /\ WakeUpPending)'
    BY SenderTypeStep, DisciplineStep, AwaitedStep
  <1> QED BY <1>1, <1>2, PTL DEF SSpec

(* Whatever sizes are reported, a node that stayed silent in k response    *)
(* phases waits at most ExtraCap - k steps longer than the others.         *)
THEOREM SenderHandicapDecays == SSpec => []HandicapDecays
  <1>1. SInit => SenderTypeOK /\ HandicapDecays
    BY SenderTypeInit, SenderInvInit
  <1>2. SenderTypeOK /\ HandicapDecays /\ [SNext]_svars
          => (SenderTypeOK /\ HandicapDecays)'
    BY SenderTypeStep, HandicapStep
  <1> QED BY <1>1, <1>2, PTL DEF SSpec
=============================================================================
