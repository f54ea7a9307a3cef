---------------------------- MODULE GuardianProofs --------------------------
(***************************************************************************)
(* What is true of the guardian and the sockets for any interfaces, any    *)
(* length of its mailbox and any failures of the operating system.         *)
(***************************************************************************)
EXTENDS Guardian, TLAPS

(* The socket in the table is one of those created for its address.        *)
TableInv ==
  \A a \in DOMAIN interfaces :
    \E k \in 1..opened[a] : interfaces[a] = InterfaceSocket(a, k)

Used == sending.todo \cup sending.tried

(* How far a send is, against the table as it was when the send began.     *)
SendInv ==
  /\ sending.old \subseteq retired
  /\ sending.due \subseteq Table \cup retired
  /\ sending.due \cap sending.old = {}
  /\ sending.pc = "copy" =>
       /\ sending.mode \in {"V4", "Any"} /\ sending.due # {}
       /\ Used = {}
  /\ sending.pc \in {"each", "last"} =>
       /\ sending.due \ (retired \ sending.old) \subseteq Used
       /\ Used \cap sending.old = {}
  /\ sending.pc = "each" =>
       sending.mode \in {"V4", "Any"} /\ sending.due # {} /\ V6 \notin Used
  /\ sending.pc = "last" =>
       \/ sending.due # {} /\ sending.mode = "Any" /\ v6 /\ V6 \in Used
       \/ sending.due = {} /\ Used = DefaultSocket(sending.mode) /\ Used # {}

Defaults == {x \in {V4} : v4} \cup {x \in {V6} : v6}

(* What the guardian tracks while it handles a request.                    *)
TrackInv ==
  /\ stage = "configured" => sending = Idle /\ live = {} /\ handling = NoAddr
  /\ stage = "running" =>
       /\ DOMAIN interfaces =
            DOMAIN interface_receivers \cup ({handling} \ {NoAddr})
       /\ \A s \in Table \cup Defaults :
            \/ handling # NoAddr /\ s = interfaces[handling]
            \/ \E r \in started : r.role = "receiver" /\ r.socket = s

IInv == GuardianTypeOK /\ TableInv /\ SendInv /\ TrackInv

-----------------------------------------------------------------------------
(* The sockets.                                                            *)
LEMMA TableType ==
  ASSUME SocketsTypeOK, TableInv
  PROVE  /\ DOMAIN interfaces \subseteq Interfaces
         /\ \A a \in DOMAIN interfaces :
              /\ interfaces[a] \in Socket /\ interfaces[a].addr = a
              /\ interfaces[a].kind = "v4"
         /\ Table \cap retired = {}
         /\ \A s \in Table \cup retired : s.kind = "v4" /\ s.addr \in Interfaces
<1>1. DOMAIN interfaces \subseteq Interfaces
      /\ \A a \in DOMAIN interfaces : interfaces[a] \in Socket
  BY DEF SocketsTypeOK
<1>2. \A a \in DOMAIN interfaces :
        interfaces[a].addr = a /\ interfaces[a].kind = "v4"
  BY DEF TableInv, InterfaceSocket
<1>3. \A s \in retired : s.kind = "v4" /\ s.addr \in Interfaces /\ s \notin Table
  BY DEF retired, InterfaceSocket
<1> QED BY <1>1, <1>2, <1>3 DEF Table

(* Changes of the table are invisible to a send, except that more sockets  *)
(* are retired.                                                            *)
LEMMA SendFrame ==
  ASSUME SendInv, retired \subseteq retired',
         Table \cup retired \subseteq Table' \cup retired',
         UNCHANGED <<v4, v6, sending>>
  PROVE  SendInv'
BY DEF SendInv, Used, DefaultSocket, V4, V6

LEMMA AddFrame ==
  ASSUME SocketsTypeOK, TableInv, NEW a \in Interfaces, NEW success \in BOOLEAN,
         AddInterface(a, success), UNCHANGED <<v4, v6, sending>>
  PROVE  /\ SocketsTypeOK' /\ TableInv'
         /\ retired \subseteq retired'
         /\ Table \cup retired \subseteq Table' \cup retired'
         /\ DOMAIN interfaces' =
              DOMAIN interfaces \cup (IF success THEN {a} ELSE {})
         /\ \A x \in DOMAIN interfaces : interfaces'[x] = interfaces[x]
<1>1. CASE a \in DOMAIN interfaces \/ ~success
  <2>1. UNCHANGED <<interfaces, opened>>
    BY <1>1 DEF AddInterface
  <2> QED BY <2>1, <1>1 DEF SocketsTypeOK, TableInv, retired, Table
<1>2. CASE a \notin DOMAIN interfaces /\ success
  <2> DEFINE new == InterfaceSocket(a, opened[a] + 1)
  <2>1. /\ interfaces' = [x \in DOMAIN interfaces \cup {a} |->
                            IF x = a THEN new ELSE interfaces[x]]
        /\ opened' = [opened EXCEPT ![a] = @ + 1]
    BY <1>2 DEF AddInterface
  <2>2. /\ opened \in [Interfaces -> Nat] /\ opened' \in [Interfaces -> Nat]
        /\ opened'[a] = opened[a] + 1
        /\ \A x \in Interfaces : opened[x] <= opened'[x]
    BY <2>1 DEF SocketsTypeOK
  <2>3. new \in Socket
    BY <2>2 DEF Socket, InterfaceSocket
  <2>4. DOMAIN interfaces \subseteq Interfaces
    BY TableType
  <2>5. SocketsTypeOK'
    <3>1. interfaces' \in [DOMAIN interfaces \cup {a} -> Socket]
      BY <2>1, <2>3, TableType
    <3> QED BY <3>1, <2>2, <2>4 DEF SocketsTypeOK
  <2>6. TableInv'
    <3>1. ASSUME NEW x \in DOMAIN interfaces'
          PROVE  \E k \in 1..opened'[x] : interfaces'[x] = InterfaceSocket(x, k)
      <4>1. CASE x = a
        <5>1. opened'[a] \in 1..opened'[a]
          BY <2>2
        <5> QED BY <4>1, <5>1, <2>1, <2>2
      <4>2. CASE x # a
        <5>1. x \in DOMAIN interfaces /\ interfaces'[x] = interfaces[x]
          BY <4>2, <2>1
        <5>2. PICK k \in 1..opened[x] : interfaces[x] = InterfaceSocket(x, k)
          BY <5>1 DEF TableInv
        <5>3. k \in 1..opened'[x]
          BY <5>1, <5>2, <2>2, <2>4
        <5> QED BY <5>1, <5>2, <5>3
      <4> QED BY <4>1, <4>2
    <3> QED BY <3>1 DEF TableInv
  <2>7. Table' = Table \cup {new}
    BY <2>1, <1>2 DEF Table
  <2>8. retired \subseteq retired'
    <3>1. ASSUME NEW s \in retired PROVE s \in retired'
      <4>1. PICK x \in Interfaces : \E n \in 1..opened[x] : s = InterfaceSocket(x, n)
        BY DEF retired
      <4>2. PICK n \in 1..opened[x] : s = InterfaceSocket(x, n)
        BY <4>1
      <4>3. n \in 1..opened'[x]
        BY <4>2, <2>2
      <4>4. s # new
        BY <4>2, <2>2 DEF InterfaceSocket
      <4>5. s \notin Table
        BY DEF retired
      <4> QED BY <4>2, <4>3, <4>4, <4>5, <2>7 DEF retired
    <3> QED BY <3>1
  <2> QED BY <2>1, <2>5, <2>6, <2>7, <2>8, <1>2
<1> QED BY <1>1, <1>2

LEMMA RemoveFrame ==
  ASSUME SocketsTypeOK, TableInv, NEW a \in Interfaces,
         RemoveInterface(a), UNCHANGED <<v4, v6, opened, sending>>
  PROVE  /\ SocketsTypeOK' /\ TableInv'
         /\ retired \subseteq retired' /\ Table' \subseteq Table
         /\ Table \cup retired \subseteq Table' \cup retired'
         /\ DOMAIN interfaces' = DOMAIN interfaces \ {a}
<1>1. interfaces' = [x \in DOMAIN interfaces \ {a} |-> interfaces[x]]
  BY DEF RemoveInterface
<1>2. Table' \subseteq Table
  BY <1>1 DEF Table
<1>3. ASSUME NEW s \in Table PROVE s \in Table' \cup retired'
  <2>1. PICK x \in DOMAIN interfaces : s = interfaces[x]
    BY DEF Table
  <2>2. PICK k \in 1..opened[x] : s = InterfaceSocket(x, k)
    BY <2>1 DEF TableInv
  <2>3. x \in Interfaces
    BY TableType
  <2> QED BY <2>2, <2>3 DEF retired
<1>4. retired \subseteq retired'
  BY <1>2 DEF retired
<1>5. SocketsTypeOK'
  <2>1. interfaces' \in [DOMAIN interfaces \ {a} -> Socket]
    BY <1>1, TableType
  <2>2. DOMAIN interfaces \ {a} \subseteq Interfaces
    BY TableType
  <2> QED BY <2>1, <2>2 DEF SocketsTypeOK
<1>6. TableInv'
  BY <1>1 DEF TableInv
<1> QED BY <1>1, <1>2, <1>3, <1>4, <1>5, <1>6
-----------------------------------------------------------------------------
(* The sends.                                                              *)
LEMMA SendingType ==
  ASSUME SocketsTypeOK
  PROVE  /\ sending.pc \in {"idle", "copy", "each", "last", "panic"}
         /\ sending.mode \in Modes
         /\ sending.todo \subseteq Socket /\ sending.tried \subseteq Socket
         /\ sending.due \subseteq Socket /\ sending.old \subseteq Socket
BY DEF SocketsTypeOK

LEMMA DefaultTypes ==
  /\ V4 \in Socket /\ V6 \in Socket /\ V4 # V6
  /\ \A mode \in Modes : DefaultSocket(mode) \subseteq {V4, V6}
BY DEF Socket, V4, V6, DefaultSocket, Modes

LEMMA IdleFrame ==
  ASSUME SocketsTypeOK, sending' = Idle, UNCHANGED <<v4, v6, interfaces, opened>>
  PROVE  SocketsTypeOK' /\ SendInv'
<1>1. Idle \in [pc : {"idle", "copy", "each", "last", "panic"},
                mode : Modes, todo : SUBSET Socket, tried : SUBSET Socket,
                due : SUBSET Socket, old : SUBSET Socket]
  BY DEF Idle, Modes
<1> QED BY <1>1 DEF SocketsTypeOK, SendInv, Idle

LEMMA SameTable ==
  ASSUME UNCHANGED <<interfaces, opened>>
  PROVE  Table' = Table /\ retired' = retired /\ (TableInv => TableInv')
BY DEF Table, retired, TableInv

LEMMA BeginFrame ==
  ASSUME SocketsTypeOK, TableInv, SendInv, NEW mode \in Modes, BeginSend(mode)
  PROVE  SocketsTypeOK' /\ TableInv' /\ SendInv'
<1>1. UNCHANGED <<v4, v6, interfaces, opened>>
  BY DEF BeginSend, Unchanged
<1>2. Table' = Table /\ retired' = retired /\ TableInv'
  BY <1>1, SameTable
<1>3. Table \subseteq Socket /\ retired \cap Table = {}
  BY TableType DEF Table
<1>4. retired \subseteq Socket
  BY DEF retired, InterfaceSocket, Socket
<1>5. \A s \in retired : s.addr \in Interfaces
  BY TableType
<1>6. V4 \notin retired /\ V6 \notin retired
  BY <1>5, SocketsAssumption DEF V4, V6
<1>7. CASE MultiInterface(mode)
  <2>1. sending' = [pc |-> "copy", mode |-> mode, todo |-> {}, tried |-> {},
                    due |-> Table, old |-> retired]
    BY <1>7 DEF BeginSend, Idle
  <2>2. SocketsTypeOK'
    BY <2>1, <1>1, <1>3, <1>4 DEF SocketsTypeOK
  <2>3. Table # {} /\ mode \in {"V4", "Any"}
    BY <1>7 DEF MultiInterface, Table
  <2> QED BY <2>1, <2>2, <2>3, <1>2, <1>3 DEF SendInv, Used
<1>8. CASE ~MultiInterface(mode)
  <2>1. sending' = [pc |-> IF DefaultSocket(mode) = {} THEN "panic" ELSE "last",
                    mode |-> mode, todo |-> DefaultSocket(mode), tried |-> {},
                    due |-> {}, old |-> retired]
    BY <1>8 DEF BeginSend, Idle
  <2>2. DefaultSocket(mode) \subseteq Socket
    BY DefaultTypes
  <2>3. SocketsTypeOK'
    BY <2>1, <2>2, <1>1, <1>4 DEF SocketsTypeOK
  <2>4. DefaultSocket(mode)' = DefaultSocket(mode)
    BY <1>1 DEF DefaultSocket
  <2>5. DefaultSocket(mode) \cap retired = {}
    BY DefaultTypes, <1>6
  <2>6. SendInv'
    <3>1. sending'.pc = "last" => DefaultSocket(mode) # {}
      BY <2>1
    <3>2. Used' = DefaultSocket(mode)
      BY <2>1 DEF Used
    <3>3. sending'.pc \notin {"copy", "each"} /\ sending'.mode = mode
      BY <2>1
    <3>4. DefaultSocket(sending.mode)' = DefaultSocket(mode)
      BY <1>1, <3>3 DEF DefaultSocket
    <3> QED BY <2>1, <3>1, <3>2, <3>3, <3>4, <2>5, <1>2 DEF SendInv
  <2> QED BY <2>3, <2>6, <1>2
<1> QED BY <1>7, <1>8

LEMMA StepFrame ==
  ASSUME SocketsTypeOK, TableInv, SendInv, SendStep
  PROVE  SocketsTypeOK' /\ TableInv' /\ SendInv'
<1>1. UNCHANGED <<v4, v6, interfaces, opened>>
  BY DEF SendStep, CopyTable, SendV6, SendNext, Unchanged
<1>2. Table' = Table /\ retired' = retired /\ TableInv'
  BY <1>1, SameTable
<1>3. CASE CopyTable
  <2>1. sending.pc = "copy" /\ sending' = [sending EXCEPT !.pc = "each", !.todo = Table]
    BY <1>3 DEF CopyTable
  <2>2. Table \subseteq Socket /\ Table \cap retired = {} /\ V6 \notin Table
    BY TableType DEF Table, V6
  <2>3. /\ sending'.pc = "each" /\ sending'.todo = Table
        /\ sending'.tried = sending.tried /\ sending'.due = sending.due
        /\ sending'.old = sending.old /\ sending'.mode = sending.mode
    BY <2>1 DEF SocketsTypeOK
  <2>4. SocketsTypeOK'
    BY <2>1, <2>2, <1>1 DEF SocketsTypeOK
  <2>5. Used = {} /\ Used' = Table
    BY <2>1, <2>3 DEF SendInv, Used
  <2> QED BY <2>1, <2>2, <2>3, <2>4, <2>5, <1>2 DEF SendInv
<1>4. CASE SendV6
  <2>1. /\ sending.todo = {} /\ ThenV6
        /\ sending' = [sending EXCEPT !.pc = "last", !.todo = {V6}]
    BY <1>4 DEF SendV6
  <2>2. /\ sending'.pc = "last" /\ sending'.todo = {V6}
        /\ sending'.tried = sending.tried /\ sending'.due = sending.due
        /\ sending'.old = sending.old /\ sending'.mode = sending.mode
    BY <2>1 DEF SocketsTypeOK
  <2>3. SocketsTypeOK'
    BY <2>1, <1>1, DefaultTypes DEF SocketsTypeOK
  <2>4. Used' = Used \cup {V6}
    BY <2>1, <2>2 DEF Used
  <2>5. V6 \notin retired
    BY TableType, SocketsAssumption DEF V6
  <2>6. sending.pc = "each" /\ sending.mode = "Any" /\ v6 /\ v6'
    BY <2>1, <1>1 DEF ThenV6
  <2> QED BY <2>2, <2>3, <2>4, <2>5, <2>6, <1>2 DEF SendInv
<1>5. ASSUME NEW s \in sending.todo, NEW success \in Succeeds, SendNext(s, success)
      PROVE  SocketsTypeOK' /\ SendInv'
  <2>1. sending' = [sending EXCEPT !.todo = @ \ {s}, !.tried = @ \cup {s}]
    BY <1>5 DEF SendNext
  <2>2. /\ sending'.pc = sending.pc /\ sending'.todo = sending.todo \ {s}
        /\ sending'.tried = sending.tried \cup {s} /\ sending'.due = sending.due
        /\ sending'.old = sending.old /\ sending'.mode = sending.mode
    BY <2>1 DEF SocketsTypeOK
  <2>3. SocketsTypeOK'
    BY <2>1, <1>1, SendingType DEF SocketsTypeOK
  <2>4. Used' = Used
    BY <2>2 DEF Used
  <2>5. DefaultSocket(sending.mode)' = DefaultSocket(sending.mode) /\ v6' = v6
    BY <2>2, <1>1 DEF DefaultSocket
  <2> QED BY <2>2, <2>3, <2>4, <2>5, <1>2 DEF SendInv
<1>6. CASE Complete /\ sending' = Idle /\ Unchanged
  BY <1>6, IdleFrame, <1>1, <1>2
<1>7. CASE \E s \in sending.todo, success \in Succeeds : SendNext(s, success)
  BY <1>2, <1>5, <1>7, Zenon
<1> QED BY <1>3, <1>4, <1>6, <1>7, Zenon DEF SendStep

(* What a finished send has reached follows from how far it is.            *)
LEMMA SendDone ==
  ASSUME SocketsTypeOK, TableInv, SendInv
  PROVE  SentWhereDue
<1> SUFFICES ASSUME Complete PROVE SentWhereDue
  BY DEF SentWhereDue
<1> DEFINE tried == sending.tried
           meanwhile == retired \ sending.old
<1>1. Used = tried /\ sending.pc \in {"each", "last"} /\ ~ThenV6
  BY DEF Complete, Used
<1>2. sending.due \ meanwhile \subseteq tried /\ tried \cap sending.old = {}
  BY <1>1 DEF SendInv
<1>3. CASE sending.due # {}
  <2>1. tried = {} => sending.due \subseteq meanwhile
    BY <1>2
  <2>2. \/ sending.pc = "each" /\ sending.mode \in {"V4", "Any"} /\ V6 \notin tried
        \/ sending.pc = "last" /\ sending.mode = "Any" /\ v6 /\ V6 \in tried
    BY <1>1, <1>3 DEF SendInv
  <2>3. sending.pc = "each" => ~(sending.mode = "Any" /\ v6)
    BY <1>1 DEF ThenV6
  <2> QED BY <1>2, <1>3, <2>1, <2>2, <2>3 DEF SentWhereDue, SocketsTypeOK
<1>4. CASE sending.due = {}
  <2>1. tried = DefaultSocket(sending.mode) /\ tried # {}
    BY <1>1, <1>4 DEF SendInv
  <2>2. V4 # V6 /\ sending.mode \in Modes
    BY DefaultTypes, SendingType
  <2> QED BY <1>2, <1>4, <2>1, <2>2 DEF SentWhereDue, DefaultSocket, Modes
<1> QED BY <1>3, <1>4
-----------------------------------------------------------------------------
(* The guardian.  Each action keeps the invariant.                         *)

(* The conjuncts that most actions leave alone.                            *)
Rest ==
  /\ stage \in {"configured", "refused", "running", "ended"}
  /\ requests \in Seq(Requests)
  /\ phase \in Modes \cup {"query"} /\ dropped \in BOOLEAN

LEMMA TypeParts ==
  GuardianTypeOK <=>
    /\ SocketsTypeOK /\ Rest
    /\ handling \in DOMAIN interfaces \cup {NoAddr}
    /\ live \subseteq started
    /\ Waits => DOMAIN interface_receivers = DOMAIN interfaces
    /\ \A a \in DOMAIN interface_receivers :
         interface_receivers[a] \in ReceiversOf(a)
BY DEF GuardianTypeOK, Rest

LEMMA InitInv == GInit => IInv
<1> SUFFICES ASSUME GInit PROVE IInv
  OBVIOUS
<1>1. /\ v4 = FALSE /\ v6 = FALSE /\ interfaces = NoMap /\ sending = Idle
      /\ opened = [a \in Interfaces |-> 0] /\ stage = "configured"
      /\ requests = <<>> /\ handling = NoAddr /\ started = {} /\ live = {}
      /\ interface_receivers = NoMap /\ phase = "query" /\ dropped = FALSE
  BY DEF GInit
<1>2. DOMAIN NoMap = {} /\ NoMap \in [{} -> Socket]
  BY DEF NoMap
<1>3. Idle \in [pc : {"idle", "copy", "each", "last", "panic"},
                mode : Modes, todo : SUBSET Socket, tried : SUBSET Socket,
                due : SUBSET Socket, old : SUBSET Socket]
  BY DEF Idle, Modes
<1>4. opened \in [Interfaces -> Nat]
  BY <1>1
<1>5. SocketsTypeOK
  <2>1. interfaces \in [{} -> Socket] /\ {} \in SUBSET Interfaces
    BY <1>1, <1>2
  <2> QED BY <2>1, <1>1, <1>3, <1>4 DEF SocketsTypeOK
<1>6. Rest
  <2>1. requests \in Seq(Requests)
    BY <1>1
  <2>2. dropped \in BOOLEAN
    BY <1>1, Zenon
  <2> QED BY <2>1, <2>2, <1>1 DEF Rest
<1>7. GuardianTypeOK
  BY <1>1, <1>2, <1>5, <1>6, TypeParts DEF Waits
<1>8. TableInv /\ SendInv /\ TrackInv
  BY <1>1, <1>2 DEF TableInv, SendInv, TrackInv, Idle
<1> QED BY <1>7, <1>8 DEF IInv

LEMMA SpawnInv ==
  ASSUME IInv, NEW class, NEW list \in SUBSET Interfaces,
         NEW bound4 \in BOOLEAN, NEW bound6 \in BOOLEAN,
         Spawn(class, list, bound4, bound6)
  PROVE  IInv'
<1>1. PICK created \in SUBSET list :
        /\ interfaces' = [a \in created |-> InterfaceSocket(a, 1)]
        /\ opened' = [a \in Interfaces |-> IF a \in created THEN 1 ELSE 0]
  BY DEF Spawn, NewInterfaces
<1> DEFINE initial == [a \in created |-> Actor("receiver", interfaces'[a], 1)]
<1>2. /\ DOMAIN interfaces' = created /\ created \subseteq Interfaces
      /\ interface_receivers' = initial /\ live' = started'
      /\ \A a \in created : initial[a] \in started'
      /\ \A s \in Defaults' : Actor("receiver", s, 1) \in started'
      /\ stage' = "running" /\ sending' = sending /\ requests' = requests
      /\ handling' = handling /\ phase' = phase /\ dropped' = dropped
  BY <1>1 DEF Spawn, Defaults
<1>3. handling = NoAddr /\ sending = Idle
  BY DEF IInv, TrackInv, Spawn
<1>4. v4' \in BOOLEAN /\ v6' \in BOOLEAN
  <2>1. (v4' = bound4 /\ v6' = bound6) \/ (v4' = HasV4(class) /\ v6' = HasV6(class))
    BY Zenon DEF Spawn, NewDefaults
  <2>2. HasV4(class) \in BOOLEAN /\ HasV6(class) \in BOOLEAN
    BY DEF HasV4, HasV6
  <2> QED BY <2>1, <2>2, Zenon
<1>5. SocketsTypeOK'
  <2>1. interfaces' \in [created -> Socket]
    BY <1>1, <1>2 DEF InterfaceSocket, Socket
  <2>2. opened' \in [Interfaces -> Nat]
    BY <1>1
  <2>3. sending' = sending
    BY <1>2
  <2> QED BY <2>1, <2>2, <2>3, <1>2, <1>4 DEF SocketsTypeOK, IInv, GuardianTypeOK
<1>6. TableInv'
  <2>1. \A a \in created : 1 \in 1..opened'[a] /\ interfaces'[a] = InterfaceSocket(a, 1)
    BY <1>1, <1>2
  <2> QED BY <2>1, <1>2 DEF TableInv
<1>7. SendInv'
  BY <1>2, <1>3 DEF SendInv, Idle
<1>8. \A a \in created : interface_receivers'[a] \in ReceiversOf(a)'
  <2>1. \A a \in created : interfaces'[a].addr = a
    BY <1>1 DEF InterfaceSocket
  <2> QED BY <2>1, <1>2 DEF ReceiversOf, Actor
<1>9. GuardianTypeOK'
  <2>1. Rest'
    BY <1>2 DEF Rest, IInv, GuardianTypeOK
  <2>2. Rest' /\ SocketsTypeOK' /\ handling' = NoAddr /\ live' \subseteq started'
        /\ DOMAIN interface_receivers' = DOMAIN interfaces'
    BY <2>1, <1>2, <1>3, <1>5
  <2> QED BY <2>2, <1>2, <1>8 DEF GuardianTypeOK, Rest
<1>10. TrackInv'
  <2>1. ASSUME NEW s \in Table'
        PROVE  \E r \in started' : r.role = "receiver" /\ r.socket = s
    <3>1. PICK a \in created : s = interfaces'[a]
      BY <1>2 DEF Table
    <3>2. initial[a].role = "receiver" /\ initial[a].socket = s
      BY <3>1 DEF Actor
    <3> QED BY <3>1, <3>2, <1>2
  <2>2. ASSUME NEW s \in Defaults'
        PROVE  \E r \in started' : r.role = "receiver" /\ r.socket = s
    <3>1. Actor("receiver", s, 1).role = "receiver" /\ Actor("receiver", s, 1).socket = s
      BY DEF Actor
    <3> QED BY <3>1, <1>2
  <2>3. DOMAIN interfaces' = DOMAIN interface_receivers' \cup ({handling'} \ {NoAddr})
    BY <1>2, <1>3
  <2> QED BY <2>1, <2>2, <2>3, <1>2 DEF TrackInv
<1> QED BY <1>6, <1>7, <1>9, <1>10 DEF IInv

(* The request the guardian takes.                                         *)
LEMMA Taken ==
  ASSUME IInv, NEW type, Takes(type)
  PROVE  /\ Head(requests).addr \in Interfaces
         /\ requests' \in Seq(Requests)
         /\ stage = "running" /\ handling = NoAddr
<1>1. requests \in Seq(Requests) /\ requests # <<>>
  BY DEF IInv, GuardianTypeOK, Takes
<1>2. Head(requests) \in Requests /\ Tail(requests) \in Seq(Requests)
  BY <1>1
<1> QED BY <1>2 DEF Takes, Waits, Requests

LEMMA OnAddInv ==
  ASSUME IInv, NEW success \in BOOLEAN, OnAddInterface(success)
  PROVE  IInv'
<1> DEFINE a == Head(requests).addr
<1>1. /\ a \in Interfaces /\ requests' \in Seq(Requests)
      /\ stage = "running" /\ handling = NoAddr
  BY Taken DEF OnAddInterface
<1>2. /\ AddInterface(a, success)
      /\ handling' = IF a \in DOMAIN interfaces \/ success THEN a ELSE NoAddr
      /\ UNCHANGED <<v4, v6, sending>>
      /\ UNCHANGED <<stage, started, live, interface_receivers, phase, dropped>>
  BY DEF OnAddInterface
<1>3. a # NoAddr
  BY <1>1, SocketsAssumption
<1> HIDE DEF a
<1>4. /\ SocketsTypeOK' /\ TableInv'
      /\ retired \subseteq retired'
      /\ Table \cup retired \subseteq Table' \cup retired'
      /\ DOMAIN interfaces' = DOMAIN interfaces \cup (IF success THEN {a} ELSE {})
      /\ \A x \in DOMAIN interfaces : interfaces'[x] = interfaces[x]
  BY <1>1, <1>2, AddFrame DEF IInv, GuardianTypeOK
<1>5. SendInv'
  BY <1>2, <1>4, SendFrame DEF IInv
<1>6. DOMAIN interfaces = DOMAIN interface_receivers
  BY <1>1 DEF IInv, GuardianTypeOK, Waits
<1>7. DOMAIN interfaces' = DOMAIN interface_receivers' \cup ({handling'} \ {NoAddr})
  BY <1>2, <1>3, <1>4, <1>6
<1>8. GuardianTypeOK'
  <2>1. Rest'
    BY <1>1, <1>2 DEF Rest, IInv, GuardianTypeOK
  <2>2. handling' \in DOMAIN interfaces' \cup {NoAddr}
    BY <1>7
  <2>3. Waits' => DOMAIN interface_receivers' = DOMAIN interfaces'
    BY <1>7 DEF Waits
  <2>4. \A x \in DOMAIN interface_receivers' :
          interface_receivers'[x] \in ReceiversOf(x)'
    BY <1>2 DEF IInv, GuardianTypeOK, ReceiversOf
  <2> QED BY <2>1, <2>2, <2>3, <2>4, <1>2, <1>4 DEF IInv, GuardianTypeOK, Rest
<1>9. TrackInv'
  <2>1. Defaults' = Defaults
    BY <1>2 DEF Defaults
  <2>2. \A s \in Table' : s \in Table \/ (success /\ s = interfaces'[a])
    BY <1>4 DEF Table
  <2>3. \A s \in Table \cup Defaults :
          \E r \in started : r.role = "receiver" /\ r.socket = s
    BY <1>1 DEF IInv, TrackInv
  <2>4. success => handling' = a
    BY <1>2
  <2> QED BY <2>1, <2>2, <2>3, <2>4, <1>1, <1>2, <1>3, <1>7 DEF TrackInv
<1> QED BY <1>4, <1>5, <1>8, <1>9 DEF IInv

LEMMA StartInv ==
  ASSUME IInv, StartReceiver
  PROVE  IInv'
<1> DEFINE r == NewReceiver(handling)
<1>1. /\ stage = "running" /\ handling # NoAddr /\ handling' = NoAddr
      /\ started' = started \cup {r} /\ live' = live \cup {r}
      /\ interface_receivers' =
           [a \in DOMAIN interface_receivers \cup {handling} |->
              IF a = handling THEN NewReceiver(a) ELSE interface_receivers[a]]
      /\ UNCHANGED <<v4, v6, interfaces, opened, sending>>
      /\ UNCHANGED <<stage, requests, phase, dropped>>
  BY DEF StartReceiver, socketVars
<1>2. handling \in DOMAIN interfaces
  BY <1>1 DEF IInv, GuardianTypeOK
<1>3. r.role = "receiver" /\ r.socket = interfaces[handling] /\ r.socket.addr = handling
  BY <1>2, TableType DEF NewReceiver, Actor, IInv, GuardianTypeOK
<1>4. SocketsTypeOK' /\ TableInv' /\ SendInv'
  BY <1>1, SameTable, SendFrame DEF IInv, GuardianTypeOK, SocketsTypeOK
<1>5. DOMAIN interface_receivers' = DOMAIN interfaces
  <2>1. DOMAIN interfaces =
          DOMAIN interface_receivers \cup ({handling} \ {NoAddr})
    BY <1>1 DEF IInv, TrackInv
  <2>2. DOMAIN interface_receivers' = DOMAIN interface_receivers \cup {handling}
    BY <1>1
  <2> QED BY <2>1, <2>2, <1>1
<1>6. \A a \in DOMAIN interface_receivers' : interface_receivers'[a] \in ReceiversOf(a)'
  <2>1. ASSUME NEW a \in DOMAIN interface_receivers'
        PROVE  interface_receivers'[a] \in ReceiversOf(a)'
    <3>1. CASE a = handling
      <4>1. interface_receivers'[a] = r
        BY <1>1, <2>1, <3>1
      <4> HIDE DEF r
      <4> QED BY <4>1, <3>1, <1>1, <1>3 DEF ReceiversOf
    <3>2. CASE a # handling
      <4>1. a \in DOMAIN interface_receivers
            /\ interface_receivers'[a] = interface_receivers[a]
        BY <1>1, <2>1, <3>2
      <4>2. interface_receivers[a] \in ReceiversOf(a)
        BY <4>1 DEF IInv, GuardianTypeOK
      <4> QED BY <4>1, <4>2, <1>1 DEF ReceiversOf
    <3> QED BY <3>1, <3>2
  <2> QED BY <2>1
<1> HIDE DEF r
<1>7. GuardianTypeOK'
  <2>1. Rest' /\ live' \subseteq started'
    BY <1>1 DEF Rest, IInv, GuardianTypeOK
  <2> QED BY <2>1, <1>1, <1>4, <1>5, <1>6 DEF GuardianTypeOK, Rest
<1>8. TrackInv'
  <2>1. Table' = Table /\ Defaults' = Defaults
    BY <1>1, SameTable DEF Defaults
  <2>2. \A s \in Table \cup Defaults :
          \/ s = interfaces[handling]
          \/ \E x \in started : x.role = "receiver" /\ x.socket = s
    BY <1>1 DEF IInv, TrackInv
  <2>3. \A s \in Table' \cup Defaults' :
          \E x \in started' : x.role = "receiver" /\ x.socket = s
    BY <2>1, <2>2, <1>1, <1>3
  <2> QED BY <2>3, <1>1, <1>5 DEF TrackInv
<1> QED BY <1>4, <1>7, <1>8 DEF IInv

LEMMA OnRemoveInv ==
  ASSUME IInv, OnRemoveInterface
  PROVE  IInv'
<1> DEFINE a == Head(requests).addr
<1>1. /\ a \in Interfaces /\ requests' \in Seq(Requests)
      /\ stage = "running" /\ handling = NoAddr
  BY Taken DEF OnRemoveInterface
<1>2. /\ RemoveInterface(a)
      /\ interface_receivers' =
           [x \in DOMAIN interface_receivers \ {a} |-> interface_receivers[x]]
      /\ UNCHANGED <<v4, v6, opened, sending>>
      /\ UNCHANGED <<stage, handling, started, live, phase, dropped>>
  BY DEF OnRemoveInterface
<1> HIDE DEF a
<1>3. /\ SocketsTypeOK' /\ TableInv'
      /\ retired \subseteq retired' /\ Table' \subseteq Table
      /\ Table \cup retired \subseteq Table' \cup retired'
      /\ DOMAIN interfaces' = DOMAIN interfaces \ {a}
  BY <1>1, <1>2, RemoveFrame DEF IInv, GuardianTypeOK
<1>4. SendInv'
  BY <1>2, <1>3, SendFrame DEF IInv
<1>5. DOMAIN interface_receivers' = DOMAIN interfaces'
  BY <1>1, <1>2, <1>3 DEF IInv, GuardianTypeOK, Waits
<1>6. GuardianTypeOK'
  <2>1. Rest' /\ live' \subseteq started'
    BY <1>1, <1>2 DEF Rest, IInv, GuardianTypeOK
  <2>2. \A x \in DOMAIN interface_receivers' :
          interface_receivers'[x] \in ReceiversOf(x)'
    BY <1>2 DEF IInv, GuardianTypeOK, ReceiversOf
  <2> QED BY <2>1, <2>2, <1>1, <1>2, <1>3, <1>5 DEF GuardianTypeOK, Rest
<1>7. TrackInv'
  <2>1. Defaults' = Defaults
    BY <1>2 DEF Defaults
  <2>2. \A s \in Table \cup Defaults :
          \E r \in started : r.role = "receiver" /\ r.socket = s
    BY <1>1 DEF IInv, TrackInv
  <2> QED BY <2>1, <2>2, <1>1, <1>2, <1>3, <1>5 DEF TrackInv
<1> QED BY <1>3, <1>4, <1>6, <1>7 DEF IInv

(* What the other actions have in common: the table and what the guardian  *)
(* tracks stay.                                                            *)
LEMMA QuietInv ==
  ASSUME IInv,
         UNCHANGED <<v4, v6, interfaces, opened>>,
         UNCHANGED <<handling, started, interface_receivers>>,
         SocketsTypeOK', SendInv', Rest', live' \subseteq started,
         stage' = "running" => stage = "running",
         stage' = "configured" =>
           stage = "configured" /\ sending' = sending /\ live' \subseteq live
  PROVE  IInv'
<1>1. Table' = Table /\ TableInv' /\ Defaults' = Defaults
  BY SameTable DEF IInv, Defaults
<1>2. GuardianTypeOK'
  <2>1. Waits' => Waits
    BY DEF Waits
  <2> QED BY <2>1 DEF IInv, GuardianTypeOK, Rest, ReceiversOf
<1>3. TrackInv'
  BY <1>1 DEF IInv, TrackInv
<1> QED BY <1>1, <1>2, <1>3 DEF IInv

LEMMA SpawnFailsInv ==
  ASSUME IInv, NEW class, SpawnFails(class)
  PROVE  IInv'
<1>1. /\ stage' = "refused" /\ UNCHANGED <<v4, v6, interfaces, opened, sending>>
      /\ UNCHANGED <<requests, handling, started, live, interface_receivers, phase, dropped>>
  BY DEF SpawnFails, socketVars
<1>2. SocketsTypeOK' /\ SendInv'
  BY <1>1, SameTable, SendFrame DEF IInv, GuardianTypeOK, SocketsTypeOK
<1>3. Rest' /\ live' \subseteq started
  BY <1>1 DEF Rest, IInv, GuardianTypeOK
<1> QED BY <1>1, <1>2, <1>3, QuietInv

LEMMA RequestInv ==
  ASSUME IInv, NEW r \in Requests, Request(r)
  PROVE  IInv'
<1>1. /\ requests' = Append(requests, r) /\ stage = "running"
      /\ UNCHANGED <<v4, v6, interfaces, opened, sending>>
      /\ UNCHANGED <<stage, handling, started, live, interface_receivers, phase, dropped>>
  BY DEF Request, socketVars
<1>2. SocketsTypeOK' /\ SendInv'
  BY <1>1, SameTable, SendFrame DEF IInv, GuardianTypeOK, SocketsTypeOK
<1>3. Rest' /\ live' \subseteq started
  BY <1>1 DEF Rest, IInv, GuardianTypeOK
<1> QED BY <1>1, <1>2, <1>3, QuietInv

LEMMA EndInv ==
  ASSUME IInv, OnSupervision \/ Drop
  PROVE  IInv'
<1>1. /\ stage' = "ended" /\ requests' = <<>>
      /\ UNCHANGED <<v4, v6, interfaces, opened, sending>>
      /\ UNCHANGED <<handling, started, live, interface_receivers, phase>>
      /\ dropped' = TRUE \/ dropped' = dropped
  BY DEF OnSupervision, Drop, socketVars
<1>2. SocketsTypeOK' /\ SendInv'
  BY <1>1, SameTable, SendFrame DEF IInv, GuardianTypeOK, SocketsTypeOK
<1>3. dropped' \in BOOLEAN
  BY <1>1, Zenon DEF IInv, GuardianTypeOK
<1>4. Rest' /\ live' \subseteq started
  BY <1>1, <1>3 DEF Rest, IInv, GuardianTypeOK
<1> QED BY <1>1, <1>2, <1>4, QuietInv

LEMMA AbortInv ==
  ASSUME IInv, AbortActors
  PROVE  IInv'
<1>1. /\ stage = "ended" /\ live' = {} /\ sending' = Idle /\ phase' = "query"
      /\ UNCHANGED <<v4, v6, interfaces, opened>>
      /\ UNCHANGED <<stage, requests, handling, started, interface_receivers, dropped>>
  BY DEF AbortActors
<1>2. SocketsTypeOK' /\ SendInv'
  BY <1>1, IdleFrame DEF IInv, GuardianTypeOK
<1>3. Rest' /\ live' \subseteq started
  BY <1>1 DEF Rest, IInv, GuardianTypeOK
<1> QED BY <1>1, <1>2, <1>3, QuietInv

LEMMA ReceiverInv ==
  ASSUME IInv, NEW r \in live, ReceiverFails(r) \/ SenderHearsQuery(r)
  PROVE  IInv'
<1>1. /\ live' \subseteq live /\ phase' \in {phase, "V4", "V6"}
      /\ UNCHANGED <<v4, v6, interfaces, opened, sending>>
      /\ UNCHANGED <<stage, requests, handling, started, interface_receivers, dropped>>
  BY DEF ReceiverFails, SenderHearsQuery, Ends, socketVars
<1>2. SocketsTypeOK' /\ SendInv'
  BY <1>1, SameTable, SendFrame DEF IInv, GuardianTypeOK, SocketsTypeOK
<1>3. Rest' /\ live' \subseteq started
  BY <1>1 DEF Rest, IInv, GuardianTypeOK, Modes
<1> QED BY <1>1, <1>2, <1>3, QuietInv

LEMMA SenderInv ==
  ASSUME IInv, SenderSends \/ SenderPanics
  PROVE  IInv'
<1>1. /\ SenderActor \in live /\ live' \subseteq live
      /\ UNCHANGED <<stage, requests, handling, started, interface_receivers, dropped>>
  BY DEF SenderSends, SenderPanics, Ends
<1>2. stage # "configured"
  BY <1>1 DEF IInv, TrackInv
<1>3. /\ UNCHANGED <<v4, v6, interfaces, opened>>
      /\ SocketsTypeOK' /\ SendInv' /\ phase' \in Modes \cup {"query"}
  <2>1. CASE SenderPanics
    <3>1. UNCHANGED <<v4, v6, interfaces, opened, phase>> /\ sending' = Idle
      BY <2>1 DEF SenderPanics, Ends
    <3> QED BY <3>1, IdleFrame DEF IInv, GuardianTypeOK
  <2>2. CASE phase = "query" /\ BeginSend("Any") /\ phase' = "Any"
    <3>1. "Any" \in Modes
      BY DEF Modes
    <3>2. UNCHANGED <<v4, v6, interfaces, opened>>
      BY <2>2 DEF BeginSend, Unchanged
    <3> QED BY <2>2, <3>1, <3>2, BeginFrame DEF IInv, GuardianTypeOK
  <2>3. CASE phase \in Modes /\ BeginSend(phase) /\ phase' = "query"
    <3>1. UNCHANGED <<v4, v6, interfaces, opened>>
      BY <2>3 DEF BeginSend, Unchanged
    <3> QED BY <2>3, <3>1, BeginFrame DEF IInv, GuardianTypeOK
  <2>4. CASE phase' = "query" /\ UNCHANGED socketVars
    <3>1. UNCHANGED <<v4, v6, interfaces, opened, sending>>
      BY <2>4 DEF socketVars
    <3> QED BY <2>4, <3>1, SameTable, SendFrame DEF IInv, GuardianTypeOK, SocketsTypeOK
  <2>5. CASE SendStep /\ UNCHANGED phase
    <3>1. UNCHANGED <<v4, v6, interfaces, opened>>
      BY <2>5 DEF SendStep, CopyTable, SendV6, SendNext, Unchanged
    <3> QED BY <2>5, <3>1, StepFrame DEF IInv, GuardianTypeOK
  <2> QED BY <2>1, <2>2, <2>3, <2>4, <2>5, Zenon DEF SenderSends
<1>4. Rest' /\ live' \subseteq started
  BY <1>1, <1>3 DEF Rest, IInv, GuardianTypeOK
<1> QED BY <1>1, <1>2, <1>3, <1>4, QuietInv

LEMMA StutterInv ==
  ASSUME IInv, UNCHANGED gvars
  PROVE  IInv'
<1>1. /\ UNCHANGED <<v4, v6, interfaces, opened, sending>>
      /\ UNCHANGED <<stage, requests, handling, started, live, interface_receivers, phase, dropped>>
  BY DEF gvars, socketVars, guardianVars
<1>2. SocketsTypeOK' /\ SendInv'
  BY <1>1, SameTable, SendFrame DEF IInv, GuardianTypeOK, SocketsTypeOK
<1>3. Rest' /\ live' \subseteq started
  BY <1>1 DEF Rest, IInv, GuardianTypeOK
<1> QED BY <1>1, <1>2, <1>3, QuietInv

LEMMA StepInv == IInv /\ [GNext]_gvars => IInv'
<1> SUFFICES ASSUME IInv, [GNext]_gvars PROVE IInv'
  OBVIOUS
<1>1. Succeeds \subseteq BOOLEAN
  BY DEF Succeeds
<1>2. CASE \E class \in Classes, list \in SUBSET Interfaces,
             bound4 \in Succeeds, bound6 \in Succeeds :
             Spawn(class, list, bound4, bound6)
  BY <1>1, <1>2, SpawnInv
<1>3. CASE \E class \in Classes : SpawnFails(class)
  BY <1>3, SpawnFailsInv
<1>4. CASE \E r \in Requests : Request(r)
  BY <1>4, RequestInv
<1>5. CASE \E success \in Succeeds : OnAddInterface(success)
  BY <1>1, <1>5, OnAddInv
<1>6. CASE \E r \in live : ReceiverFails(r) \/ SenderHearsQuery(r)
  BY <1>6, ReceiverInv
<1>7. CASE UNCHANGED gvars
  BY <1>7, StutterInv
<1> QED BY <1>2, <1>3, <1>4, <1>5, <1>6, <1>7, StartInv, OnRemoveInv, EndInv,
           AbortInv, SenderInv, Zenon DEF GNext
-----------------------------------------------------------------------------
LEMMA AlwaysIInv == GSpec => []IInv
BY InitInv, StepInv, PTL DEF GSpec

(* guardian: it tracks a receiver for every interface in the table and for *)
(* no other, however interfaces are added and removed.                     *)
THEOREM GuardianType == GSpec => []GuardianTypeOK
<1>1. IInv => GuardianTypeOK
  BY DEF IInv
<1> QED BY <1>1, AlwaysIInv, PTL

(* send_msg: a message reaches the sockets it is due on, whatever the      *)
(* guardian does to the table between the two looks at it.                 *)
THEOREM GuardianSends == GSpec => []SentWhereDue
<1>1. IInv => SentWhereDue
  BY SendDone DEF IInv, GuardianTypeOK
<1> QED BY <1>1, AlwaysIInv, PTL

(* guardian: it started a receiver for every socket that is sent on.       *)
THEOREM GuardianListens == GSpec => []Listening
<1>1. IInv => Listening
  BY DEF IInv, TrackInv, Listening, Waits, Defaults
<1> QED BY <1>1, AlwaysIInv, PTL
-----------------------------------------------------------------------------
(* The unwraps of send_msg.                                                *)

(* Who hears queries over IPv4.                                            *)
HadV4 == v4 \/ \E a \in Interfaces : opened[a] > 0

(* No mode is chosen that no socket of the service ever had.               *)
ModeInv ==
  /\ stage = "configured" => phase = "query"
  /\ live # {} => stage \in {"running", "ended"}
  /\ stage \in {"running", "ended"} => v4 \/ v6
  /\ \A r \in started : r.role = "receiver" =>
       IF r.socket.kind = "v4" THEN HadV4 ELSE v6
  /\ phase = "V4" => HadV4
  /\ phase = "V6" => v6
  /\ UnwrapsFit

LEMMA ModeInit == GInit => ModeInv
BY DEF GInit, ModeInv, UnwrapsFit, Idle

LEMMA ModeSpawn ==
  ASSUME IInv, ModeInv, NEW class \in Classes, NEW list \in SUBSET Interfaces,
         NEW bound4 \in BOOLEAN, NEW bound6 \in BOOLEAN,
         Spawn(class, list, bound4, bound6)
  PROVE  ModeInv'
<1>1. PICK created \in SUBSET list :
        /\ interfaces' = [a \in created |-> InterfaceSocket(a, 1)]
        /\ opened' = [a \in Interfaces |-> IF a \in created THEN 1 ELSE 0]
  BY DEF Spawn, NewInterfaces
<1> DEFINE initial == [a \in created |-> Actor("receiver", interfaces'[a], 1)]
<1>2. /\ started' = {UpdaterActor, SenderActor}
           \cup {Actor("receiver", s, 1) : s \in Defaults'} \cup {initial[a] : a \in created}
      /\ stage' = "running" /\ phase' = phase /\ stage = "configured"
      /\ sending' = sending
  BY <1>1 DEF Spawn, Defaults
<1>3. phase = "query" /\ sending = Idle
  BY <1>2 DEF IInv, TrackInv, ModeInv
<1>4. v4' \/ v6'
  <2>1. class \in IpClass
    BY SocketsAssumption
  <2> QED BY <2>1 DEF Spawn, NewDefaults, HasV4, HasV6, IpClass
<1>5. ASSUME NEW r \in started', r.role = "receiver"
      PROVE  IF r.socket.kind = "v4" THEN HadV4' ELSE v6'
  <2>1. r # UpdaterActor /\ r # SenderActor
    BY <1>5 DEF UpdaterActor, SenderActor, Actor
  <2>2. CASE \E s \in Defaults' : r = Actor("receiver", s, 1)
    <3>1. PICK s \in Defaults' : r = Actor("receiver", s, 1)
      BY <2>2
    <3>2. r.socket = s
      BY <3>1 DEF Actor
    <3>3. (s = V4 /\ v4') \/ (s = V6 /\ v6')
      BY <3>1 DEF Defaults
    <3>4. V4.kind = "v4" /\ V6.kind = "v6"
      BY DEF V4, V6
    <3> QED BY <3>2, <3>3, <3>4 DEF HadV4
  <2>3. CASE \E a \in created : r = initial[a]
    <3>1. PICK a \in created : r = initial[a]
      BY <2>3
    <3>2. r.socket = InterfaceSocket(a, 1)
      BY <1>1, <3>1 DEF Actor
    <3>3. r.socket.kind = "v4"
      BY <3>2 DEF InterfaceSocket
    <3>4. a \in Interfaces /\ opened'[a] > 0
      BY <1>1
    <3> QED BY <3>3, <3>4 DEF HadV4
  <2> QED BY <1>2, <2>1, <2>2, <2>3
<1> QED BY <1>2, <1>3, <1>4, <1>5 DEF ModeInv, UnwrapsFit, Idle

(* Who heard queries over IPv4 has not unlearned it.                       *)
LEMMA HadV4Kept ==
  ASSUME HadV4, v4' = v4,
         \A a \in Interfaces : opened[a] > 0 => opened'[a] > 0
  PROVE  HadV4'
BY DEF HadV4

(* A step that chooses no mode.                                            *)
LEMMA ModeKept ==
  ASSUME ModeInv, UNCHANGED <<v4, v6, phase, stage, started>>, live' \subseteq live,
         sending' = sending \/ sending'.pc # "panic",
         \A a \in Interfaces : opened[a] > 0 => opened'[a] > 0
  PROVE  ModeInv'
<1>1. HadV4 => HadV4'
  BY HadV4Kept
<1>2. UnwrapsFit'
  BY DEF ModeInv, UnwrapsFit
<1> QED BY <1>1, <1>2 DEF ModeInv

LEMMA ModeStart ==
  ASSUME IInv, ModeInv, StartReceiver
  PROVE  ModeInv'
<1>1. /\ started' = started \cup {NewReceiver(handling)} /\ stage = "running"
      /\ UNCHANGED <<v4, v6, opened, sending, phase, stage>>
  BY DEF StartReceiver, socketVars
<1>2. handling \in DOMAIN interfaces /\ SocketsTypeOK /\ TableInv
  BY DEF StartReceiver, IInv, GuardianTypeOK
<1>3. handling \in Interfaces /\ interfaces[handling].kind = "v4"
  BY <1>2, TableType
<1>4. opened[handling] > 0
  <2>1. opened[handling] \in Nat
    BY <1>2, <1>3 DEF SocketsTypeOK
  <2>2. PICK k \in 1..opened[handling] : TRUE
    BY <1>2 DEF TableInv
  <2> QED BY <2>1, <2>2
<1>5. NewReceiver(handling).socket.kind = "v4"
  BY <1>3 DEF NewReceiver, Actor
<1>6. HadV4 /\ (HadV4' <=> HadV4)
  BY <1>1, <1>3, <1>4 DEF HadV4
<1>7. UnwrapsFit'
  BY <1>1 DEF ModeInv, UnwrapsFit
<1> QED BY <1>1, <1>5, <1>6, <1>7 DEF ModeInv

LEMMA ModeHears ==
  ASSUME IInv, ModeInv, NEW r \in live, SenderHearsQuery(r)
  PROVE  ModeInv'
<1>1. /\ r \in started /\ r.role = "receiver"
      /\ phase' = IF r.socket.kind = "v4" THEN "V4" ELSE "V6"
      /\ UNCHANGED <<v4, v6, opened, sending, stage, started, live>>
  BY DEF SenderHearsQuery, socketVars, IInv, GuardianTypeOK
<1>2. HadV4' <=> HadV4
  BY <1>1 DEF HadV4
<1>3. UnwrapsFit' /\ stage # "configured"
  BY <1>1 DEF ModeInv, UnwrapsFit
<1> QED BY <1>1, <1>2, <1>3 DEF ModeInv

(* Where a send may fail to find a socket.                                 *)
LEMMA ModeBegin ==
  ASSUME IInv, ModeInv, SenderActor \in live, NEW mode \in Modes, BeginSend(mode),
         mode = "Any" \/ mode = phase
  PROVE  UnwrapsFit'
<1> SUFFICES ASSUME sending'.pc = "panic"
             PROVE  sending'.mode = "V4" /\ ~v4 /\ \E a \in Interfaces : opened[a] > 0
  BY DEF UnwrapsFit, BeginSend, Unchanged
<1>1. DefaultSocket(mode) = {} /\ sending'.mode = mode
  BY DEF BeginSend, Idle
<1>2. v4 \/ v6
  BY DEF ModeInv
<1>3. mode # "Any"
  BY <1>1, <1>2 DEF DefaultSocket
<1>4. mode # "V6"
  BY <1>1 DEF DefaultSocket, ModeInv
<1>5. mode = "V4"
  BY <1>3, <1>4 DEF Modes
<1>6. ~v4
  BY <1>1, <1>5 DEF DefaultSocket
<1> QED BY <1>1, <1>5, <1>6 DEF ModeInv, HadV4

LEMMA ModeSends ==
  ASSUME IInv, ModeInv, SenderSends
  PROVE  ModeInv'
<1>1. /\ SenderActor \in live
      /\ UNCHANGED <<v4, v6, opened, stage, started, live>>
  BY DEF SenderSends, BeginSend, SendStep, CopyTable, SendV6, SendNext, Unchanged, socketVars
<1>2. HadV4' <=> HadV4
  BY <1>1 DEF HadV4
<1>3. stage # "configured"
  BY <1>1 DEF ModeInv
<1>4. CASE phase = "query" /\ BeginSend("Any") /\ phase' = "Any"
  <2>1. "Any" \in Modes
    BY DEF Modes
  <2>2. UnwrapsFit'
    BY <1>1, <1>4, <2>1, ModeBegin
  <2> QED BY <1>1, <1>2, <1>3, <1>4, <2>2 DEF ModeInv
<1>5. CASE phase \in Modes /\ BeginSend(phase) /\ phase' = "query"
  <2>1. UnwrapsFit'
    BY <1>1, <1>5, ModeBegin
  <2> QED BY <1>1, <1>2, <1>3, <1>5, <2>1 DEF ModeInv
<1>6. CASE phase' = "query" /\ UNCHANGED socketVars
  <2>1. UnwrapsFit'
    BY <1>6 DEF ModeInv, UnwrapsFit, socketVars
  <2> QED BY <1>1, <1>2, <1>3, <1>6, <2>1 DEF ModeInv
<1>7. CASE SendStep /\ UNCHANGED phase
  <2>1. \/ sending'.pc # "panic"
        \/ sending'.pc = sending.pc /\ sending'.mode = sending.mode
    <3>1. sending \in [pc : {"idle", "copy", "each", "last", "panic"},
                       mode : Modes, todo : SUBSET Socket, tried : SUBSET Socket,
                       due : SUBSET Socket, old : SUBSET Socket]
      BY DEF IInv, GuardianTypeOK, SocketsTypeOK
    <3>2. CASE CopyTable
      BY <3>1, <3>2 DEF CopyTable
    <3>3. CASE SendV6
      BY <3>1, <3>3 DEF SendV6
    <3>4. ASSUME NEW s \in sending.todo, NEW success, SendNext(s, success)
          PROVE  sending'.pc = sending.pc /\ sending'.mode = sending.mode
      BY <3>1, <3>4 DEF SendNext
    <3>5. CASE sending' = Idle
      BY <3>5 DEF Idle
    <3> QED BY <1>7, <3>2, <3>3, <3>4, <3>5 DEF SendStep
  <2>2. UnwrapsFit'
    BY <1>1, <2>1 DEF ModeInv, UnwrapsFit
  <2> QED BY <1>1, <1>2, <1>3, <1>7, <2>2 DEF ModeInv
<1> QED BY <1>4, <1>5, <1>6, <1>7 DEF SenderSends

(* The other actions of the guardian and of the actors.                    *)
LEMMA ModeOthers ==
  ASSUME IInv, ModeInv,
         \/ \E class \in Classes : SpawnFails(class)
         \/ \E q \in Requests : Request(q)
         \/ OnRemoveInterface
         \/ \E r \in live : ReceiverFails(r)
         \/ SenderPanics \/ UNCHANGED gvars
  PROVE  ModeInv'
<1>1. CASE \E class \in Classes : SpawnFails(class)
  <2>1. /\ stage' = "refused" /\ live = {} /\ sending = Idle
        /\ UNCHANGED <<v4, v6, opened, sending, phase, started, live>>
    BY <1>1 DEF SpawnFails, socketVars, IInv, TrackInv
  <2>2. HadV4' <=> HadV4
    BY <2>1 DEF HadV4
  <2>3. UnwrapsFit'
    BY <2>1 DEF UnwrapsFit, Idle
  <2> QED BY <2>1, <2>2, <2>3 DEF ModeInv
<1>2. CASE ~\E class \in Classes : SpawnFails(class)
  <2>1. /\ UNCHANGED <<v4, v6, opened, phase, stage, started>> /\ live' \subseteq live
        /\ sending' = sending \/ sending'.pc # "panic"
    BY <1>2 DEF Request, OnRemoveInterface, ReceiverFails, SenderPanics, Ends,
                socketVars, gvars, guardianVars, Idle
  <2> QED BY <2>1, ModeKept
<1> QED BY <1>1, <1>2

LEMMA ModeEnds ==
  ASSUME IInv, ModeInv, OnSupervision \/ Drop \/ AbortActors
  PROVE  ModeInv'
<1>1. /\ UNCHANGED <<v4, v6, opened, started>> /\ live' \subseteq live
      /\ sending' = sending \/ sending' = Idle
      /\ stage \in {"running", "ended"} /\ stage' = "ended"
      /\ phase' \in {phase, "query"}
  BY DEF OnSupervision, Drop, AbortActors, Waits, socketVars
<1>2. HadV4' <=> HadV4
  BY <1>1 DEF HadV4
<1>3. UnwrapsFit'
  BY <1>1 DEF ModeInv, UnwrapsFit, Idle
<1> QED BY <1>1, <1>2, <1>3 DEF ModeInv

LEMMA ModeAdd ==
  ASSUME IInv, ModeInv, NEW success, OnAddInterface(success)
  PROVE  ModeInv'
<1>1. /\ UNCHANGED <<v4, v6, sending, stage, started, live, phase>>
      /\ AddInterface(Head(requests).addr, success)
  BY DEF OnAddInterface
<1>2. opened \in [Interfaces -> Nat]
  BY DEF IInv, GuardianTypeOK, SocketsTypeOK
<1>3. \A a \in Interfaces : opened[a] > 0 => opened'[a] > 0
  BY <1>1, <1>2 DEF AddInterface
<1> QED BY <1>1, <1>3, ModeKept

LEMMA ModeStep == IInv /\ ModeInv /\ [GNext]_gvars => ModeInv'
<1> SUFFICES ASSUME IInv, ModeInv, [GNext]_gvars PROVE ModeInv'
  OBVIOUS
<1>1. Succeeds \subseteq BOOLEAN
  BY DEF Succeeds
<1>2. CASE \E class \in Classes, list \in SUBSET Interfaces,
             bound4 \in Succeeds, bound6 \in Succeeds :
             Spawn(class, list, bound4, bound6)
  BY <1>1, <1>2, ModeSpawn
<1>3. CASE \E success \in Succeeds : OnAddInterface(success)
  BY <1>3, ModeAdd
<1>4. CASE \E r \in live : SenderHearsQuery(r)
  BY <1>4, ModeHears
<1>5. CASE OnSupervision \/ Drop \/ AbortActors
  BY <1>5, ModeEnds
<1>6. CASE StartReceiver \/ SenderSends
  BY <1>6, ModeStart, ModeSends
<1>7. CASE \/ \E class \in Classes : SpawnFails(class)
           \/ \E q \in Requests : Request(q)
           \/ OnRemoveInterface
           \/ \E r \in live : ReceiverFails(r)
           \/ SenderPanics \/ UNCHANGED gvars
  BY <1>7, ModeOthers
<1> QED BY <1>2, <1>3, <1>4, <1>5, <1>6, <1>7, Zenon DEF GNext

(* send_msg: no unwrap fails but that of the IPv4 socket, in a service     *)
(* that heard IPv4 queries on interfaces only.                             *)
THEOREM GuardianUnwraps == GSpec => []UnwrapsFit
<1>1. ModeInv => UnwrapsFit
  BY DEF ModeInv
<1> QED BY <1>1, AlwaysIInv, ModeInit, ModeStep, PTL DEF GSpec
-----------------------------------------------------------------------------
(* How far the promise of the DropGuard goes.                              *)

KeepInv ==
  /\ stage \in {"running", "ended"} => v4
  /\ stage = "running" => started = live
  /\ stage # "refused" /\ KeepsRunning

LEMMA KeepStep ==
  ASSUME OsFails = FALSE, "V6Only" \notin Classes
  PROVE  IInv /\ ModeInv /\ KeepInv /\ [GNext]_gvars => KeepInv'
<1> SUFFICES ASSUME IInv, ModeInv, KeepInv, [GNext]_gvars PROVE KeepInv'
  OBVIOUS
<1>1. Succeeds = {TRUE}
  BY DEF Succeeds
<1>2. ASSUME NEW class \in Classes, NEW list \in SUBSET Interfaces,
             Spawn(class, list, TRUE, TRUE)
      PROVE  KeepInv'
  <2>1. class \in IpClass \ {"V6Only"}
    BY SocketsAssumption
  <2>2. v4'
    BY <1>2, <2>1 DEF Spawn, NewDefaults, HasV4, IpClass
  <2> QED BY <1>2, <2>2 DEF Spawn, KeepInv, KeepsRunning
<1>3. ~\E class \in Classes : SpawnFails(class)
  BY DEF SpawnFails, NewFails
<1>4. ASSUME NEW success, OnAddInterface(success) PROVE KeepInv'
  BY <1>4 DEF OnAddInterface, KeepInv, KeepsRunning
<1>5. ASSUME NEW q \in Requests, Request(q) PROVE KeepInv'
  BY <1>5 DEF Request, socketVars, KeepInv, KeepsRunning
<1>6. ASSUME OnSupervision PROVE KeepInv'
  BY <1>6 DEF OnSupervision, Waits, KeepInv
<1>7. CASE StartReceiver
  BY <1>7 DEF StartReceiver, socketVars, KeepInv, KeepsRunning
<1>8. CASE OnRemoveInterface
  BY <1>8 DEF OnRemoveInterface, KeepInv, KeepsRunning
<1>9. CASE Drop
  BY <1>9 DEF Drop, Waits, socketVars, KeepInv, KeepsRunning
<1>10. CASE AbortActors
  BY <1>10 DEF AbortActors, KeepInv, KeepsRunning
<1>11. ASSUME NEW r \in live, ReceiverFails(r) \/ SenderHearsQuery(r) PROVE KeepInv'
  BY <1>11 DEF ReceiverFails, SenderHearsQuery, socketVars, KeepInv, KeepsRunning
<1>12. CASE SenderSends
  <2>1. UNCHANGED v4
    BY <1>12 DEF SenderSends, BeginSend, SendStep, CopyTable, SendV6, SendNext,
                 Unchanged, socketVars
  <2>2. UNCHANGED <<stage, started, live, dropped>>
    BY <1>12 DEF SenderSends
  <2> QED BY <2>1, <2>2 DEF KeepInv, KeepsRunning
<1>13. ~SenderPanics
  BY DEF SenderPanics, ModeInv, UnwrapsFit, KeepInv
<1>14. CASE UNCHANGED gvars
  BY <1>14 DEF gvars, socketVars, guardianVars, KeepInv, KeepsRunning
<1> QED BY <1>1, <1>2, <1>3, <1>4, <1>5, <1>6, <1>7, <1>8, <1>9, <1>10, <1>11, <1>12,
           <1>13, <1>14, Zenon DEF GNext

(* A service that has a default IPv4 socket keeps running until its guard  *)
(* is dropped, if the operating system never fails: whatever it hears and  *)
(* however interfaces come and go.                                         *)
THEOREM GuardianKeepsRunning ==
  ASSUME OsFails = FALSE, "V6Only" \notin Classes
  PROVE  GSpec => []KeepsRunning
<1>1. GInit => KeepInv
  BY DEF GInit, KeepInv, KeepsRunning
<1>2. KeepInv => KeepsRunning
  BY DEF KeepInv
<1>3. IInv /\ ModeInv /\ KeepInv /\ [GNext]_gvars => KeepInv'
  BY KeepStep
<1> QED BY <1>1, <1>2, <1>3, AlwaysIInv, ModeInit, ModeStep, PTL DEF GSpec
=============================================================================
