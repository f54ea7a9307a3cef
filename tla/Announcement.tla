----------------------------- MODULE Announcement ----------------------------
(***************************************************************************)
(* What a node announces: the entry of the local peer, from the builder    *)
(* (lib.rs) over the updates the application sends through its DropGuard   *)
(* to the DNS message the sender multicasts (sender.rs) and what the       *)
(* receiver of another node makes of it (receiver.rs).                     *)
(*                                                                         *)
(* A domain name is a sequence of labels, a text a sequence of bytes, one  *)
(* of which is the equals sign.  Labels and ports have lengths; nothing    *)
(* else about their characters matters.                                    *)
(***************************************************************************)
EXTENDS Naturals, SequencesExt

CONSTANTS
  PeerNames,           \* the peer_ids, split into labels
  Labels, LabelLen,    \* the labels and their lengths in bytes
  ServiceName, Local,  \* the labels of `_name._udp.local` and of `local`
  MaxLabel,            \* the longest label the name parser takes, 63
  Ports, PortLen,      \* the ports and the lengths of their decimal form
  Ips,
  KeySeq,              \* the attribute keys in the order of a BTreeMap
  Values,              \* the attribute values that are present
  Bytes,               \* the bytes of keys and values
  Equals,              \* the equals sign
  NoValue,             \* the value of a flag attribute
  MaxText,             \* the longest key and value, 254 bytes together
  MaxString,           \* the longest string of a TXT record, 255 bytes
  UpdateCap,           \* number of updates that fit into the mailboxes
  None

Keys == Range(KeySeq)

ASSUME AnnouncementAssumption ==
  /\ PeerNames \subseteq Seq(Labels) \ {<<>>}
  /\ LabelLen \in [Labels -> Nat] /\ PortLen \in [Ports -> Nat]
  /\ ServiceName \in Seq(Labels) /\ Local \in Seq(Labels)
  /\ KeySeq \in Seq(Seq(Bytes)) /\ IsInjective(KeySeq)
  /\ Values \subseteq Seq(Bytes) /\ Equals \in Bytes
  /\ NoValue \notin Seq(Bytes)
  /\ MaxLabel \in Nat /\ MaxText \in Nat /\ MaxString = MaxText + 1
  /\ UpdateCap \in Nat

VARIABLES
  stage,      \* of the service: the builder, refused by spawn or before,
              \* running, or stopped because the sender panicked
  peer_id,
  entry,      \* discoverer.peers[peer_id], or None
  updates,    \* on their way through the guardian to the sender
  announced,  \* the sender's `response`, a set of at most one message
  asked       \* what the accepted calls ask for (for the properties only)

avars == <<stage, peer_id, entry, updates, announced, asked>>

Addrs == Ips \X Ports
Txt == UNION {[S -> Values \cup {NoValue}] : S \in SUBSET Keys}
Config == [addrs : SUBSET Addrs, txt : Txt]
NoConfig == [addrs |-> {}, txt |-> <<>>]

ASSUME NoneAssumption == None \notin Config
-----------------------------------------------------------------------------
(* TXT attributes.                                                         *)
(* Mutant of ValidAttribute: the limit of the string, not of its parts.    *)
ValidWithoutEquals(k, v) ==
  /\ k # <<>>
  /\ Len(k) + (IF v = NoValue THEN 0 ELSE Len(v)) <= MaxString

(* validate_txt_attribute.                                                 *)
ValidAttribute(k, v) ==
  /\ k # <<>>
  /\ Len(k) + (IF v = NoValue THEN 0 ELSE Len(v)) <= MaxText

Attribute(k, v) == IF v = NoValue THEN k ELSE k \o <<Equals>> \o v

EqualsAt(s) == {i \in 1..Len(s) : s[i] = Equals}

(* str::split_once('=').                                                   *)
KeyOf(s) == IF EqualsAt(s) = {} THEN s ELSE SubSeq(s, 1, Min(EqualsAt(s)) - 1)

ValueOf(s) == IF EqualsAt(s) = {} THEN NoValue
              ELSE SubSeq(s, Min(EqualsAt(s)) + 1, Len(s))

(* The strings of a TXT record in the order of the map: each stands at the *)
(* position of its key in KeySeq.                                          *)
TxtStrings(txt) ==
  [i \in {j \in DOMAIN KeySeq : KeySeq[j] \in DOMAIN txt /\ KeySeq[j] # <<>>} |->
     Attribute(KeySeq[i], txt[KeySeq[i]])]

(* The map a receiver reads from them: the first of equal keys counts.     *)
TxtMap(strings) ==
  LET read == {i \in DOMAIN strings : strings[i] # <<>>}
      at(k) == {i \in read : KeyOf(strings[i]) = k}
  IN  [k \in {KeyOf(strings[i]) : i \in read} |-> ValueOf(strings[Min(at(k))])]
-----------------------------------------------------------------------------
(* The announcement: one SRV record per port, to a target name of its own, *)
(* an A or AAAA record per address under the target of its port, and a TXT *)
(* record.                                                                 *)

(* Mutant of Target: the ports share the name of the peer.                 *)
SharedTarget(port) == peer_id \o Local

Target(port) == Append(Front(peer_id), <<Last(peer_id), port>>) \o Local

TargetParses(port) == LabelLen[Last(peer_id)] + 1 + PortLen[port] <= MaxLabel

PortsOf(e) == {a[2] : a \in e.addrs}

Message(e) ==
  [name |-> peer_id \o ServiceName,
   srv |-> {[port |-> p, target |-> Target(p)] : p \in PortsOf(e)},
   txt |-> TxtStrings(e.txt),
   additional |-> {[name |-> Target(a[2]), ip |-> a[1]] : a \in e.addrs}]

Panics(e) == e # None /\ \E p \in PortsOf(e) : ~TargetParses(p)

(* make_response, by the sender when it starts and after every update.     *)
MakeResponse(e) ==
  IF Panics(e)
  THEN stage' = "panicked" /\ announced' = {}
  ELSE stage' = "running" /\ announced' = IF e = None THEN {} ELSE {Message(e)}

(* Sockets::send_msg: a message that cannot be encoded is not sent.        *)
Encodable(m) == \A s \in Range(m.txt) : Len(s) <= MaxString

(* handle_msg: a peer is only taken from an address that belongs to one of *)
(* its targets; names must have exactly one label of their own.            *)
HandleMsg(m) ==
  LET taken == {r \in m.srv \X m.additional :
                  /\ r[1].target = r[2].name
                  /\ Tail(m.name) = ServiceName
                  /\ Tail(r[2].name) = Local}
  IN  [id \in {Head(m.name) : r \in taken} |->
         [addrs |-> {<<r[2].ip, r[1].port>> : r \in taken},
          txt |-> TxtMap(m.txt)]]

(* What another node learns from the next announcement, if one is sent.    *)
Seen == {HandleMsg(m) : m \in {n \in announced : Encodable(n)}}
-----------------------------------------------------------------------------
(* Changes of the entry.                                                   *)
WithoutKey(txt, key) == [k \in DOMAIN txt \ {key} |-> txt[k]]
WithKey(txt, key, v) ==
  [k \in DOMAIN txt \cup {key} |-> IF k = key THEN v ELSE txt[k]]

Change(c, op) ==
  CASE op.type = "RemoveAll" -> NoConfig
    [] op.type = "RemovePort" -> [c EXCEPT !.addrs = {a \in @ : a[2] # op.port}]
    [] op.type = "RemoveAddr" -> [c EXCEPT !.addrs = {a \in @ : a[1] # op.ip}]
    [] op.type = "AddAddr" -> [c EXCEPT !.addrs = @ \cup (op.ips \X {op.port})]
    [] op.type = "SetTxt" -> [c EXCEPT !.txt = WithKey(@, op.key, op.value)]
    [] op.type = "RemoveTxt" -> [c EXCEPT !.txt = WithoutKey(@, op.key)]

(* update_response, on the table: RemoveAll removes the entry, AddAddr and *)
(* SetTxt create it, the others change one that exists.                    *)
UpdatedEntry(op) ==
  IF op.type = "RemoveAll" THEN None
  ELSE IF entry # None THEN Change(entry, op)
  ELSE IF op.type \in {"AddAddr", "SetTxt"} THEN Change(NoConfig, op)
  ELSE None

Updates ==
  [type : {"RemoveAll"}]
    \cup [type : {"RemovePort"}, port : Ports]
    \cup [type : {"RemoveAddr"}, ip : Ips]
    \cup [type : {"AddAddr"}, port : Ports, ips : SUBSET Ips]
    \cup [type : {"SetTxt"}, key : Keys, value : Values \cup {NoValue}]
    \cup [type : {"RemoveTxt"}, key : Keys]
-----------------------------------------------------------------------------
(* The builder.                                                            *)
Built(op) ==
  /\ entry' = Change(IF entry = None THEN NoConfig ELSE entry, op)
  /\ asked' = Change(asked, op)
  /\ UNCHANGED <<stage, peer_id, updates, announced>>

WithAddrs(port, ips) ==
  /\ stage = "building"
  /\ Built([type |-> "AddAddr", port |-> port, ips |-> ips])

(* One attribute; a list has the effect of a call for each.                *)
WithTxtAttribute(key, value) ==
  /\ stage = "building"
  /\ IF ValidAttribute(key, value)
     THEN Built([type |-> "SetTxt", key |-> key, value |-> value])
     ELSE /\ stage' = "refused"
          /\ UNCHANGED <<peer_id, entry, updates, announced, asked>>

(* spawn checks the peer_id; the sender then makes its first announcement  *)
(* before it takes any update.                                             *)
Spawn ==
  /\ stage = "building"
  /\ IF \A i \in 1..Len(peer_id) : LabelLen[peer_id[i]] <= MaxLabel
     THEN MakeResponse(entry)
     ELSE stage' = "refused" /\ UNCHANGED announced
  /\ UNCHANGED <<peer_id, entry, updates, asked>>

(* The methods of DropGuard; an update that a mailbox refuses is lost.     *)
Accept(op) ==
  /\ IF Len(updates) < UpdateCap
     THEN updates' = Append(updates, op) /\ asked' = Change(asked, op)
     ELSE UNCHANGED <<updates, asked>>
  /\ UNCHANGED <<stage, peer_id, entry, announced>>

(* Mutant of SetTxtAttribute: only the builder validates.                  *)
SetTxtUnchecked(op) ==
  /\ stage = "running" /\ op.type = "SetTxt"
  /\ Accept(op)

SetTxtAttribute(op) ==
  /\ stage = "running" /\ op.type = "SetTxt"
  /\ ValidAttribute(op.key, op.value)
  /\ Accept(op)

OtherUpdate(op) ==
  /\ stage = "running" /\ op.type # "SetTxt"
  /\ Accept(op)

(* MdnsMsg::Update, in either phase of the sender.                         *)
OnUpdate ==
  /\ stage = "running" /\ updates # <<>>
  /\ updates' = Tail(updates)
  /\ entry' = UpdatedEntry(Head(updates))
  /\ MakeResponse(entry')
  /\ UNCHANGED <<peer_id, asked>>
-----------------------------------------------------------------------------
AInit ==
  /\ stage = "building"
  /\ peer_id \in PeerNames
  /\ entry = None
  /\ updates = <<>>
  /\ announced = {}
  /\ asked = NoConfig

ANext ==
  \/ \E port \in Ports, ips \in SUBSET Ips : WithAddrs(port, ips)
  \/ \E k \in Keys, v \in Values \cup {NoValue} : WithTxtAttribute(k, v)
  \/ Spawn
  \/ \E op \in Updates : SetTxtAttribute(op) \/ OtherUpdate(op)
  \/ OnUpdate

ASpec == AInit /\ [][ANext]_avars
-----------------------------------------------------------------------------
(* The variables stay in their ranges, and no attribute that is longer     *)
(* than 254 bytes gets into the entry, from the builder or later.          *)
AnnouncementTypeOK ==
  /\ stage \in {"building", "refused", "running", "panicked"}
  /\ peer_id \in PeerNames
  /\ entry \in Config \cup {None}
  /\ updates \in Seq(Updates) /\ Len(updates) <= UpdateCap
  /\ asked \in Config
  /\ entry # None =>
       \A k \in DOMAIN entry.txt : ValidAttribute(k, entry.txt[k])

(* No key contains an equals sign, which the receivers would split at.     *)
PlainKeys == \A k \in DOMAIN asked.txt : EqualsAt(k) = {}

(* Once the sender has taken the updates, every node that receives its     *)
(* announcement learns exactly the addresses, each with the port it was    *)
(* given for, and the attributes the application asked for, whatever it    *)
(* added and removed in which order; a peer without addresses, or whose    *)
(* peer_id contains a dot, is not seen at all.                             *)
SeenAsAsked ==
  stage = "running" /\ updates = <<>> /\ PlainKeys =>
    IF asked.addrs # {} /\ Len(peer_id) = 1
    THEN Seen = {[id \in {Head(peer_id)} |-> asked]}
    ELSE \A peers \in Seen : DOMAIN peers = {}
-----------------------------------------------------------------------------
(* sender.rs: "PeerId was checked in spawn()": no peer_id that spawn       *)
(* accepts makes the sender panic.                                         *)
CheckedInSpawn == stage # "panicked"
=============================================================================
