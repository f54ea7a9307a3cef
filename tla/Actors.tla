------------------------------- MODULE Actors -------------------------------
(***************************************************************************)
(* What the two stateful actors of one discovery service share: their      *)
(* bounded mailboxes, the messages in them and the set of actors that are  *)
(* still alive.  The actor runtime (crate acto) is external; it is         *)
(* modelled from how src/src uses it: `send` answers FALSE when the        *)
(* message was not accepted (updater.rs acts on that answer, every other   *)
(* caller ignores it), `recv` hands messages over in the order accepted,   *)
(* and an aborted actor loses its mailbox.                                 *)
(***************************************************************************)
EXTENDS Naturals, Sequences, FiniteSets

CONSTANTS
  PeerIds,     \* identifiers that peers announce
  Infos,       \* announced contents: a non-empty address list with TXT data
  MaxAge,      \* ages are counted up to this number of clock ticks
  Cutoff,      \* ceil(tau * phi), which both actors compute for themselves
  MailboxCap,  \* per actor, the number of messages its mailbox holds
  EnvCap       \* bound: messages from outside arrive in a mailbox only
               \* while fewer than this are waiting in it

ActorNames == {"sender", "updater"}

ASSUME ActorsAssumption ==
  /\ IsFiniteSet(PeerIds)
  /\ MaxAge \in Nat
  /\ Cutoff \in Nat \ {0}
  /\ EnvCap \in Nat
  /\ MailboxCap \in [ActorNames -> Nat \ {0}]

VARIABLES
  running,          \* the actors that have not been aborted
  sender_mailbox,
  updater_mailbox

mailboxes == <<sender_mailbox, updater_mailbox>>

MinOf(a, b) == IF a <= b THEN a ELSE b
-----------------------------------------------------------------------------
(* struct Peer: `info` stands for addrs and txt, `age` for last_seen, as   *)
(* the time that passed since then, which is all the program reads of it.  *)
Peer == [info : Infos, age : 0..MaxAge]

(* BTreeMap<String, Peer>, the contents of one mDNS response.              *)
PeerMap == UNION {[S -> Peer] : S \in SUBSET PeerIds}

Phases == {"query", "response"}
QueryTypes == {"QueryV4", "QueryV6"}

(* The guardian::Input values that guardian forwards to the sender.        *)
UpdateOps == {"RemoveAll", "RemovePort", "RemoveAddr",
              "AddAddr", "SetTxt", "RemoveTxt"}

(* enum MdnsMsg.  The field `armed`, the phase in which a timer was        *)
(* started, exists for the properties only.                                *)
MdnsMsg ==
  [type : QueryTypes]
    \cup [type : {"Response"}, peers : PeerMap]
    \cup [type : {"Timeout"}, count : Nat, armed : Phases]
    \cup [type : {"SizeUpdate"}, size : Nat]
    \cup [type : {"Update"}, op : UpdateOps]

(* enum updater::Input.                                                    *)
UpdaterInput ==
  [type : {"Peers"}, peers : PeerMap]
    \cup [type : {"GC"}]
    \cup [type : {"SizeSubscription"}]

QueryMsg(t) == [type |-> t]
ResponseMsg(peers) == [type |-> "Response", peers |-> peers]
TimeoutMsg(c, armed) == [type |-> "Timeout", count |-> c, armed |-> armed]
SizeUpdateMsg(n) == [type |-> "SizeUpdate", size |-> n]
UpdateMsg(op) == [type |-> "Update", op |-> op]

PeersMsg(peers) == [type |-> "Peers", peers |-> peers]
GCMsg == [type |-> "GC"]
SizeSubscriptionMsg == [type |-> "SizeSubscription"]

(* The messages in a mailbox that carry an announcement of peer id.        *)
Carries(m, id) == m.type \in {"Response", "Peers"} /\ id \in DOMAIN m.peers

Carriers(box, id) == {i \in 1..Len(box) : Carries(box[i], id)}

(* One tick of the clock, in data that is on its way.                      *)
AgedPeers(peers) ==
  [id \in DOMAIN peers |->
     [peers[id] EXCEPT !.age = MinOf(peers[id].age + 1, MaxAge)]]

AgedMailbox(box) ==
  [i \in DOMAIN box |->
     IF box[i].type \in {"Response", "Peers"}
     THEN [box[i] EXCEPT !.peers = AgedPeers(box[i].peers)]
     ELSE box[i]]
-----------------------------------------------------------------------------
(* ActoRef::send: TRUE when actor a takes the message into its mailbox.    *)
Accepts(a, box) == a \in running /\ Len(box) < MailboxCap[a]

(* Mutant of SendTo: the latest message is handed over first.              *)
SendToFront(a, box, m) == IF Accepts(a, box) THEN <<m>> \o box ELSE box

SendTo(a, box, m) == IF Accepts(a, box) THEN Append(box, m) ELSE box

(* ActoCell::recv: the next message of actor a, of type t.                 *)
Receives(a, box, t) == a \in running /\ box # <<>> /\ Head(box).type = t

ActorsTypeOK ==
  /\ running \subseteq ActorNames
  /\ sender_mailbox \in Seq(MdnsMsg)
  /\ updater_mailbox \in Seq(UpdaterInput)

ActorsInit ==
  /\ running = ActorNames
  /\ sender_mailbox = <<>>
  /\ updater_mailbox = <<SizeSubscriptionMsg>>

(* The guardian ended: its task was aborted by DropGuard::drop, or it left *)
(* its loop because a supervised actor stopped.  The runtime then aborts   *)
(* the actors it supervises, one after the other in any order.             *)
AbortSender ==
  /\ "sender" \in running
  /\ running' = running \ {"sender"}
  /\ sender_mailbox' = <<>>
  /\ UNCHANGED updater_mailbox

AbortUpdater ==
  /\ "updater" \in running
  /\ running' = running \ {"updater"}
  /\ updater_mailbox' = <<>>
  /\ UNCHANGED sender_mailbox
=============================================================================
