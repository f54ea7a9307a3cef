------------------------------ MODULE Guardian ------------------------------
(***************************************************************************)
(* The life of one service (src/src/guardian.rs with lib.rs, receiver.rs): *)
(* the guardian starts updater, sender and a receiver per socket, changes  *)
(* the interfaces as the application asks, and ends with everything it     *)
(* supervises when one of them ends or the DropGuard is dropped.  Of the   *)
(* sender only its sends matter here, of a receiver that queries it hears  *)
(* decide the mode of a later send.                                        *)
(***************************************************************************)
EXTENDS Sockets, Sequences

CONSTANTS
  RequestCap,   \* number of requests the guardian's mailbox holds
  MaxReceivers, \* bound on the receivers started for interfaces
  MaxFailures   \* bound on the actors that end by themselves

ASSUME GuardianAssumption ==
  RequestCap \in Nat /\ MaxReceivers \in Nat /\ MaxFailures \in Nat

VARIABLES
  stage,     \* configured, refused by spawn, running or ended
  requests,  \* the guardian's mailbox
  handling,  \* the interface the guardian is starting a receiver for
  started,   \* the actors the guardian started
  live,      \* those of them that have not ended
  interface_receivers,  \* address to receiver
  phase,     \* the sender's: waiting to ask, or the mode of its response
  dropped    \* whether the DropGuard was dropped

guardianVars == <<stage, requests, handling, started, live,
                  interface_receivers, phase, dropped>>

gvars == <<socketVars, guardianVars>>
-----------------------------------------------------------------------------
NoMap == [a \in {} |-> NoAddr]

NoSocket == [kind |-> "none", addr |-> NoAddr, nr |-> 0]

Actor(role, s, n) == [role |-> role, socket |-> s, nr |-> n]
SenderActor == Actor("sender", NoSocket, 0)
UpdaterActor == Actor("updater", NoSocket, 0)

Receivers == {r \in started : r.role = "receiver" /\ r.socket.addr # NoAddr}

ReceiversOf(a) == {r \in started : r.role = "receiver" /\ r.socket.addr = a}

NewReceiver(a) ==
  Actor("receiver", interfaces[a], Cardinality(ReceiversOf(a)) + 1)

Requests == [type : {"AddInterface", "RemoveInterface"}, addr : Interfaces]

(* Discoverer::spawn, Sockets::new and the beginning of the guardian.      *)
Spawn(class, list, bound4, bound6) ==
  /\ stage = "configured"
  /\ NewDefaults(class, bound4, bound6)
  /\ NewInterfaces(list)
  /\ stage' = "running"
  /\ LET initial == [a \in DOMAIN interfaces' |-> Actor("receiver", interfaces'[a], 1)]
     IN  /\ started' = {UpdaterActor, SenderActor}
               \cup {Actor("receiver", s, 1) : s \in {x \in {V4} : v4'} \cup {x \in {V6} : v6'}}
               \cup {initial[a] : a \in DOMAIN initial}
         /\ interface_receivers' = initial
  /\ live' = started'
  /\ UNCHANGED <<sending, requests, handling, phase, dropped>>

SpawnFails(class) ==
  /\ stage = "configured"
  /\ NewFails(class)
  /\ stage' = "refused"
  /\ UNCHANGED <<socketVars, requests, handling, started, live,
                 interface_receivers, phase, dropped>>

(* DropGuard::add_interface_v4 and remove_interface_v4.                    *)
Request(r) ==
  /\ stage = "running" /\ ~dropped
  /\ Len(requests) < RequestCap
  /\ r.type = "AddInterface" => Cardinality(Receivers) < MaxReceivers
  /\ requests' = Append(requests, r)
  /\ UNCHANGED <<socketVars, stage, handling, started, live,
                 interface_receivers, phase, dropped>>
-----------------------------------------------------------------------------
(* The guardian's loop.                                                    *)
Waits == stage = "running" /\ handling = NoAddr

Takes(type) ==
  /\ Waits
  /\ requests # <<>> /\ Head(requests).type = type
  /\ requests' = Tail(requests)

OnAddInterface(success) ==
  /\ Takes("AddInterface")
  /\ AddInterface(Head(requests).addr, success)
  /\ handling' = IF Head(requests).addr \in DOMAIN interfaces \/ success
                 THEN Head(requests).addr ELSE NoAddr
  /\ UNCHANGED <<v4, v6, sending, stage, started, live,
                 interface_receivers, phase, dropped>>

(* Mutant of StartReceiver: an address that had a receiver gets no other.  *)
StartReceiverOnce ==
  /\ stage = "running" /\ handling # NoAddr
  /\ IF ReceiversOf(handling) # {}
     THEN UNCHANGED <<started, live, interface_receivers>>
     ELSE /\ started' = started \cup {NewReceiver(handling)}
          /\ live' = live \cup {NewReceiver(handling)}
          /\ interface_receivers' =
               [a \in DOMAIN interface_receivers \cup {handling} |->
                  IF a = handling THEN NewReceiver(a) ELSE interface_receivers[a]]
  /\ handling' = NoAddr
  /\ UNCHANGED <<socketVars, stage, requests, phase, dropped>>

(* The same handler, after the table changed; an address that was in the   *)
(* table already gets another receiver of the same socket.                 *)
StartReceiver ==
  /\ stage = "running" /\ handling # NoAddr
  /\ started' = started \cup {NewReceiver(handling)}
  /\ live' = live \cup {NewReceiver(handling)}
  /\ interface_receivers' =
       [a \in DOMAIN interface_receivers \cup {handling} |->
          IF a = handling THEN NewReceiver(a) ELSE interface_receivers[a]]
  /\ handling' = NoAddr
  /\ UNCHANGED <<socketVars, stage, requests, phase, dropped>>

(* The reference to the receiver is forgotten, the receiver runs on.       *)
OnRemoveInterface ==
  /\ Takes("RemoveInterface")
  /\ RemoveInterface(Head(requests).addr)
  /\ interface_receivers' =
       [a \in DOMAIN interface_receivers \ {Head(requests).addr} |->
          interface_receivers[a]]
  /\ UNCHANGED <<v4, v6, opened, sending, stage, handling, started, live,
                 phase, dropped>>

(* Mutant of OnSupervision: a receiver may end on its own.                 *)
OnSupervisionOfActors ==
  /\ Waits
  /\ {UpdaterActor, SenderActor} \ live # {}
  /\ stage' = "ended" /\ requests' = <<>>
  /\ UNCHANGED <<socketVars, handling, started, live,
                 interface_receivers, phase, dropped>>

(* A supervised actor ended, for whatever reason: so does the guardian.    *)
OnSupervision ==
  /\ Waits
  /\ started # live
  /\ stage' = "ended" /\ requests' = <<>>
  /\ UNCHANGED <<socketVars, handling, started, live,
                 interface_receivers, phase, dropped>>

(* DropGuard::drop aborts the guardian where it waits for a message.       *)
Drop ==
  /\ Waits
  /\ stage' = "ended" /\ requests' = <<>>
  /\ dropped' = TRUE
  /\ UNCHANGED <<socketVars, handling, started, live,
                 interface_receivers, phase>>
-----------------------------------------------------------------------------
(* The other actors.                                                       *)
Ends(a) ==
  /\ live' = live \ {a}
  /\ UNCHANGED <<v4, v6, interfaces, opened, stage, requests,
                 handling, started, interface_receivers, phase, dropped>>

(* The runtime aborts what an ended guardian supervised, and their         *)
(* mailboxes go with them.                                                 *)
AbortActors ==
  /\ stage = "ended" /\ live # {}
  /\ live' = {} /\ sending' = Idle /\ phase' = "query"
  /\ UNCHANGED <<v4, v6, interfaces, opened, stage, requests, handling,
                 started, interface_receivers, dropped>>

(* recv_from fails.                                                        *)
ReceiverFails(r) ==
  /\ OsFails /\ r \in live /\ r.role = "receiver"
  /\ Cardinality(started \ live) < MaxFailures
  /\ Ends(r)
  /\ UNCHANGED sending

(* A query comes in on any of the sockets; it is handled between sends.    *)
SenderHearsQuery(r) ==
  /\ r \in live /\ r.role = "receiver" /\ SenderActor \in live
  /\ sending = Idle /\ phase = "query"
  /\ phase' = IF r.socket.kind = "v4" THEN "V4" ELSE "V6"
  /\ UNCHANGED <<socketVars, stage, requests, handling, started, live,
                 interface_receivers, dropped>>

(* The sender asks, answers or gives up its response.                      *)
SenderSends ==
  /\ SenderActor \in live
  /\ \/ phase = "query" /\ BeginSend("Any") /\ phase' = "Any"
     \/ phase \in Modes /\ BeginSend(phase) /\ phase' = "query"
     \/ /\ phase \in Modes /\ sending = Idle /\ phase' = "query"
        /\ UNCHANGED socketVars
     \/ SendStep /\ UNCHANGED phase
  /\ UNCHANGED <<stage, requests, handling, started, live,
                 interface_receivers, dropped>>

SenderPanics ==
  /\ SenderActor \in live /\ sending.pc = "panic"
  /\ sending' = Idle
  /\ Ends(SenderActor)
-----------------------------------------------------------------------------
GInit ==
  /\ v4 = FALSE /\ v6 = FALSE
  /\ interfaces = NoMap /\ opened = [a \in Interfaces |-> 0]
  /\ sending = Idle
  /\ stage = "configured" /\ requests = <<>> /\ handling = NoAddr
  /\ started = {} /\ live = {} /\ interface_receivers = NoMap
  /\ phase = "query" /\ dropped = FALSE

GNext ==
  \/ \E class \in Classes, list \in SUBSET Interfaces,
        bound4 \in Succeeds, bound6 \in Succeeds :
       Spawn(class, list, bound4, bound6)
  \/ \E class \in Classes : SpawnFails(class)
  \/ \E r \in Requests : Request(r)
  \/ \E success \in Succeeds : OnAddInterface(success)
  \/ StartReceiver \/ OnRemoveInterface \/ OnSupervision \/ Drop
  \/ AbortActors
  \/ \E r \in live : ReceiverFails(r) \/ SenderHearsQuery(r)
  \/ SenderSends \/ SenderPanics

GSpec == GInit /\ [][GNext]_gvars

(* Tasks are polled; the end of an actor is told to the guardian between   *)
(* the requests it handles.                                                *)
GuardianFairness ==
  /\ WF_gvars(StartReceiver)
  /\ SF_gvars(OnSupervision)
  /\ WF_gvars(AbortActors)

GFairSpec == GSpec /\ GuardianFairness
-----------------------------------------------------------------------------
(* The variables stay in their ranges, and the guardian tracks a receiver  *)
(* for every interface in the table, for no other and under its address.   *)
GuardianTypeOK ==
  /\ SocketsTypeOK
  /\ stage \in {"configured", "refused", "running", "ended"}
  /\ requests \in Seq(Requests)
  /\ handling \in DOMAIN interfaces \cup {NoAddr}
  /\ live \subseteq started
  /\ Waits => DOMAIN interface_receivers = DOMAIN interfaces
  /\ \A a \in DOMAIN interface_receivers :
       interface_receivers[a] \in ReceiversOf(a)
  /\ phase \in Modes \cup {"query"}
  /\ dropped \in BOOLEAN

(* Adding and removing interfaces in any order, while others send: as long *)
(* as no receiver failed, somebody listens on every socket that messages   *)
(* are sent on, so that a node also hears where it announces itself.       *)
Listening ==
  Waits /\ started = live =>
    \A s \in Table \cup {x \in {V4} : v4} \cup {x \in {V6} : v6} :
      \E r \in live : r.role = "receiver" /\ r.socket = s

(* The unwraps of send_msg, between what the receivers hear and what the   *)
(* guardian does to the table: a message in mode Any or V6 always finds a  *)
(* socket, and so does one in mode V4, except in a service without a       *)
(* default IPv4 socket that had an interface, where the query came in.     *)
UnwrapsFit ==
  sending.pc = "panic" =>
    /\ sending.mode = "V4" /\ ~v4
    /\ \E a \in Interfaces : opened[a] > 0

(* When one actor ends, all of them end, and with them the references that *)
(* keep the sockets open.                                                  *)
EndsTogether == started # live ~> live = {}
-----------------------------------------------------------------------------
(* DropGuard: "A guard which will keep the discovery running until it is   *)
(* dropped", unless the operating system fails.                            *)
KeepsRunning == stage = "ended" => dropped
=============================================================================
