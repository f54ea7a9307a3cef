------------------------------- MODULE Sockets ------------------------------
(***************************************************************************)
(* The sockets of one service (src/src/socket.rs): two default sockets,    *)
(* fixed at the start, and a table of interface sockets that the guardian  *)
(* changes while the sender reads it.  The table is behind a lock; the     *)
(* lock is released between the reads of one `send_msg`.                   *)
(***************************************************************************)
EXTENDS Naturals, FiniteSets

CONSTANTS
  Interfaces,  \* the IPv4 addresses the application may name
  NoAddr,      \* the address of a default socket
  Classes,     \* the values of IpClass an application chooses from
  OsFails      \* whether the operating system may refuse a socket or a send

IpClass == {"V4Only", "V6Only", "V4AndV6", "Auto"}

ASSUME SocketsAssumption ==
  /\ IsFiniteSet(Interfaces)
  /\ NoAddr \notin Interfaces
  /\ Classes \subseteq IpClass
  /\ OsFails \in BOOLEAN

VARIABLES
  v4, v6,      \* whether the default sockets exist
  interfaces,  \* interface_sockets_v4: address to socket
  opened,      \* per address, the number of sockets created for it
  sending      \* how far the sender is in send_msg

socketVars == <<v4, v6, interfaces, opened, sending>>
-----------------------------------------------------------------------------
Modes == {"V4", "V6", "Any"}

Socket == [kind : {"v4", "v6"}, addr : Interfaces \cup {NoAddr}, nr : Nat]

V4 == [kind |-> "v4", addr |-> NoAddr, nr |-> 0]
V6 == [kind |-> "v6", addr |-> NoAddr, nr |-> 0]
InterfaceSocket(a, n) == [kind |-> "v4", addr |-> a, nr |-> n]

HasV4(class) == class \in {"V4Only", "V4AndV6"}
HasV6(class) == class \in {"V6Only", "V4AndV6"}

Table == {interfaces[a] : a \in DOMAIN interfaces}

(* The sockets that were taken out of the table (for the properties only). *)
retired ==
  {s \in UNION {{InterfaceSocket(a, n) : n \in 1..opened[a]} : a \in Interfaces} :
     s \notin Table}

Succeeds == IF OsFails THEN BOOLEAN ELSE {TRUE}

Idle == [pc |-> "idle", mode |-> "Any", todo |-> {}, tried |-> {},
         due |-> {}, old |-> {}]
-----------------------------------------------------------------------------
(* Sockets::new.  An interface without a socket is only logged.            *)
NewInterfaces(list) ==
  \E created \in SUBSET list :
    /\ OsFails \/ created = list
    /\ interfaces' = [a \in created |-> InterfaceSocket(a, 1)]
    /\ opened' = [a \in Interfaces |-> IF a \in created THEN 1 ELSE 0]

NewDefaults(class, bound4, bound6) ==
  IF class = "Auto"
  THEN /\ bound4 \/ bound6
       /\ v4' = bound4 /\ v6' = bound6
  ELSE /\ HasV4(class) => bound4
       /\ HasV6(class) => bound6
       /\ v4' = HasV4(class) /\ v6' = HasV6(class)

NewFails(class) ==
  /\ OsFails
  /\ class = "Auto" \/ HasV4(class) \/ HasV6(class)

(* add_interface_v4; only the guardian calls it, so that nobody else adds  *)
(* the address between its two looks at the table.                         *)
AddInterface(a, success) ==
  IF a \in DOMAIN interfaces \/ ~success
  THEN UNCHANGED <<interfaces, opened>>
  ELSE /\ interfaces' = [x \in DOMAIN interfaces \cup {a} |->
                           IF x = a THEN InterfaceSocket(a, opened[a] + 1)
                                    ELSE interfaces[x]]
       /\ opened' = [opened EXCEPT ![a] = @ + 1]

(* Mutant of RemoveInterface: the address stays in the table.              *)
RemoveInterfaceLater(a) == interfaces' = interfaces

(* remove_interface_v4.                                                    *)
RemoveInterface(a) ==
  interfaces' = [x \in DOMAIN interfaces \ {a} |-> interfaces[x]]
-----------------------------------------------------------------------------
(* send_msg, step by step.                                                 *)
Unchanged == UNCHANGED <<v4, v6, interfaces, opened>>

(* The first look at the table decides between the two ways of sending.    *)
MultiInterface(mode) == DOMAIN interfaces # {} /\ mode \in {"V4", "Any"}

(* Mutant of DefaultSocket: every service is taken to have IPv4.           *)
DefaultSocketV4First(mode) ==
  CASE mode = "V6" -> IF v6 THEN {V6} ELSE {}
    [] OTHER -> IF v4 THEN {V4} ELSE {}

(* The one socket of the other way; none of it where `unwrap` panics.      *)
DefaultSocket(mode) ==
  CASE mode = "V4" -> IF v4 THEN {V4} ELSE {}
    [] mode = "V6" -> IF v6 THEN {V6} ELSE {}
    [] mode = "Any" -> IF v4 THEN {V4} ELSE IF v6 THEN {V6} ELSE {}

BeginSend(mode) ==
  /\ sending.pc = "idle"
  /\ sending' = [Idle EXCEPT
                   !.pc = IF MultiInterface(mode) THEN "copy"
                          ELSE IF DefaultSocket(mode) = {} THEN "panic"
                          ELSE "last",
                   !.mode = mode,
                   !.todo = IF MultiInterface(mode) THEN {} ELSE DefaultSocket(mode),
                   !.due = IF MultiInterface(mode) THEN Table ELSE {},
                   !.old = retired]
  /\ Unchanged

(* The second look copies the table, which may have changed.               *)
CopyTable ==
  /\ sending.pc = "copy"
  /\ sending' = [sending EXCEPT !.pc = "each", !.todo = Table]
  /\ Unchanged

(* Mutant of SendNext: an error on one interface ends the loop.            *)
SendNextUntilError(s, success) ==
  /\ s \in sending.todo
  /\ sending' = [sending EXCEPT !.todo = IF success THEN @ \ {s} ELSE {},
                                !.tried = @ \cup {s}]
  /\ Unchanged

(* One send_to, on whichever interface the iteration takes next; an error  *)
(* is only logged.                                                         *)
SendNext(s, success) ==
  /\ s \in sending.todo
  /\ sending' = [sending EXCEPT !.todo = @ \ {s}, !.tried = @ \cup {s}]
  /\ Unchanged

(* After the interfaces, Mode::Any also goes to IPv6.                      *)
ThenV6 == sending.pc = "each" /\ sending.mode = "Any" /\ v6

Complete ==
  /\ sending.pc \in {"each", "last"} /\ sending.todo = {}
  /\ ~ThenV6

SendV6 ==
  /\ sending.todo = {} /\ ThenV6
  /\ sending' = [sending EXCEPT !.pc = "last", !.todo = {V6}]
  /\ Unchanged

SendStep ==
  \/ CopyTable \/ SendV6
  \/ \E s \in sending.todo, success \in Succeeds : SendNext(s, success)
  \/ Complete /\ sending' = Idle /\ Unchanged
-----------------------------------------------------------------------------
SocketsTypeOK ==
  /\ v4 \in BOOLEAN /\ v6 \in BOOLEAN
  /\ \E S \in SUBSET Interfaces : interfaces \in [S -> Socket]
  /\ opened \in [Interfaces -> Nat]
  /\ sending \in [pc : {"idle", "copy", "each", "last", "panic"},
                  mode : Modes, todo : SUBSET Socket, tried : SUBSET Socket,
                  due : SUBSET Socket, old : SUBSET Socket]

(* Whatever the guardian does to the table during a send: a message that   *)
(* is done with has been tried on every interface that was in the table    *)
(* from beginning to end, on no interface that was removed before, on IPv6 *)
(* if and only if its mode asks for it, and on no socket at all only when  *)
(* the interfaces were removed meanwhile.                                  *)
SentWhereDue ==
  Complete =>
    LET tried == sending.tried
        multi == sending.due # {}
        meanwhile == retired \ sending.old
    IN  /\ sending.due \ meanwhile \subseteq tried
        /\ tried \cap sending.old = {}
        /\ sending.mode = "V4" => V6 \notin tried
        /\ sending.mode = "V6" => tried = {V6}
        /\ sending.mode = "Any" =>
             (V6 \in tried <=> v6 /\ (multi \/ ~v4))
        /\ tried = {} => multi /\ sending.due \subseteq meanwhile
=============================================================================
