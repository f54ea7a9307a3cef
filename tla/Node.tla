-------------------------------- MODULE Node --------------------------------
(***************************************************************************)
(* One discovery service: the sender and the updater side by side, with    *)
(* the mailboxes they share, the clock, and the network and application    *)
(* around them.  Each actor is a task of its own (guardian.rs spawns both  *)
(* and supervises them), so their steps interleave freely.                 *)
(***************************************************************************)
EXTENDS Sender, Updater

CONSTANT
  MaxWait  \* bound on the clock ticks an announcement waits in a mailbox

ASSUME NodeAssumption == MaxWait \in Nat

(* For the properties only.                                                *)
VARIABLES
  notice,  \* what became of the last size the updater reported: none was
           \* sent yet, it was taken by the sender's mailbox, or refused
  latest   \* what each peer announced last of what the sender's mailbox
           \* took; Unknown when that was refused on its way or is pruned

history == <<notice, latest>>

vars == <<running, mailboxes, senderVars, updaterVars, history>>
-----------------------------------------------------------------------------
(* The announcements of the peers in S are given up.                       *)
GiveUp(S) ==
  latest' = [id \in PeerIds |-> IF id \in S THEN Unknown ELSE latest[id]]

(* Those in the message the sender takes next, which the updater refuses,  *)
(* unless they announced themselves again meanwhile.                       *)
Refused ==
  {id \in PeerIds :
     /\ Receives("sender", sender_mailbox, "Response")
     /\ ~Accepts("updater", updater_mailbox)
     /\ id \in DOMAIN Head(sender_mailbox).peers
     /\ Carriers(Tail(sender_mailbox), id) = {}}

(* Those a GC prunes, unless a new announcement is on its way.             *)
Pruned ==
  {id \in DOMAIN peers \ DOMAIN peers' :
     Carriers(sender_mailbox, id) \cup Carriers(updater_mailbox, id) = {}}

(* Those in the packet that the sender's mailbox takes.                    *)
Heard ==
  {id \in PeerIds : /\ sender_mailbox' # sender_mailbox
                    /\ Len(sender_mailbox') \in Carriers(sender_mailbox', id)}
-----------------------------------------------------------------------------
(* The updater reports a size: a peer is new, or a GC found peers.         *)
Reports ==
  /\ subscribed
  /\ \/ DOMAIN batch # {} /\ DOMAIN peers' # DOMAIN peers
     \/ /\ DOMAIN batch = {} /\ DOMAIN peers # {}
        /\ Head(updater_mailbox).type = "GC"

SenderActs ==
  /\ SenderStep
  /\ GiveUp(Refused)
  /\ UNCHANGED <<updaterVars, notice>>

TimerActs(c) ==
  /\ TimerWake(c) \/ TimerSend(c)
  /\ UNCHANGED <<updaterVars, history>>

UpdaterActs ==
  /\ UpdaterStep
  /\ notice' = IF ~Reports THEN notice
               ELSE IF Accepts("sender", sender_mailbox) THEN "taken"
               ELSE "refused"
  /\ GiveUp(Pruned)
  /\ UNCHANGED senderVars

GCActs ==
  /\ GCWake \/ GCSend
  /\ UNCHANGED <<senderVars, history>>

EnvironmentActs ==
  /\ ReceivePacket \/ ReceiveOwnPacket \/ ForgetOwnPacket \/ GuardianForwards
  /\ latest' = [id \in PeerIds |->
                  IF id \in Heard
                  THEN sender_mailbox'[Len(sender_mailbox')].peers[id].info
                  ELSE latest[id]]
  /\ UNCHANGED <<updaterVars, notice>>

Waiting(box) ==
  {box[i].peers : i \in {j \in DOMAIN box : box[j].type \in {"Response", "Peers"}}}

(* The mailboxes are emptied faster than the clock of the model ticks.     *)
Prompt ==
  \A w \in Waiting(sender_mailbox) \cup Waiting(updater_mailbox) \cup {batch} :
    \A id \in DOMAIN w : w[id].age < MaxWait

ClockTick ==
  /\ Prompt
  /\ AgeTable
  /\ sender_mailbox' = AgedMailbox(sender_mailbox)
  /\ UNCHANGED <<senderVars, history>>

(* DropGuard::drop, or the end of a supervised actor: guardian stops, and  *)
(* with it both actors, where each of them awaits.                         *)
DropService ==
  /\ Droppable
  /\ \/ StopUpdater
     \/ AbortSender /\ UNCHANGED updaterVars
  /\ GiveUp(PeerIds)
  /\ UNCHANGED <<senderVars, notice>>
-----------------------------------------------------------------------------
Init ==
  /\ ActorsInit /\ SenderInit /\ UpdaterInit
  /\ notice = "none"
  /\ latest = [id \in PeerIds |-> Unknown]

Next ==
  \/ SenderActs \/ \E c \in Counts : TimerActs(c)
  \/ UpdaterActs \/ GCActs
  \/ EnvironmentActs \/ ClockTick \/ DropService

Spec == Init /\ [][Next]_vars

(* Every ready task is polled; see SenderFairness and UpdaterFairness.     *)
Fairness ==
  /\ WF_vars(SenderActs) /\ WF_vars(UpdaterActs)
  /\ WF_vars(\E c \in Counts : TimerActs(c))

FairSpec == Spec /\ Fairness
-----------------------------------------------------------------------------
TypeOK ==
  /\ SenderTypeOK
  /\ UpdaterTypeOK
  /\ notice \in {"none", "taken", "refused"}
  /\ latest \in [PeerIds -> Infos \cup {Unknown}]

SizeNotices ==
  {i \in 1..Len(sender_mailbox) : sender_mailbox[i].type = "SizeUpdate"}

(* The size the sender uses once it has taken its messages.                *)
EventualSize ==
  IF SizeNotices = {} THEN swarm_size
  ELSE sender_mailbox[CHOOSE i \in SizeNotices :
                        \A j \in SizeNotices : j <= i].size

(* The sender's estimate of the swarm size is behind the table by messages *)
(* in its mailbox only, unless the last report was refused; before the     *)
(* first report it is one, and the table is empty.                         *)
SizeFresh ==
  "sender" \in running =>
    /\ notice = "taken" => EventualSize = Cardinality(DOMAIN peers)
    /\ notice = "none" => EventualSize = 1 /\ DOMAIN peers = {}

(* What a mailbox says last of peer id, or what was said before.           *)
LastCarried(box, id, before) ==
  IF Carriers(box, id) = {} THEN before
  ELSE box[CHOOSE i \in Carriers(box, id) :
             \A j \in Carriers(box, id) : j <= i].peers[id].info

(* What the application will have been told of peer id once both actors    *)
(* have taken their messages.                                              *)
EventualInfo(id) ==
  LastCarried(sender_mailbox, id,
    LastCarried(updater_mailbox, id,
      IF id \in DOMAIN batch THEN batch[id].info ELSE view[id]))

(* Announcements neither overtake each other nor get lost unseen between   *)
(* the network and the application: the application ends with what a peer  *)
(* announced last, whatever phase the sender took it in and whatever the   *)
(* GC did meanwhile, unless the updater's mailbox refused just that or the *)
(* peer was pruned.                                                        *)
InfoFresh ==
  running = ActorNames =>
    \A id \in PeerIds : latest[id] # Unknown => EventualInfo(id) = latest[id]

(* What another peer announces reaches the application, whatever phase the *)
(* sender is in: the application is told in the end, unless the updater's  *)
(* mailbox refuses just that announcement, or the peer announces something *)
(* else or the service is dropped before.                                  *)
Discovered ==
  \A id \in PeerIds \ {Self}, i \in Infos :
    latest[id] = i ~> view[id] = i \/ latest[id] # i
=============================================================================
