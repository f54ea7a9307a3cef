------------------------------- MODULE Updater ------------------------------
(***************************************************************************)
(* The updater actor (src/src/updater.rs): it keeps the table of peers,    *)
(* calls the application back, prunes silent peers whenever its GC task    *)
(* says so, and reports the size of the table to the sender.  The GC task  *)
(* runs beside the actor and is not stopped with it.                       *)
(***************************************************************************)
EXTENDS Actors

CONSTANTS
  Tau,        \* the cadence, in clock ticks
  Unknown,    \* what the application knows of a peer it was not told of
  StampAges,  \* ages of announcements when they reach the updater's mailbox
  Skew,       \* bound on these: receivers, each a task of its own, stamp an
              \* announcement before they pass it on
  MaxBatch,   \* bound on the number of peers in one Peers message
  Droppable   \* whether the application may drop its DropGuard

ASSUME UpdaterAssumption ==
  /\ Tau \in Nat \ {0}
  /\ Unknown \notin Infos
  /\ Skew \in Nat
  /\ StampAges \subseteq {age \in 0..MaxAge : age <= Skew}
  /\ MaxBatch \in Nat
  /\ Droppable \in BOOLEAN

(* Ages are counted far enough to tell every expired peer from the others. *)
ASSUME MaxAgeAssumption ==
  MaxAge * MinOf(Cutoff, Cardinality(PeerIds)) >= 3 * Cardinality(PeerIds) * Tau

VARIABLES
  peers,
  subscribed,   \* whether the sender is in `subscribers`
  batch,        \* what the loop over a Peers message has not reached yet
  gc_sleeping,  \* number of GC tasks that sleep
  gc_due,       \* number of GC tasks about to send
  view          \* the application's picture, made by its callback

updaterVars == <<peers, subscribed, batch, gc_sleeping, gc_due, view>>

uvars == <<running, mailboxes, updaterVars>>
-----------------------------------------------------------------------------
Idle == DOMAIN batch = {}

Take(t) ==
  /\ Idle
  /\ Receives("updater", updater_mailbox, t)
  /\ updater_mailbox' = Tail(updater_mailbox)

(* Mutant of NotifySize: this node does not count itself.                  *)
NotifySizeOfOthers(n) ==
  sender_mailbox' =
    IF subscribed THEN SendTo("sender", sender_mailbox, SizeUpdateMsg(n - 1))
                  ELSE sender_mailbox

NotifySize(n) ==
  sender_mailbox' =
    IF subscribed THEN SendTo("sender", sender_mailbox, SizeUpdateMsg(n))
                  ELSE sender_mailbox

(* The callback an application registers: a peer without addresses is      *)
(* gone, any other is there (tests/discovery.rs, lines 67 to 85).          *)
CallBack(changes) ==
  view' = [id \in PeerIds |->
             IF id \in DOMAIN changes THEN changes[id] ELSE view[id]]

(* Mutant of Keep: every peer is expected to answer in every cadence,      *)
(* however many peers share its Cutoff answers.                            *)
KeepByCadence(age, n) == age < 3 * Tau

(* age < per_peer_grace_period in a table of n peers, where the period is  *)
(* 3 / (min(Cutoff, n) / Tau / n).                                         *)
Keep(age, n) == age * MinOf(Cutoff, n) < 3 * n * Tau
-----------------------------------------------------------------------------
(* Input::Peers, the loop of which runs while other threads take what it   *)
(* already did.                                                            *)
OnPeers ==
  /\ Take("Peers")
  /\ batch' = Head(updater_mailbox).peers
  /\ UNCHANGED <<running, sender_mailbox, peers, subscribed, gc_sleeping,
                 gc_due, view>>

(* Mutant of OnPeer: the size is taken before the peer is inserted.        *)
OnPeerEarlyNotice ==
  /\ "updater" \in running
  /\ \E id \in DOMAIN batch :
       /\ CallBack([x \in {id} |-> batch[id].info])
       /\ peers' = [x \in DOMAIN peers \cup {id} |->
                      IF x = id THEN batch[id] ELSE peers[x]]
       /\ batch' = [x \in DOMAIN batch \ {id} |-> batch[x]]
       /\ IF id \in DOMAIN peers
          THEN UNCHANGED sender_mailbox
          ELSE NotifySize(Cardinality(DOMAIN peers))
  /\ UNCHANGED <<running, updater_mailbox, subscribed, gc_sleeping, gc_due>>

(* Mutant of OnPeer: only a peer that is new to the table is called back.  *)
OnPeerToldOnce ==
  /\ "updater" \in running
  /\ \E id \in DOMAIN batch :
       /\ peers' = [x \in DOMAIN peers \cup {id} |->
                      IF x = id THEN batch[id] ELSE peers[x]]
       /\ batch' = [x \in DOMAIN batch \ {id} |-> batch[x]]
       /\ IF id \in DOMAIN peers
          THEN UNCHANGED <<sender_mailbox, view>>
          ELSE /\ CallBack([x \in {id} |-> batch[id].info])
               /\ NotifySize(Cardinality(DOMAIN peers'))
  /\ UNCHANGED <<running, updater_mailbox, subscribed, gc_sleeping, gc_due>>

(* Mutant of OnPeer: the application is not called back.                   *)
OnPeerUnheard ==
  /\ "updater" \in running
  /\ \E id \in DOMAIN batch :
       /\ peers' = [x \in DOMAIN peers \cup {id} |->
                      IF x = id THEN batch[id] ELSE peers[x]]
       /\ batch' = [x \in DOMAIN batch \ {id} |-> batch[x]]
       /\ IF id \in DOMAIN peers
          THEN UNCHANGED sender_mailbox
          ELSE NotifySize(Cardinality(DOMAIN peers'))
  /\ UNCHANGED <<running, updater_mailbox, subscribed, gc_sleeping, gc_due,
                 view>>

OnPeer ==
  /\ "updater" \in running
  /\ \E id \in DOMAIN batch :
       /\ CallBack([x \in {id} |-> batch[id].info])
       /\ peers' = [x \in DOMAIN peers \cup {id} |->
                      IF x = id THEN batch[id] ELSE peers[x]]
       /\ batch' = [x \in DOMAIN batch \ {id} |-> batch[x]]
       /\ IF id \in DOMAIN peers
          THEN UNCHANGED sender_mailbox
          ELSE NotifySize(Cardinality(DOMAIN peers'))
  /\ UNCHANGED <<running, updater_mailbox, subscribed, gc_sleeping, gc_due>>

(* Mutant of OnGC: the early return comes before the next GC is started.   *)
OnGCLateRearm ==
  /\ Take("GC")
  /\ IF DOMAIN peers = {}
     THEN UNCHANGED <<sender_mailbox, peers, view, gc_sleeping>>
     ELSE LET n == Cardinality(DOMAIN peers)
              kept == {id \in DOMAIN peers : Keep(peers[id].age, n)}
          IN  /\ peers' = [id \in kept |-> peers[id]]
              /\ CallBack([id \in DOMAIN peers \ kept |-> Unknown])
              /\ NotifySize(Cardinality(kept))
              /\ gc_sleeping' = gc_sleeping + 1
  /\ UNCHANGED <<running, subscribed, batch, gc_due>>

(* Mutant of OnGC: the application is not called back for pruned peers.    *)
OnGCUnheard ==
  /\ Take("GC")
  /\ gc_sleeping' = gc_sleeping + 1
  /\ IF DOMAIN peers = {}
     THEN UNCHANGED <<sender_mailbox, peers>>
     ELSE LET n == Cardinality(DOMAIN peers)
              kept == {id \in DOMAIN peers : Keep(peers[id].age, n)}
          IN  /\ peers' = [id \in kept |-> peers[id]]
              /\ NotifySize(Cardinality(kept))
  /\ UNCHANGED <<running, subscribed, batch, gc_due, view>>

(* Input::GC.                                                              *)
OnGC ==
  /\ Take("GC")
  /\ gc_sleeping' = gc_sleeping + 1
  /\ IF DOMAIN peers = {}
     THEN UNCHANGED <<sender_mailbox, peers, view>>
     ELSE LET n == Cardinality(DOMAIN peers)
              kept == {id \in DOMAIN peers : Keep(peers[id].age, n)}
          IN  /\ peers' = [id \in kept |-> peers[id]]
              /\ CallBack([id \in DOMAIN peers \ kept |-> Unknown])
              /\ NotifySize(Cardinality(kept))
  /\ UNCHANGED <<running, subscribed, batch, gc_due>>

(* Input::SizeSubscription.                                                *)
OnSubscription ==
  /\ Take("SizeSubscription")
  /\ subscribed' = TRUE
  /\ UNCHANGED <<running, sender_mailbox, peers, batch, gc_sleeping, gc_due,
                 view>>

UpdaterStep == OnPeers \/ OnPeer \/ OnGC \/ OnSubscription
-----------------------------------------------------------------------------
(* The GC task: sleep, send, and sleep again when the message is refused.  *)
GCWake ==
  /\ gc_sleeping > 0
  /\ gc_sleeping' = gc_sleeping - 1
  /\ gc_due' = gc_due + 1
  /\ UNCHANGED <<running, mailboxes, peers, subscribed, batch, view>>

(* Mutant of GCSend: the answer of `send` is ignored, as the timers of the *)
(* sender do.                                                              *)
GCSendOnce ==
  /\ gc_due > 0
  /\ gc_due' = gc_due - 1
  /\ updater_mailbox' = SendTo("updater", updater_mailbox, GCMsg)
  /\ UNCHANGED <<running, sender_mailbox, peers, subscribed, batch, view,
                 gc_sleeping>>

GCSend ==
  /\ gc_due > 0
  /\ gc_due' = gc_due - 1
  /\ updater_mailbox' = SendTo("updater", updater_mailbox, GCMsg)
  /\ gc_sleeping' = IF Accepts("updater", updater_mailbox)
                    THEN gc_sleeping ELSE gc_sleeping + 1
  /\ UNCHANGED <<running, sender_mailbox, peers, subscribed, batch, view>>

(* Time passes for the table and for what is on its way to it.             *)
AgeTable ==
  /\ peers' = AgedPeers(peers)
  /\ batch' = AgedPeers(batch)
  /\ updater_mailbox' = AgedMailbox(updater_mailbox)
  /\ UNCHANGED <<running, subscribed, gc_sleeping, gc_due, view>>

(* An abort takes effect where the actor awaits, between two messages.     *)
StopUpdater ==
  /\ Idle
  /\ AbortUpdater
  /\ UNCHANGED updaterVars

UpdaterInit ==
  /\ peers = <<>>
  /\ subscribed = FALSE
  /\ batch = <<>>
  /\ gc_sleeping = 1
  /\ gc_due = 0
  /\ view = [id \in PeerIds |-> Unknown]
-----------------------------------------------------------------------------
(* Any sender: it takes its messages, and passes on any contents.          *)
Batches ==
  {p \in UNION {[S -> [info : Infos, age : StampAges]] : S \in SUBSET PeerIds} :
     Cardinality(DOMAIN p) <= MaxBatch}

SenderStub ==
  /\ \/ /\ sender_mailbox # <<>>
        /\ sender_mailbox' = Tail(sender_mailbox)
        /\ UNCHANGED updater_mailbox
     \/ /\ Len(updater_mailbox) < EnvCap
        /\ \E p \in Batches :
             updater_mailbox' = SendTo("updater", updater_mailbox, PeersMsg(p))
        /\ UNCHANGED sender_mailbox
  /\ UNCHANGED <<running, updaterVars>>

Tick == AgeTable /\ UNCHANGED sender_mailbox

Drop ==
  /\ Droppable
  /\ \/ StopUpdater
     \/ AbortSender /\ UNCHANGED updaterVars

UInit == ActorsInit /\ UpdaterInit

UNext ==
  \/ UpdaterStep \/ GCWake \/ GCSend
  \/ Tick \/ SenderStub \/ Drop

USpec == UInit /\ [][UNext]_uvars

(* The runtime polls every ready task and the clock runs.  A GC task that  *)
(* is refused tries again every 10 ms: when the mailbox has room again and *)
(* again, some attempt meets it with room.                                 *)
UpdaterFairness ==
  /\ WF_uvars(UpdaterStep) /\ WF_uvars(GCWake) /\ WF_uvars(GCSend)
  /\ SF_uvars(GCWake /\ Accepts("updater", updater_mailbox))
  /\ SF_uvars(GCSend /\ Accepts("updater", updater_mailbox))
  /\ WF_uvars(Tick)

UFairSpec == USpec /\ UpdaterFairness
-----------------------------------------------------------------------------
(* Every variable of the updater stays in its range, and so does every     *)
(* size that is reported to the sender.                                    *)
UpdaterTypeOK ==
  /\ ActorsTypeOK
  /\ peers \in PeerMap
  /\ subscribed \in BOOLEAN
  /\ batch \in PeerMap
  /\ gc_sleeping \in Nat
  /\ gc_due \in Nat
  /\ view \in [PeerIds -> Infos \cup {Unknown}]

GCPending == {i \in 1..Len(updater_mailbox) : updater_mailbox[i].type = "GC"}

(* The chain of GC tasks neither breaks nor multiplies, whether mailboxes  *)
(* refuse messages or the table is empty: while the updater runs, exactly  *)
(* one GC sleeps, is about to be sent or waits in the mailbox.             *)
GcChain ==
  "updater" \in running =>
    \/ gc_sleeping + gc_due = 1 /\ GCPending = {}
    \/ gc_sleeping + gc_due = 0 /\ \E i \in GCPending : GCPending = {i}

(* The application, which only hears callbacks, and the table never        *)
(* disagree about who is there and what they announced.                    *)
ViewMatches ==
  \A id \in PeerIds :
    view[id] = IF id \in DOMAIN peers THEN peers[id].info ELSE Unknown

(* The updater implements the directory of PeerDirectory: a peer is pruned *)
(* only after three times the time its turn takes, and an announcement     *)
(* that waited never replaces a later one.                                 *)
Directory ==
  INSTANCE PeerDirectory WITH
    silence <- [id \in PeerIds |->
                  IF id \in DOMAIN peers THEN peers[id].age ELSE 0]

DirectorySpec == Directory!DirSpec

(* A peer that stays silent is pruned in the end, however often the        *)
(* mailbox is full when its GC is due.                                     *)
Stale(id) == id \in DOMAIN peers /\ peers[id].age = MaxAge

StaleExpired ==
  \A id \in PeerIds : Stale(id) ~> ("updater" \notin running \/ ~Stale(id))
-----------------------------------------------------------------------------
(* What the documentation says.                                            *)

(* README, Algorithm: "we prune a peer once it has not been seen for       *)
(* longer than 3S / phi"; with_callback says the same.  So no peer stays   *)
(* that a GC finds to have been silent for longer, where S is the size of  *)
(* the table, as the GC takes it, and phi is Cutoff / Tau.                 *)
PrunedInTime ==
  [][OnGC => \A id \in DOMAIN peers' :
               peers[id].age * Cutoff <= 3 * Cardinality(DOMAIN peers) * Tau]_uvars

(* spawn: the guard "will stop the discovery when dropped": once both      *)
(* actors are aborted, their tasks end.                                    *)
StopsWhenDropped == [](running = {} => <>(gc_sleeping + gc_due = 0))
=============================================================================
