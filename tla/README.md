# Verification of swarm-discovery

TLA+ models of the `swarm-discovery` crate (`src/src`), their TLC checks and TLAPS
proofs. The crate lets the nodes of a local network find each other over multicast
DNS with a bounded rate of packets, whatever the number of nodes.

## The system

One discovery service is a handful of tasks on a tokio runtime. Actors (crate `acto`)
have a bounded mailbox each; `send` answers `false` when the message was not accepted,
and only the GC task looks at that answer.

| component | source | state | operations |
|---|---|---|---|
| builder and DropGuard | `lib.rs` | configuration, entry of the local peer | `with_addrs`, `with_txt_attributes`, `spawn`; `remove_all`, `remove_port`, `remove_addr`, `add`, `set_txt_attribute`, `remove_txt_attribute`, interfaces, drop |
| guardian | `guardian.rs` | references to the actors, interface receivers | starts and supervises everything, forwards updates, stops when one actor stops |
| sender | `sender.rs` | phase, count of phases, timer, swarm size, handicap, announcement | query phase and response phase, updates |
| updater | `updater.rs` | table of peers, subscribers | new responses, GC, subscription; calls the application back |
| GC task | `updater.rs` `gc` | none but its sleep | sleep, send GC, retry every 10 ms |
| receivers | `receiver.rs` | none | one per socket: parse a packet, tell the sender |
| sockets | `socket.rs` | v4, v6 and interface sockets behind a lock | create, add and remove interfaces, send |

Interactions: receivers, timer tasks, guardian and updater send to the sender; the sender
and the GC task send to the updater; the updater calls the application; the application
sends to the guardian through its DropGuard; what the sender multicasts comes back to
the node's own receivers. `Sockets` is shared by sender and guardian.

What is hard: a timer task that its `abort` comes too late for; messages refused by a
full mailbox; the node's own packets coming back in a later phase; a swarm size that is
old when it is used; a GC task that outlives its actor; a handicap carried over many
cycles; the codec, whose two ends are never tested with odd names and keys; an interface
table that changes while a message is sent; actors and receivers that end by themselves;
and rounds of many nodes that overlap on a network that loses and repeats packets.
`PROJECT.json` lists these hazards with their lines and the properties that cover them.

What makes each part correct: the sender acts on a timer only in the phase that started
it, never stops cycling, and is not silenced for ever by its handicap; the updater shows
the application exactly its table, forgets nobody early and every silent peer in the end;
together, the sender's estimate follows the table and an announcement heard in any phase
reaches the application; others see exactly what the application asked to announce. The guardian
ends everything when one actor ends and has a receiver for every socket that is sent on; a
message is tried on every interface that stays; and a swarm answers a question neither with
more announcements than the cutoff nor, while nothing repeats them, with too few.

## Modules

| module | what it is |
|---|---|
| `Actors` | mailboxes, messages, `SendTo`/`Receives`, ages, aborts; shared by the next three |
| `Sender` | the sender with its timer tasks, against any network, updater and guardian |
| `PeerDirectory` | abstract specification: the directory of peers the updater keeps for an application |
| `Updater` | the updater with its GC task, against any sender |
| `Node` | sender and updater composed, with a clock and the drop of the service |
| `Announcement` | local entry, updates, announcement and what another node's receiver reads |
| `Sockets` | the default sockets, the interface table and `send_msg` step by step |
| `Guardian` | `EXTENDS Sockets`: start, interfaces, receivers, supervision and end of a service |
| `Swarm` | the senders of all nodes on one network |
| `ActorsProofs`, `SenderProofs`, `UpdaterProofs`, `NodeProofs`, `AnnouncementProofs`, `GuardianProofs`, `SwarmProofs` | theorems and proofs |
| `MCSender`, `MCUpdater`, `MCNode`, `MCAnnouncement`, `MCGuardian`, `MCSwarm` | instances for TLC |

### Sender

`phase` is the inner loop the actor is in. Each handler of a loop is one action: it takes
the head of `sender_mailbox`, and if it breaks out of the loop it includes the code up to
the next `recv` (`EnterResponse`, `EnterQuery`): the new count, the handicap, the new
timer task. A timer task sleeps (`TimerWake`) and then sends (`TimerSend`); `abort`
(`AfterAbort`) only removes one that sleeps, which is how a stale Timeout arises. The
length of a delay is not modelled, any order of timers is possible; delays matter
through `extra_delay`, which is. `mode` and `response_count` do not exist in the query
phase and hold a fixed value there. `silent`, `stranded` (the mailbox refused the Timeout
of this phase), and the field `armed` of messages, exist for the properties only. `send_msg` is one step here; its steps are in `Sockets`.

`timeout_count` is a `usize`; the model wraps at `CountMod`. `WrapSafe` says that no timer
task or Timeout message survives for a whole round of the counter, which 2^64 phases
guarantee and a small `CountMod` does not. `MaxLate` bounds for how many phases
a task may be late.

### Updater

The loop over a response runs while other tasks run: `OnPeers` takes the message, each
`OnPeer` handles one of its peers, and the actor takes no other message in between. `GC`
is one step, whose only effects seen from outside are the callbacks and the report. Ages
replace `last_seen`: `age` is counted in ticks up to `MaxAge`, which `MaxAgeAssumption`
makes large enough to tell apart what `Keep` does. `Keep` is the inequality of the code
without its divisions; the rounding of `f32` is left out. `view` is what an application
that handles callbacks like the one of `tests/discovery.rs` believes. A refused
`subscriber.send` is a `SendTo` without effect.

`PeerDirectory` states what the updater does for each peer, without mailboxes and GC. Its grace
period (`LongSilent`) has two parts: three times the time in which all known peers have their turn,
which is the documented `3S ÷ φ` with `Cutoff / Tau` for `φ`, and three cadences, which is what the
cap `min(Cutoff, S)` of the code adds in a swarm smaller than the cutoff. The second part is the
code's alone and contradicts the documentation (run `updater_grace`). An announcement is learned only
if it is not older than what is known (`Learn`), up to `Skew`: a receiver stamps what it reads and
then sends it, and of two receivers the one that stamped first may send last. The updater compares no
stamps, so this rests on the order of the mailboxes.

### Node

`EXTENDS Sender, Updater`; the stubs of both (`UpdaterStub`, `SenderStub`, `Tick`, `Drop`)
are replaced by the other actor, by a clock that ages what is on its way in both
mailboxes, and by `DropService`. `notice` records what became of the last reported size, and
`latest` what each peer announced last of what the sender's mailbox took, until the updater's
mailbox refuses that announcement on its way or a GC prunes the peer when none is on its way.

### Announcement

Names are sequences of labels, which have lengths; texts are sequences of bytes, of which
only the equals sign is told apart. The strings of the TXT record are indexed by the position
of their key in the order of the map (`KeySeq`), which is all their order is good for. The mailboxes of guardian and sender, which updates cross one
after the other, are one bounded queue; an update that is refused is lost. `Change` is
the effect of a call on addresses and attributes, used for the entry as in
`update_response` (`UpdatedEntry`, with the entry that is absent) and for `asked`, what
the accepted calls amount to. `Message` is `make_response`, `HandleMsg` the part of
`handle_msg` that reads it. The first announcement is made when the sender starts, before
any update, and is a part of `Spawn` here; an empty `peer_id`, the limit on the length
of whole names and on packets are left out. `Sender` abstracts all of it to whether there is an
announcement (`response`, `announced # {}` here).

### Sockets and Guardian

`interfaces` is the table behind the lock. Each look at it in `send_msg` is a step of its
own: `BeginSend` (is it empty?), `CopyTable`, then one `SendNext` per interface in any order,
and `SendV6`; the guardian's `AddInterface` and `RemoveInterface` may come between any two of
them. `add_interface_v4` also looks twice, but only the guardian calls it, one request at a
time, so nothing can come between. Where `send_msg` unwraps a socket that does not exist,
`sending.pc` becomes `"panic"`. `opened` numbers the sockets of an address, so that one that
is removed and added again is another socket; `due`, `old` and `tried` record for the
properties what the table was and what was tried.

In `Guardian`, `started` are the actors the guardian supervises and `live` those that have
not ended. A request to add is handled in two steps, table first and receiver second
(`handling` is in between), as the lock is released and the sender may run in another thread. `OnSupervision`
may come between any two requests. `phase` is the sender's, as far as it decides the mode of
the next send: a query heard over IPv4 or over an interface is answered in mode V4. When
the guardian has ended, the runtime aborts the actors (`AbortActors`, one step here; `Node` has
the interleavings of the two actors that keep state).

### Swarm

One sender per node, reduced to its phase and `response_count`. A packet is under way to each
node that will receive it, its sender among them, for any time and without order, in the
network or in the mailbox (`questions`, `answers`); who receives it (`Receivers`), and whose
timer runs out next, is open. So rounds overlap, nodes join them late, and a question or an
announcement, also the node's own, may arrive in a later phase than it was meant for. A packet
is lost when it is sent (`Lossy`), or because `Capacity` others wait for the node; one that is
never taken stands for one that is lost later. Late timers are in `Sender`, whose
`TimerDiscipline` says that they have no effect.

`Addressed` nodes announce addresses; the announcement of a `Bare` node (attributes only) is an
empty response, which nobody counts; the other nodes announce nothing. `Copies` is how often
one announcement arrives, as sender and receiver may share several interfaces, or both IP
versions, and every copy is counted.

The variables of `history` are about the time since somebody asked while all was quiet (nobody
waiting to answer, nothing under way), and exist for the properties. `missed` are the
announcements that a node could not take into account for its answer: lost for one that waits
to answer or has a question under way to it, heard before that question, or still under way
when it announces itself. They are what a node's answer beyond the cutoff is due to. The
handicap and the delays only decide whose timer is first, which is open here.

## Runs

Each takes between seconds and three minutes with two workers.

| run | shows | bounds |
|---|---|---|
| `sender` | `SenderTypeOK`, `TimerDiscipline`, `WakeUpPending`, `HandicapDecays`, and `SenderCycles` under `SFairSpec` | one other peer, mailbox of 4 of which the environment fills 1, so that a Timeout always finds room beside late ones; timers late by one phase; counter of 4; a cap of 2 on the handicap and a reported size that reaches it (6/2); updates that create and remove the announcement |
| `updater` | `UpdaterTypeOK`, `GcChain`, `ViewMatches`, `DirectorySpec` | 3 peers with a cutoff of 2: swarms smaller than, equal to and larger than the cutoff; mailbox of 2, so that GC and reports are refused; two peers in one response; drops |
| `updater_expiry` | `DirectorySpec`, and `StaleExpired` under `UFairSpec` | 2 peers, mailbox of 2 that the sender may keep filling; two announcements of one peer wait one behind the other, a receiver may be late by one tick (`Skew` = 1), and messages age in the mailbox |
| `node` | `TypeOK`, `SizeFresh`, `InfoFresh`, and `Discovered` under `FairSpec` | this node and one other, who announces two different things, without announcements of its own (`Discovered` is about other peers); a mailbox of 2 for the sender and 1 for the updater, so that both overflow and announcements wait behind a GC; drops; a clock that ticks only while no message waits (`MaxWait` = 0: ages matter to the GC and not to the order of messages; messages that age in a mailbox occur in `updater` and `updater_expiry`) |
| `announcement` | `AnnouncementTypeOK`, `SeenAsAsked` | 2 ports, an IPv4 and an IPv6 address, 3 keys (one with an equals sign), flag, empty value and a value that begins with an equals sign, lengths on both sides of each limit, peer ids that are plain, dotted, too long for the suffix and too long; 2 updates under way |
| `guardian` | `GuardianTypeOK`, `SentWhereDue`, `Listening`, `UnwrapsFit`, and `EndsTogether` under `GFairSpec` | every IP class, 2 interfaces that come and go during sends, sockets and sends that the operating system refuses, one request in the mailbox, up to 2 receivers started for interfaces before another is added, one receiver that fails besides the sender's own panic |
| `swarm` | `SwarmTypeOK`, `RateBounded`, `SteadyFlow` | 3 nodes with addresses and 1 with attributes only, a cutoff of 2, 2 questions before all is quiet: more nodes than the cutoff, and two rounds that overlap; one packet waits for a node and others are lost, so losses occur without `Lossy` |

`EnvCap` (the environment adds to a mailbox only below it), `MaxPayload`, `MaxBatch`,
`MaxWait` (ticks a message may wait), `UpdateCap`, `MaxReceivers`, `MaxFailures` and `MaxAsked`
are bounds of the model and not of the code; `RequestCap` and `Capacity` are sizes of mailboxes.
`CHECK_DEADLOCK FALSE` appears for `Announcement` and `Guardian` only, where a service that
was refused, dropped or has panicked stops. Symmetry is used in runs of safety properties.

What the runs do not reach: more peers and nodes than that, more than one late timer at a
time by more than `MaxLate`, the node with its own announcement coming back and with
updates (the node run leaves these to `sender`; the theorems about `Node` do not). The
theorems below do not depend on bounds.

### Disagreements with documentation

| run | what it shows |
|---|---|
| `updater_grace` | README: a peer is pruned "once it has not been seen for longer than 3S ÷ φ", and so `with_callback`. In a swarm of `S < ceil(tau * phi)` peers each stays for three cadences: with τ = 10 s, φ = 1 and three peers for 30 s instead of 9 s. |
| `updater_dropped` | `spawn`: the guard "will stop the discovery when dropped". The GC task goes on every 10 ms, as its sends are refused for ever. |
| `announcement_peer_id` | `sender.rs`: "PeerId was checked in spawn()". The check leaves out the port that is added to the label, and the sender panics. |
| `guardian_panic` | `spawn`: the guard "will keep the discovery running until it is dropped". A query heard on an interface that is then removed is answered in mode V4; if no interface is left, `send_msg` unwraps the default IPv4 socket, which `V6Only`, or `Auto` without IPv4, does not have. |
| `swarm_copies` | `updater.rs` reckons with `min(swarmsize, ceil(tau * phi))` answers per cadence. The sender counts every copy of an announcement, so with two copies half as many suffice to silence the others. |

Met on the way without a run of their own: the callback is called for every response, where
`with_callback` says "when a peer is discovered or its addresses change"; a late copy of the
node's own query opens a response phase, where the README says "another node's mDNS query"; the node gives up its
response at τφ responses, where it says "greater than"; the updater rounds τφ up and so may
prune before 3S ÷ φ has passed (with `new_interactive`, τφ = 1.75, after 7/8 of that time);
the target of an SRV record is `PEER_ID-PORT.local.` also for a single port and not under the
service name; a peer id with a dot is accepted but no receiver takes it; a peer with attributes
and no address sends announcements that show nobody and that nobody counts, while
`with_addrs` says it "will not advertise itself"; keys with an equals sign are accepted but read
back differently; the receiver of a removed interface is forgotten but runs on, and adding an
interface twice starts a second one on the same socket, although a comment in `guardian.rs`
says the receivers are tracked for removal; `V6Only` still sends on IPv4 interfaces; an answer
goes out on all interfaces rather than on the socket that received the query.

## Fairness

`SenderFairness`, `UpdaterFairness` and `Node`'s `Fairness` ask for weak fairness of the
actor's step, of the timers' wake and send, and (`UpdaterFairness`) of the GC task: tokio polls
every ready task, and a sleep ends. The retries of the GC task every 10 ms are strongly fair towards a
mailbox that has room again and again (`UpdaterFairness`), which is an assumption on
chance: an attempt always finding the mailbox full has probability zero as long as the updater
empties it. The clock is fair where expiry depends on it. `GuardianFairness` asks for strong
fairness of `OnSupervision`, because requests may come first time and again but `acto` tells the
guardian of the end of an actor between any two messages, and for weak fairness of the end of
a handler it has begun and of the abort of what it supervised. `Swarm` states no fairness.
Nothing is assumed of the network or the application.

## Proofs

Checked by TLAPS for every value of the constants that meets the named assumptions of the
modules (`ActorsAssumption`, `SenderAssumption`, and so on; TLC evaluates each of them in a run).

- `SenderTypeCorrect`, `UpdaterTypeCorrect`: the type invariants.
- `SenderTimerDiscipline`: at most one timer of the current count exists, as a task or as
  a message, and it was started in the current phase. With the type invariant it is
  inductive; what keeps it at a change of phase is that nothing carries the next count yet
  (lemma `NextCountIsFresh`, from `WrapSafe`).
- `SenderWakeUpPending`: a phase always keeps what ends it. A new phase starts a timer of the
  new count; its Timeout enters the mailbox behind what is there, and no handler passes over a
  Timeout of the current count without leaving the phase (`AwaitedStep`), so it is lost only
  when the mailbox refuses it. This is the safety part of `SenderCycles`.
- `SenderHandicapDecays`: the handicap after `k` silent phases is at most `ExtraCap - k`.
  The property is inductive once the type invariant is added.
- `UpdaterViewMatches`: each handler changes table and picture for the same peers.
- `UpdaterGcChain`: exactly one GC is under way, as a task or as a message. The proof
  follows the position of the only GC message through `Append` and `Tail`.
- `UpdaterImplementsDirectory`: every step of `Updater` is a step of `PeerDirectory` or a
  stutter, with the ages of the table as `silence`. It uses `UpdaterViewMatches` (who is
  known is who is in the table), facts on cardinalities, and the arithmetic of `Keep`: both
  the cutoff and the swarm size bound `min` from above, so that
  `age * min(Cutoff, n) >= 3 n Tau` gives both halves of `LongSilent`, the documented one and the
  code's. That `Learn` takes nothing older needs an invariant of its own (`InOrder`): of the
  announcements of one peer, in the table, in `batch` and along the mailbox, none is older by more
  than `Skew` than one that comes before it; all of them age alike.
- `NodeTypeCorrect`, `NodeKeepsParts`, `NodeImplementsDirectory`: what is proved of each
  actor against any environment carries over to the two against each other and the clock. Each
  step of `Node` is a step of one component whose effect on the other's variables its stubs
  allow; where they do not (a clock that ages both mailboxes, the abort of the sender alone) the
  conjunct is proved anew. For the directory, `NodeOrder` extends `InOrder` to the sender's
  mailbox, whose head moves behind the end of the updater's.
- `NodeSizeFresh`: `EventualSize` is the last size in the mailbox, a `CHOOSE` over its
  positions. The inductive invariant (`NodeInv`) says instead, for a mailbox and a size, that the
  last SizeUpdate carries it or, if there is none, that the sender has it (`LeadsTo`), which goes
  through `Append` and `Tail` step by step; and that nothing is reported before the updater is
  subscribed, until when the table stays empty (`Subscribing`).
- `NodeInfoFresh`: `EventualInfo` folds the last announcements of two mailboxes and of the
  message the updater has begun. The inductive invariant (`InTransit`) says, like `LeadsTo`, what
  a mailbox says last of a peer given what was said before (`Says`), for the updater's mailbox
  and behind it the sender's (`Tracked`). A step of the sender moves an announcement from the
  head of one to the end of the other, which loses its order only if the updater's mailbox
  refuses it; a GC takes away what was said before, which matters only if neither mailbox says
  anything (`Pruned`).
- `AnnouncementType`, `AnnouncementSeen`: the inductive invariant adds that whatever is under
  way was validated, that the sender announces the entry as it is (`AnnouncesEntry`), and that
  the updates under way lead from the entry over a sequence of configurations to what was
  asked for (`Lead`), which replaces a recursive definition. On it rest the lemmas of the codec:
  a receiver splits the string of a plain key where it was joined (`Decodes`), reads the map the
  strings were made from (`TxtRoundTrip`), valid attributes fit into a string
  (`ValidIsEncodable`), different ports have different targets (`TargetsDiffer`), and the
  suffixes are recognized exactly if the peer id is one label (`SuffixesOfNames`).
- `GuardianType`, `GuardianSends`, `GuardianListens`: the invariant says in addition that the
  table holds sockets created for their addresses (`TableInv`), how far a send is against the
  table at its beginning and what was removed since (`SendInv`), and what the guardian tracks
  while it is between the two steps of a request (`TrackInv`).
- `GuardianUnwraps`: a mode is chosen by the kind of socket a query came in on, so the invariant
  (`ModeInv`) says of every receiver that was started that the service has the default socket of
  its IP version or, for IPv4, had an interface. `GuardianKeepsRunning` follows: the panic shown by
  `guardian_panic` needs a service without a default IPv4 socket, so one of another class than
  `V6Only` keeps running while the operating system does not fail.
- `AnnouncementNeverPanics`: the panic shown by `announcement_peer_id` needs a peer id whose last
  label has no room for the port (`RoomForPort`; 57 bytes always leave it).
- `SwarmType`, `SwarmRateBounded`: for each node `n` that waits to answer,
  `announced + Cutoff <= Cutoff * asked + response_count[n] + Cardinality(Reach(n))`
  (`RateInv`), where `Reach(n)` are the announcements on their way to `n` and those missed, and
  for each node with a question under way to it the same without the count: an announcement that
  does not raise the count of a waiting node is on its way to it or missed, and a new
  question adds a whole cutoff. When `n` announces itself, its count is below the cutoff and
  what was on its way to it becomes missed, which leaves `RateBounded`.
- `SwarmSteadyFlow`, `SwarmFlowByCopies`: a node that took up a question still waits to answer, has
  answered, or was silenced by `Cutoff` copies, which at least `Cutoff / Copies` announcements
  made (`FlowInv`). With `Copies = 1` this is `SteadyFlow`; with two it is what is left of it.

Model-checked only: the liveness properties (`SenderCycles`, `StaleExpired`, `Discovered`,
`EndsTogether`), since fairness and ENABLED are out of TLAPS's reach here. Every invariant and every
action property that a passing run checks is also proved. Induction over data and
RECURSIVE operators are out of reach too; no module declares one.

## Not modelled

The system calls that create and configure sockets (a choice of success or failure here); the
length of delays (so neither response rates in time nor the spread of queries, and not the loss
of jitter at `sender.rs:58` for short intervals and for a swarm size of zero); a cutoff of zero,
which the documentation excludes (`τφ > 1`) and which would make the timer task of each response
phase fail (`sender.rs:109`); packets of other mDNS services beyond
the empty response they yield, and records that this library does not send; sizes of packets; the upper and lower case of
names; `NoMoreSenders`, which cannot come while the actor and its timers hold references to it; the
remaining builder methods, which set a value each; the examples and the integration test.

## Plan

The components that carry the crate's logic are modelled. What would add most next:

1. A clock in `Sender`, with the intervals of the query and of the handicapped response phase, for
   bounds on the rate of queries.
2. Several nodes each with its updater: a drop of a node is noticed by all others in the end.
