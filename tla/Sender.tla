------------------------------- MODULE Sender -------------------------------
(***************************************************************************)
(* The sender actor (src/src/sender.rs): it alternates between a query     *)
(* phase, in which it waits for a query of anybody or asks itself, and a   *)
(* response phase, in which it announces itself unless enough peers        *)
(* answered first.  Each phase starts a timer task that runs beside the    *)
(* actor; `abort` stops a task that still sleeps but not one that is       *)
(* already past its sleep, whose message then arrives in a later phase.    *)
(***************************************************************************)
EXTENDS Actors

CONSTANTS
  Self,        \* the peer_id of this node
  ExtraCap,    \* upper limit of extra_delay in steps of RESPONSE_DELAY
  CountMod,    \* number of values of timeout_count (2^64 for a usize)
  MaxLate,     \* how many phases a timer task may outlive its own
  Announcing,  \* whether addresses or attributes are given before spawn
  Queries,     \* the query messages the receivers of this node can produce
  Sizes,       \* the swarm sizes an updater may report
  Ops,         \* the updates the application issues
  MaxPayload   \* bound on the number of peers in one received packet

ASSUME SenderAssumption ==
  /\ Self \in PeerIds
  /\ ExtraCap \in Nat
  /\ MaxLate \in Nat
  /\ CountMod \in Nat
  /\ MaxLate + 1 < CountMod
  /\ Announcing \subseteq BOOLEAN
  /\ Queries \subseteq QueryTypes
  /\ Sizes \subseteq Nat
  /\ Ops \subseteq UpdateOps
  /\ MaxPayload \in Nat

VARIABLES
  phase,           \* which of the two inner loops the actor is in
  mode,            \* the sockets the next response goes to; Any in a query
                   \* phase, where it has no value yet
  timeout_count,
  timers,          \* the spawned timer tasks that have not ended
  swarm_size,
  extra_delay,     \* in steps of RESPONSE_DELAY
  has_responded,
  response_count,  \* zero in a query phase, where it does not exist
  response,        \* TRUE iff there is an announcement to send
  loopback,        \* own packets the network may still hand back
  silent,          \* response phases in a row that ended without sending
                   \* (counted up to ExtraCap + 1, for the properties only)
  stranded         \* TRUE iff the mailbox refused the Timeout of this phase
                   \* (for the properties only)

senderVars == <<phase, mode, timeout_count, timers, swarm_size, extra_delay,
                has_responded, response_count, response, loopback, silent,
                stranded>>

svars == <<running, mailboxes, senderVars>>
-----------------------------------------------------------------------------
Counts == 0..(CountMod - 1)

Timer == [count : Counts, armed : Phases, state : {"sleeping", "woken"}]

NextCount(c) == IF c + 1 = CountMod THEN 0 ELSE c + 1

NewTimer(c, armed) == [count |-> c, armed |-> armed, state |-> "sleeping"]

(* JoinHandle::abort on the timer task of the current phase.               *)
AfterAbort == {t \in timers : t.count # timeout_count \/ t.state = "woken"}

(* How many phases ago c was the count.                                    *)
Behind(c) == IF c <= timeout_count THEN timeout_count - c
                                   ELSE timeout_count + CountMod - c

(* A usize takes longer to wrap around than a timer task or its message    *)
(* stays on its way; with a small CountMod this guard of the phase changes *)
(* keeps that.  The second part never blocks when CountMod exceeds MaxLate *)
(* by more than the length of the mailbox.                                 *)
WrapSafe ==
  /\ \A t \in timers : Behind(t.count) <= MaxLate
  /\ \A i \in 1..Len(sender_mailbox) :
       sender_mailbox[i].type = "Timeout" =>
         sender_mailbox[i].count # NextCount(timeout_count)

(* Mutants of NextExtraDelay: the handicap has no upper limit; it is only  *)
(* given up by sending again.                                              *)
UnlimitedExtraDelay ==
  IF has_responded
  THEN swarm_size \div Cutoff
  ELSE IF extra_delay = 0 THEN 0 ELSE extra_delay - 1

StickyExtraDelay ==
  IF has_responded THEN MinOf(swarm_size \div Cutoff, ExtraCap)
                   ELSE extra_delay

(* For fairness: a node that has sent waits longer in the next cycle, and  *)
(* one step less in every cycle after it in which it stays silent.         *)
NextExtraDelay ==
  IF has_responded
  THEN MinOf(swarm_size \div Cutoff, ExtraCap)
  ELSE IF extra_delay = 0 THEN 0 ELSE extra_delay - 1

(* The code between the two inner loops.                                   *)
EnterResponse(m, ts) ==
  /\ WrapSafe
  /\ phase' = "response"
  /\ mode' = m
  /\ timeout_count' = NextCount(timeout_count)
  /\ extra_delay' = NextExtraDelay
  /\ timers' = ts \cup {NewTimer(NextCount(timeout_count), "response")}
  /\ response_count' = 0
  /\ has_responded' = FALSE
  /\ stranded' = FALSE
  /\ UNCHANGED silent

(* Mutants of EnterQuery: the count is only incremented once per cycle;    *)
(* the query timer is only started before the first cycle.                 *)
EnterQueryKeepingCount(ts, sent) ==
  /\ phase' = "query"
  /\ timers' = ts \cup {NewTimer(timeout_count, "query")}
  /\ has_responded' = sent
  /\ silent' = IF sent THEN 0 ELSE MinOf(silent + 1, ExtraCap + 1)
  /\ mode' = "Any"
  /\ response_count' = 0
  /\ stranded' = FALSE
  /\ UNCHANGED <<timeout_count, extra_delay>>

EnterQueryWithoutTimer(ts, sent) ==
  /\ WrapSafe
  /\ phase' = "query"
  /\ timeout_count' = NextCount(timeout_count)
  /\ timers' = ts
  /\ has_responded' = sent
  /\ silent' = IF sent THEN 0 ELSE MinOf(silent + 1, ExtraCap + 1)
  /\ mode' = "Any"
  /\ response_count' = 0
  /\ stranded' = FALSE
  /\ UNCHANGED extra_delay

(* The end of the outer loop and its beginning; sent tells whether this    *)
(* response phase multicast the announcement.                              *)
EnterQuery(ts, sent) ==
  /\ WrapSafe
  /\ phase' = "query"
  /\ timeout_count' = NextCount(timeout_count)
  /\ timers' = ts \cup {NewTimer(NextCount(timeout_count), "query")}
  /\ has_responded' = sent
  /\ silent' = IF sent THEN 0 ELSE MinOf(silent + 1, ExtraCap + 1)
  /\ mode' = "Any"
  /\ response_count' = 0
  /\ stranded' = FALSE
  /\ UNCHANGED extra_delay

(* update_response: the announcement exists iff the entry of the local     *)
(* peer does; only RemoveAll deletes it, AddAddr and SetTxt create it.     *)
UpdateResponse(op) ==
  CASE op = "RemoveAll" -> FALSE
    [] op \in {"AddAddr", "SetTxt"} -> TRUE
    [] OTHER -> response
-----------------------------------------------------------------------------
(* The handlers of the inner loops, each one a message taken from the      *)
(* mailbox.                                                                *)
Receive(t) ==
  /\ Receives("sender", sender_mailbox, t)
  /\ sender_mailbox' = Tail(sender_mailbox)

Forward(peers) ==
  updater_mailbox' = SendTo("updater", updater_mailbox, PeersMsg(peers))

(* Query phase: somebody asks.                                             *)
OnQuery ==
  /\ phase = "query"
  /\ \/ Receive("QueryV4") /\ EnterResponse("V4", AfterAbort)
     \/ Receive("QueryV6") /\ EnterResponse("V6", AfterAbort)
  /\ UNCHANGED <<running, updater_mailbox, swarm_size, response, loopback>>

(* Query phase: nobody asked in time.                                      *)
OnQueryTimeout ==
  /\ phase = "query"
  /\ Receive("Timeout")
  /\ Head(sender_mailbox).count = timeout_count
  /\ loopback' = loopback \cup {"query" : t \in Queries}
  /\ EnterResponse("Any", timers)
  /\ UNCHANGED <<running, updater_mailbox, swarm_size, response>>

(* Mutant of OnLateResponse: only responses to a query are looked at.      *)
OnLateResponseDropped ==
  /\ phase = "query"
  /\ Receive("Response")
  /\ UNCHANGED <<running, updater_mailbox, senderVars>>

(* Query phase: a late answer is used for discovery only.                  *)
OnLateResponse ==
  /\ phase = "query"
  /\ Receive("Response")
  /\ Forward(Head(sender_mailbox).peers)
  /\ UNCHANGED <<running, senderVars>>

(* Response phase: enough answers make this node keep silent.              *)
OnResponse ==
  /\ phase = "response"
  /\ Receive("Response")
  /\ Forward(Head(sender_mailbox).peers)
  /\ LET count == response_count + Cardinality(DOMAIN Head(sender_mailbox).peers)
     IN  IF count >= Cutoff
         THEN EnterQuery(AfterAbort, FALSE)
         ELSE /\ response_count' = count
              /\ UNCHANGED <<phase, mode, timeout_count, timers, extra_delay,
                             has_responded, silent, stranded>>
  /\ UNCHANGED <<running, swarm_size, response, loopback>>

(* Response phase: time to announce, if there is anything to announce.     *)
OnResponseTimeout ==
  /\ phase = "response"
  /\ Receive("Timeout")
  /\ Head(sender_mailbox).count = timeout_count
  /\ loopback' = IF response THEN loopback \cup {"response"} ELSE loopback
  /\ EnterQuery(timers, response)
  /\ UNCHANGED <<running, updater_mailbox, swarm_size, response>>

OnSizeUpdate ==
  /\ Receive("SizeUpdate")
  /\ swarm_size' = Head(sender_mailbox).size
  /\ UNCHANGED <<running, updater_mailbox, phase, mode, timeout_count, timers,
                 extra_delay, has_responded, response_count, response,
                 loopback, silent, stranded>>

OnUpdate ==
  /\ Receive("Update")
  /\ response' = UpdateResponse(Head(sender_mailbox).op)
  /\ UNCHANGED <<running, updater_mailbox, phase, mode, timeout_count, timers,
                 swarm_size, extra_delay, has_responded, response_count,
                 loopback, silent, stranded>>

(* A timer of an earlier phase, or a query while an answer is being        *)
(* prepared.                                                               *)
OnIgnored ==
  /\ \/ Receive("Timeout") /\ Head(sender_mailbox).count # timeout_count
     \/ phase = "response" /\ \E t \in QueryTypes : Receive(t)
  /\ UNCHANGED <<running, updater_mailbox, senderVars>>

SenderStep ==
  \/ OnQuery \/ OnQueryTimeout \/ OnLateResponse
  \/ OnResponse \/ OnResponseTimeout
  \/ OnSizeUpdate \/ OnUpdate \/ OnIgnored
-----------------------------------------------------------------------------
(* The timer tasks: sleep, then send; a failed send is not repeated.       *)
TimerWake(c) ==
  /\ \E t \in timers :
       /\ t.count = c /\ t.state = "sleeping"
       /\ timers' = (timers \ {t}) \cup {[t EXCEPT !.state = "woken"]}
  /\ UNCHANGED <<running, mailboxes, phase, mode, timeout_count, swarm_size,
                 extra_delay, has_responded, response_count, response,
                 loopback, silent, stranded>>

TimerSend(c) ==
  /\ \E t \in timers :
       /\ t.count = c /\ t.state = "woken"
       /\ timers' = timers \ {t}
       /\ sender_mailbox' =
            SendTo("sender", sender_mailbox, TimeoutMsg(c, t.armed))
  /\ stranded' = (stranded \/ /\ c = timeout_count
                              /\ ~Accepts("sender", sender_mailbox))
  /\ UNCHANGED <<running, updater_mailbox, phase, mode, timeout_count,
                 swarm_size, extra_delay, has_responded, response_count,
                 response, loopback, silent>>
-----------------------------------------------------------------------------
(* What the rest of the node and the network do to the sender.             *)
Arrives(m) ==
  /\ Len(sender_mailbox) < EnvCap
  /\ sender_mailbox' = SendTo("sender", sender_mailbox, m)

(* What handle_msg makes of the packets of other nodes; the empty map is   *)
(* what unrelated mDNS traffic yields.                                     *)
Payloads ==
  {p \in UNION {[S -> [info : Infos, age : {0}]] :
                  S \in SUBSET (PeerIds \ {Self})} :
     Cardinality(DOMAIN p) <= MaxPayload}

OwnPayloads == [{Self} -> [info : Infos, age : {0}]]

ReceivePacket ==
  /\ \/ \E t \in Queries : Arrives(QueryMsg(t))
     \/ \E p \in Payloads : Arrives(ResponseMsg(p))
  /\ UNCHANGED <<running, updater_mailbox, senderVars>>

(* Multicast packets come back to their own node, any number of times:     *)
(* every socket that joined the group may deliver one.                     *)
ReceiveOwnPacket ==
  /\ \/ "query" \in loopback /\ \E t \in Queries : Arrives(QueryMsg(t))
     \/ "response" \in loopback
          /\ \E p \in OwnPayloads : Arrives(ResponseMsg(p))
  /\ UNCHANGED <<running, updater_mailbox, senderVars>>

(* The last copy of an own packet has been delivered or lost.              *)
ForgetOwnPacket ==
  /\ \E k \in loopback : loopback' = loopback \ {k}
  /\ UNCHANGED <<running, mailboxes, phase, mode, timeout_count, timers,
                 swarm_size, extra_delay, has_responded, response_count,
                 response, silent, stranded>>

GuardianForwards ==
  /\ \E op \in Ops : Arrives(UpdateMsg(op))
  /\ UNCHANGED <<running, updater_mailbox, senderVars>>

(* Any updater: it takes its messages and reports any size.                *)
UpdaterStub ==
  /\ \/ /\ updater_mailbox # <<>>
        /\ updater_mailbox' = Tail(updater_mailbox)
        /\ UNCHANGED sender_mailbox
     \/ /\ \E n \in Sizes : Arrives(SizeUpdateMsg(n))
        /\ UNCHANGED updater_mailbox
  /\ UNCHANGED <<running, senderVars>>
-----------------------------------------------------------------------------
SenderInit ==
  /\ phase = "query"
  /\ mode = "Any"
  /\ timeout_count = 0
  /\ timers = {NewTimer(0, "query")}
  /\ swarm_size = 1
  /\ extra_delay = 0
  /\ has_responded = FALSE
  /\ response_count = 0
  /\ response \in Announcing
  /\ loopback = {}
  /\ silent = 0
  /\ stranded = FALSE

SInit == ActorsInit /\ SenderInit

SNext ==
  \/ SenderStep
  \/ \E c \in Counts : TimerWake(c) \/ TimerSend(c)
  \/ ReceivePacket \/ ReceiveOwnPacket \/ ForgetOwnPacket
  \/ GuardianForwards \/ UpdaterStub

SSpec == SInit /\ [][SNext]_svars

(* The runtime polls every ready task: the actor takes its messages and    *)
(* each timer task wakes and sends.                                        *)
SenderFairness ==
  /\ WF_svars(SenderStep)
  /\ \A c \in Counts : WF_svars(TimerWake(c)) /\ WF_svars(TimerSend(c))

SFairSpec == SSpec /\ SenderFairness
-----------------------------------------------------------------------------
(* Every variable of the sender stays in its range; in particular the      *)
(* extra delay never exceeds ten steps (sender.rs, `.min(10)`).            *)
SenderTypeOK ==
  /\ ActorsTypeOK
  /\ phase \in Phases
  /\ mode \in {"V4", "V6", "Any"}
  /\ timeout_count \in Counts
  /\ timers \subseteq Timer
  /\ swarm_size \in Nat
  /\ extra_delay \in 0..ExtraCap
  /\ has_responded \in BOOLEAN
  /\ response_count \in Nat
  /\ response \in BOOLEAN
  /\ loopback \subseteq {"query", "response"}
  /\ silent \in 0..(ExtraCap + 1)
  /\ stranded \in BOOLEAN

CurrentTimers == {t \in timers : t.count = timeout_count}

CurrentTimeouts ==
  {i \in 1..Len(sender_mailbox) :
     /\ sender_mailbox[i].type = "Timeout"
     /\ sender_mailbox[i].count = timeout_count}

(* Whatever way timers, aborts and messages interleave, a timer that the   *)
(* sender would act on was started in the phase the sender is in, and      *)
(* there is at most one, as a task or as a Timeout message: a task that    *)
(* outlives its abort never makes the sender multicast, and no phase makes *)
(* it multicast twice.                                                     *)
TimerDiscipline ==
  /\ \A t \in CurrentTimers : t.armed = phase
  /\ \A i \in CurrentTimeouts : sender_mailbox[i].armed = phase
  /\ \A t, u \in CurrentTimers : t = u
  /\ \A i, j \in CurrentTimeouts : i = j
  /\ CurrentTimers = {} \/ CurrentTimeouts = {}

(* The sender always waits for a timer or a Timeout of its own phase, of   *)
(* which there is exactly one, however late tasks and aborts interleave    *)
(* with the phase changes; the one way to lose it is that the mailbox is   *)
(* full when the timer sends, and then only others can move it on.         *)
WakeUpPending ==
  "sender" \in running =>
    (stranded <=> CurrentTimers = {} /\ CurrentTimeouts = {})

(* The handicap after k silent response phases.                            *)
HandicapAfter(k) == IF k >= ExtraCap THEN 0 ELSE ExtraCap - k

(* The handicap a node gets for having sent wears off: in a response phase *)
(* that follows k silent ones the extra delay is at most ExtraCap - k      *)
(* steps, so that after ExtraCap silent phases it competes like any other, *)
(* whatever sizes the updater reported meanwhile.                          *)
HandicapDecays ==
  /\ phase = "query" /\ has_responded => silent = 0
  /\ phase = "response" => extra_delay <= HandicapAfter(silent)
  /\ phase = "query" /\ ~has_responded =>
       extra_delay <= IF silent = 0 THEN 0 ELSE HandicapAfter(silent - 1)

(* The sender never stops alternating between its phases, so queries and   *)
(* chances to respond keep coming, provided its mailbox has room for the   *)
(* Timeout messages.                                                       *)
SenderCycles == []<>(phase = "query") /\ []<>(phase = "response")
=============================================================================
