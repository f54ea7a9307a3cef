-------------------------------- MODULE Swarm -------------------------------
(***************************************************************************)
(* The senders of a whole swarm (src/src/sender.rs), which agree by        *)
(* listening to each other on who asks and who announces itself: whoever   *)
(* hears a question waits a random time with its answer and is silent when *)
(* `cutoff` others were faster.  Packets take any time, in the network and *)
(* in the mailbox of the receiver, and overtake each other; who receives   *)
(* one, and whose timer runs out next, is open.  What a node announces     *)
(* does not change here; Sender has the updates and the late timers.       *)
(***************************************************************************)
EXTENDS Naturals, FiniteSets

CONSTANTS
  Nodes,     \* the services of one name on one network
  Addressed, \* those that announce at least one address
  Bare,      \* those that announce attributes only; the others announce nothing
  Cutoff,    \* cutoff, ceil(tau * phi)
  Copies,    \* how many times a node receives one multicast
  Capacity,  \* how many packets wait for a node; more are lost
  Lossy,     \* whether a multicast may miss some nodes besides
  MaxAsked   \* bound on the questions asked before all is quiet

ASSUME SwarmAssumption ==
  /\ IsFiniteSet(Nodes)
  /\ Addressed \subseteq Nodes /\ Bare \subseteq Nodes
  /\ Addressed \cap Bare = {}
  /\ Cutoff \in Nat \ {0} /\ Copies \in Nat \ {0}
  /\ Capacity \in Nat /\ Lossy \in BOOLEAN /\ MaxAsked \in Nat

VARIABLES
  phase,   \* per node: waiting to ask ("query") or to answer ("response")
  response_count, \* per node: the announcements heard in its response phase
  questions, \* per node: how many copies of questions are on the way to it
  answers,   \* per node: the copies of announcements on the way to it, each
             \* the number of the announcement and the number of the copy
  \* Since the last question asked when all was quiet:
  asked,     \* the number of questions
  entered,   \* the nodes that took up a question
  announcers, \* the nodes that announced addresses
  announced, \* how often that happened
  missed     \* the announcements that were lost for a node waiting to answer,
             \* came before the question, or too late for its own announcement

senders == <<phase, response_count>>
packets == <<questions, answers>>
history == <<asked, entered, announcers, announced, missed>>
vars == <<senders, packets, history>>
-----------------------------------------------------------------------------
In(p) == {n \in Nodes : phase[n] = p}

Quiet ==
  /\ In("response") = {}
  /\ \A n \in Nodes : questions[n] = 0 /\ answers[n] = {}

(* The announcements on their way to n.                                    *)
Coming(n) == {x[1] : x \in answers[n]}

(* Who receives a multicast, the sender itself among them.                 *)
HasRoom(n) == questions[n] + Cardinality(answers[n]) < Capacity

Receivers ==
  LET able == {n \in Nodes : HasRoom(n)}
  IN  IF Lossy THEN SUBSET able ELSE {able}

(* Mutant of StartResponse: the count of the last response phase stays.    *)
StartResponseKeepingCount(n) ==
  /\ phase' = [phase EXCEPT ![n] = "response"]
  /\ UNCHANGED response_count

(* The beginning of the response phase.                                    *)
StartResponse(n) ==
  /\ phase' = [phase EXCEPT ![n] = "response"]
  /\ response_count' = [response_count EXCEPT ![n] = 0]

(* The timeout of the query phase: a question to all.                      *)
Ask(n, R) ==
  /\ phase[n] = "query"
  /\ StartResponse(n)
  /\ questions' = [m \in Nodes |-> IF m \in R THEN questions[m] + Copies
                                   ELSE questions[m]]
  /\ IF Quiet
     THEN /\ asked' = 1 /\ entered' = {n}
          /\ announcers' = {} /\ announced' = 0 /\ missed' = {}
     ELSE /\ asked < MaxAsked
          /\ asked' = asked + 1 /\ entered' = entered \cup {n}
          /\ UNCHANGED <<announcers, announced, missed>>
  /\ UNCHANGED answers

(* A question starts the response phase of whoever waits to ask and is     *)
(* ignored by others.                                                      *)
HearQuestion(n) ==
  /\ questions[n] > 0
  /\ questions' = [questions EXCEPT ![n] = @ - 1]
  /\ \/ /\ phase[n] = "query"
        /\ StartResponse(n)
        /\ entered' = entered \cup {n}
     \/ phase[n] = "response" /\ UNCHANGED <<senders, entered>>
  /\ UNCHANGED <<answers, asked, announcers, announced, missed>>

(* The timeout of the response phase with nothing to announce, or nothing  *)
(* that counts: the message of a Bare node holds no peer.                  *)
AnswerUncounted(n) ==
  /\ phase[n] = "response" /\ n \notin Addressed
  /\ phase' = [phase EXCEPT ![n] = "query"]
  /\ UNCHANGED <<response_count, packets, history>>

(* The timeout of the response phase with addresses to announce.           *)
Announce(n, R) ==
  LET waiting == {m \in Nodes : \/ phase[m] = "response" /\ m # n
                                \/ questions[m] > 0}
      number == announced + 1
  IN  /\ phase[n] = "response" /\ n \in Addressed
      /\ phase' = [phase EXCEPT ![n] = "query"]
      /\ answers' = [m \in Nodes |-> IF m \in R
                                     THEN answers[m] \cup ({number} \X (1..Copies))
                                     ELSE answers[m]]
      /\ announcers' = announcers \cup {n}
      /\ announced' = number
      /\ missed' = missed \cup Coming(n)
                     \cup (IF waiting \subseteq R THEN {} ELSE {number})
      /\ UNCHANGED <<response_count, questions, asked, entered>>

(* Mutants of Enough: one announcement too many, and one too few.          *)
EnoughLater(count) == count > Cutoff
EnoughEarlier(count) == count >= Cutoff - 1

(* When a node waiting to answer gives up.                                 *)
Enough(count) == count >= Cutoff

(* A copy of an announcement, counted by who waits to answer.              *)
HearAnswer(n, x) ==
  /\ x \in answers[n]
  /\ answers' = [answers EXCEPT ![n] = @ \ {x}]
  /\ \/ /\ phase[n] = "response"
        /\ response_count' = [response_count EXCEPT ![n] = @ + 1]
        /\ phase' = IF Enough(response_count[n] + 1)
                    THEN [phase EXCEPT ![n] = "query"] ELSE phase
     \/ phase[n] = "query" /\ UNCHANGED senders
  /\ missed' = IF questions[n] > 0 THEN missed \cup {x[1]} ELSE missed
  /\ UNCHANGED <<questions, asked, entered, announcers, announced>>
-----------------------------------------------------------------------------
Init ==
  /\ phase = [n \in Nodes |-> "query"]
  /\ response_count = [n \in Nodes |-> 0]
  /\ questions = [n \in Nodes |-> 0]
  /\ answers = [n \in Nodes |-> {}]
  /\ asked = 0 /\ entered = {} /\ announcers = {}
  /\ announced = 0 /\ missed = {}

Next ==
  \E n \in Nodes :
    \/ \E R \in Receivers : Ask(n, R) \/ Announce(n, R)
    \/ HearQuestion(n)
    \/ \E x \in answers[n] : HearAnswer(n, x)
    \/ AnswerUncounted(n)

Spec == Init /\ [][Next]_vars
-----------------------------------------------------------------------------
(* The variables stay in their ranges; no node waits on with enough        *)
(* announcements heard, nor hears more than were made.                     *)
SwarmTypeOK ==
  /\ phase \in [Nodes -> {"query", "response"}]
  /\ response_count \in [Nodes -> Nat]
  /\ questions \in [Nodes -> Nat]
  /\ asked \in Nat /\ announced \in Nat
  /\ answers \in [Nodes -> SUBSET ((1..announced) \X (1..Copies))]
  /\ missed \subseteq 1..announced
  /\ entered \subseteq Nodes /\ announcers \subseteq Nodes
  /\ \A n \in In("response") :
       /\ response_count[n] < Cutoff
       /\ response_count[n] + Cardinality(answers[n]) <= Copies * announced

(* However large the swarm is, in whatever order the timers run out and    *)
(* however the rounds of the nodes overlap, a question is answered by at   *)
(* most `cutoff` announcements, and by one more for each that was missed:  *)
(* the bandwidth of the swarm does not grow with it (README, sender).      *)
RateBounded == announced <= Cutoff * asked + Cardinality(missed)

(* Nor does the swarm fall silent: of the nodes with addresses that took   *)
(* up a question, all or at least `cutoff` announced themselves when the   *)
(* last is done, however many messages were lost; the updater's grace      *)
(* period rests on min(swarmsize, ceil(tau * phi)) answers per cadence.    *)
SteadyFlow ==
  In("response") = {} =>
    \/ announced >= Cutoff
    \/ entered \cap Addressed \subseteq announcers
=============================================================================
