----------------------------- MODULE SwarmProofs ----------------------------
(***************************************************************************)
(* What is true of swarms of any size, for any cutoff, whatever packets    *)
(* are lost and however late the others arrive: the number of              *)
(* announcements per question is bounded from above, and where nobody      *)
(* counts an announcement twice also from below.                           *)
(***************************************************************************)
EXTENDS Swarm, FiniteSetTheorems, TLAPS

(* The announcements that a node waiting to answer still counts on, and    *)
(* those that were missed.                                                 *)
Reach(n) == Coming(n) \cup missed

(* What is left to be announced before n is done: it has counted all the   *)
(* announcements of the rounds before the last question, but those it can  *)
(* count yet and those that were missed; so will who is still to be asked. *)
RateInv ==
  /\ RateBounded
  /\ \A n \in In("response") :
       announced + Cutoff <=
         Cutoff * asked + response_count[n] + Cardinality(Reach(n))
  /\ \A n \in Nodes : questions[n] > 0 =>
       announced + Cutoff <= Cutoff * asked + Cardinality(Reach(n))

(* A node that took up a question is still at it, or somebody answered.    *)
FlowInv ==
  \/ Copies * announced >= Cutoff
  \/ \A n \in entered \cap Addressed : n \in announcers \/ phase[n] = "response"
-----------------------------------------------------------------------------
(* Sizes.                                                                  *)

LEMMA Product ==
  ASSUME NEW a \in Nat, NEW b \in Nat
  PROVE  a * b \in Nat /\ 0 <= a * b /\ a * (b + 1) = a * b + a
OBVIOUS

(* There are Copies of each announcement.                                  *)
LEMMA PacketSets ==
  ASSUME NEW a \in Nat, NEW S \in SUBSET ((1..a) \X (1..Copies))
  PROVE  /\ IsFiniteSet(S) /\ Cardinality(S) \in Nat
         /\ Cardinality(S) <= Copies * a
  <1>1. Copies \in Nat \ {0}
    BY SwarmAssumption
  <1>2. /\ IsFiniteSet(1..a) /\ Cardinality(1..a) = a
        /\ IsFiniteSet(1..Copies) /\ Cardinality(1..Copies) = Copies
    BY <1>1, FS_Interval
  <1>3. /\ IsFiniteSet((1..a) \X (1..Copies))
        /\ Cardinality((1..a) \X (1..Copies)) = a * Copies
    BY <1>2, FS_Product
  <1>4. IsFiniteSet(S) /\ Cardinality(S) <= a * Copies
    BY <1>3, FS_Subset
  <1>5. a * Copies = Copies * a
    BY <1>1
  <1> QED BY <1>4, <1>5, FS_CardinalityType

(* One more announcement adds that many.                                   *)
LEMMA MorePackets ==
  ASSUME NEW a \in Nat, NEW S \in SUBSET ((1..a) \X (1..Copies)), NEW k \in Nat
  PROVE  LET T == S \cup ({k} \X (1..Copies))
         IN  Cardinality(T) <= Cardinality(S) + Copies /\ Cardinality(T) \in Nat
  <1> DEFINE U == {k} \X (1..Copies)
  <1>1. Copies \in Nat \ {0}
    BY SwarmAssumption
  <1>2. IsFiniteSet(1..Copies) /\ Cardinality(1..Copies) = Copies
    BY <1>1, FS_Interval
  <1>3. IsFiniteSet(U) /\ Cardinality(U) = 1 * Copies
    <2>1. IsFiniteSet({k}) /\ Cardinality({k}) = 1
      BY FS_Singleton
    <2>2. IsFiniteSet(U) /\ Cardinality(U) = Cardinality({k}) * Cardinality(1..Copies)
      BY <1>2, <2>1, FS_Product
    <2> QED BY <1>2, <2>1, <2>2
  <1>4. IsFiniteSet(S) /\ Cardinality(S) \in Nat
    BY PacketSets
  <1> HIDE DEF U
  <1>5. /\ IsFiniteSet(S \cup U)
        /\ Cardinality(S \cup U) = Cardinality(S) + Cardinality(U) - Cardinality(S \cap U)
    BY <1>3, <1>4, FS_Union
  <1>6. Cardinality(S \cap U) \in Nat /\ Cardinality(S \cup U) \in Nat
    BY <1>4, <1>5, FS_Intersection, FS_CardinalityType
  <1>7. Cardinality(S \cup U) <= Cardinality(S) + Copies
    BY <1>1, <1>3, <1>4, <1>5, <1>6
  <1> QED BY <1>6, <1>7 DEF U

LEMMA FewerPackets ==
  ASSUME NEW a \in Nat, NEW S \in SUBSET ((1..a) \X (1..Copies)), NEW x \in S
  PROVE  Cardinality(S \ {x}) = Cardinality(S) - 1 /\ Cardinality(S) \in Nat
BY PacketSets, FS_RemoveElement

(* Sets of announcements.                                                  *)
LEMMA NumberSets ==
  ASSUME NEW a \in Nat, NEW S \in SUBSET (1..a)
  PROVE  IsFiniteSet(S) /\ Cardinality(S) \in Nat
  <1>1. IsFiniteSet(1..a)
    BY FS_Interval
  <1>2. IsFiniteSet(S)
    BY <1>1, FS_Subset
  <1> QED BY <1>2, FS_CardinalityType

LEMMA NumberSubset ==
  ASSUME NEW a \in Nat, NEW S \in SUBSET (1..a), NEW T \in SUBSET S
  PROVE  Cardinality(T) <= Cardinality(S)
BY NumberSets, FS_Subset

LEMMA ReachType ==
  ASSUME SwarmTypeOK, NEW n \in Nodes
  PROVE  /\ Coming(n) \subseteq 1..announced /\ Reach(n) \subseteq 1..announced
         /\ Cardinality(Reach(n)) \in Nat /\ Cardinality(missed) \in Nat
  <1>1. answers[n] \subseteq (1..announced) \X (1..Copies) /\ announced \in Nat
        /\ missed \subseteq 1..announced
    BY DEF SwarmTypeOK
  <1>2. Coming(n) \subseteq 1..announced
    BY <1>1 DEF Coming
  <1> QED BY <1>1, <1>2, NumberSets DEF Reach
-----------------------------------------------------------------------------
(* One step of each kind keeps the variables in their ranges.              *)
LEMMA TypeInit == Init => SwarmTypeOK
BY SwarmAssumption DEF Init, SwarmTypeOK, In

LEMMA ReceiversType ==
  ASSUME NEW R \in Receivers
  PROVE  R \subseteq Nodes
BY DEF Receivers

(* A response phase begins.                                                *)
LEMMA StartFacts ==
  ASSUME SwarmTypeOK, NEW n \in Nodes, StartResponse(n)
  PROVE  /\ phase' \in [Nodes -> {"query", "response"}]
         /\ response_count' \in [Nodes -> Nat]
         /\ response_count'[n] = 0 /\ phase'[n] = "response"
         /\ \A m \in Nodes : m # n => /\ phase'[m] = phase[m]
                                      /\ response_count'[m] = response_count[m]
BY DEF SwarmTypeOK, StartResponse

LEMMA AskType ==
  ASSUME SwarmTypeOK, NEW n \in Nodes, NEW R \in Receivers, Ask(n, R)
  PROVE  SwarmTypeOK'
  <1>1. /\ Copies \in Nat \ {0} /\ Cutoff \in Nat \ {0} /\ announced \in Nat /\ asked \in Nat
        /\ questions \in [Nodes -> Nat]
    BY SwarmAssumption DEF SwarmTypeOK
  <1>2. /\ StartResponse(n) /\ answers' = answers
        /\ questions' \in [Nodes -> Nat]
    BY <1>1 DEF Ask
  <1>3. CASE Quiet
    <2>1. /\ asked' = 1 /\ entered' = {n} /\ announcers' = {} /\ announced' = 0
          /\ missed' = {}
      BY <1>3 DEF Ask
    <2>2. answers' \in [Nodes -> SUBSET ((1..announced') \X (1..Copies))]
      BY <1>2, <1>3 DEF Quiet, SwarmTypeOK
    <2>3. ASSUME NEW m \in In("response")'
          PROVE  /\ response_count'[m] < Cutoff
                 /\ response_count'[m] + Cardinality(answers'[m]) <= Copies * announced'
      <3>1. m = n /\ response_count'[m] = 0
        BY <1>2, <1>3, <2>3, StartFacts DEF Quiet, In
      <3>2. Cardinality(answers'[m]) = 0
        BY <1>2, <1>3, <3>1, FS_EmptySet DEF Quiet
      <3> QED BY <1>1, <2>1, <3>1, <3>2
    <2> QED BY <1>2, <2>1, <2>2, <2>3, StartFacts DEF SwarmTypeOK
  <1>4. CASE ~Quiet
    <2>1. /\ asked' = asked + 1 /\ entered' = entered \cup {n}
          /\ UNCHANGED <<announcers, announced, missed>>
      BY <1>4 DEF Ask
    <2>2. ASSUME NEW m \in In("response")'
          PROVE  /\ response_count'[m] < Cutoff
                 /\ response_count'[m] + Cardinality(answers'[m]) <= Copies * announced'
      <3>1. m \in Nodes /\ answers[m] \in SUBSET ((1..announced) \X (1..Copies))
        BY <2>2 DEF In, SwarmTypeOK
      <3>2. CASE m = n
        <4>1. response_count'[m] = 0
          BY <1>2, <3>2, StartFacts
        <4>2. Cardinality(answers[m]) \in Nat /\ Cardinality(answers[m]) <= Copies * announced
          BY <1>1, <3>1, PacketSets
        <4> QED BY <1>1, <1>2, <2>1, <4>1, <4>2
      <3>3. CASE m # n
        BY <1>2, <2>1, <2>2, <3>1, <3>3, StartFacts DEF In, SwarmTypeOK
      <3> QED BY <3>2, <3>3
    <2> QED BY <1>1, <1>2, <2>1, <2>2, StartFacts DEF SwarmTypeOK
  <1> QED BY <1>3, <1>4

LEMMA HearQuestionType ==
  ASSUME SwarmTypeOK, NEW n \in Nodes, HearQuestion(n)
  PROVE  SwarmTypeOK'
  <1>1. /\ Copies \in Nat \ {0} /\ Cutoff \in Nat \ {0} /\ announced \in Nat
        /\ questions \in [Nodes -> Nat]
    BY SwarmAssumption DEF SwarmTypeOK
  <1>2. /\ UNCHANGED <<answers, asked, announcers, announced, missed>>
        /\ questions' \in [Nodes -> Nat]
    BY <1>1 DEF HearQuestion
  <1>3. CASE phase[n] = "query"
    <2>1. StartResponse(n) /\ entered' = entered \cup {n}
      BY <1>3 DEF HearQuestion
    <2>2. ASSUME NEW m \in In("response")'
          PROVE  /\ response_count'[m] < Cutoff
                 /\ response_count'[m] + Cardinality(answers'[m]) <= Copies * announced'
      <3>1. m \in Nodes /\ answers[m] \in SUBSET ((1..announced) \X (1..Copies))
        BY <2>2 DEF In, SwarmTypeOK
      <3>2. CASE m = n
        <4>1. response_count'[m] = 0
          BY <2>1, <3>2, StartFacts
        <4>2. Cardinality(answers[m]) \in Nat /\ Cardinality(answers[m]) <= Copies * announced
          BY <1>1, <3>1, PacketSets
        <4> QED BY <1>1, <1>2, <4>1, <4>2
      <3>3. CASE m # n
        BY <1>2, <2>1, <2>2, <3>1, <3>3, StartFacts DEF In, SwarmTypeOK
      <3> QED BY <3>2, <3>3
    <2> QED BY <1>2, <2>1, <2>2, StartFacts DEF SwarmTypeOK
  <1>4. CASE phase[n] # "query"
    <2>1. UNCHANGED <<phase, response_count, entered>>
      BY <1>4 DEF HearQuestion, senders
    <2> QED BY <1>2, <2>1 DEF SwarmTypeOK, In
  <1> QED BY <1>3, <1>4

LEMMA AnswerType ==
  ASSUME SwarmTypeOK, NEW n \in Nodes, AnswerUncounted(n)
  PROVE  SwarmTypeOK'
  <1>1. phase' \in [Nodes -> {"query", "response"}]
    BY DEF SwarmTypeOK, AnswerUncounted
  <1>2. In("response")' \subseteq In("response")
    BY DEF SwarmTypeOK, AnswerUncounted, In
  <1> QED BY <1>1, <1>2 DEF SwarmTypeOK, AnswerUncounted, packets, history

(* n has announced itself; it does not wait any more, the others do.       *)
LEMMA AnnounceFacts ==
  ASSUME SwarmTypeOK, NEW n \in Nodes, NEW R \in Receivers, Announce(n, R)
  PROVE  /\ phase' \in [Nodes -> {"query", "response"}]
         /\ phase'[n] = "query"
         /\ In("response")' = In("response") \ {n}
         /\ \A m \in Nodes :
              /\ m \in R => answers'[m] = answers[m] \cup ({announced + 1} \X (1..Copies))
              /\ m \notin R => answers'[m] = answers[m]
BY DEF SwarmTypeOK, Announce, In

LEMMA AnnounceType ==
  ASSUME SwarmTypeOK, NEW n \in Nodes, NEW R \in Receivers, Announce(n, R)
  PROVE  SwarmTypeOK'
  <1>1. /\ Copies \in Nat \ {0} /\ announced \in Nat /\ announced' = announced + 1
        /\ UNCHANGED <<response_count, questions, asked, entered>>
        /\ announcers' = announcers \cup {n}
    BY SwarmAssumption DEF SwarmTypeOK, Announce
  <1>2. 1..announced \subseteq 1..announced' /\ announced' \in 1..announced'
    BY <1>1
  <1> DEFINE new == {announced + 1} \X (1..Copies)
  <1>3. \A m \in Nodes : /\ m \in R => answers'[m] = answers[m] \cup new
                         /\ m \notin R => answers'[m] = answers[m]
    BY AnnounceFacts
  <1>4. new \subseteq (1..announced') \X (1..Copies)
    BY <1>1, <1>2
  <1>5. ASSUME NEW S \in SUBSET ((1..announced) \X (1..Copies))
        PROVE  /\ Cardinality(S \cup new) <= Cardinality(S) + Copies
               /\ Cardinality(S \cup new) \in Nat
    BY <1>1, MorePackets
  <1> HIDE DEF new
  <1>6. ASSUME NEW m \in Nodes
        PROVE  answers'[m] \in SUBSET ((1..announced') \X (1..Copies))
    <2>1. answers[m] \subseteq (1..announced) \X (1..Copies)
      BY DEF SwarmTypeOK
    <2>2. answers[m] \subseteq (1..announced') \X (1..Copies)
      BY <1>2, <2>1
    <2> QED BY <1>3, <1>4, <2>2
  <1>7. answers' \in [Nodes -> SUBSET ((1..announced') \X (1..Copies))]
    <2>1. answers' = [m \in Nodes |-> answers'[m]]
      BY DEF Announce
    <2> QED BY <1>6, <2>1
  <1>8. missed' \subseteq 1..announced'
    BY <1>1, <1>2, ReachType DEF Announce, SwarmTypeOK
  <1>9. ASSUME NEW m \in In("response")'
        PROVE  /\ response_count'[m] < Cutoff
               /\ response_count'[m] + Cardinality(answers'[m]) <= Copies * announced'
    <2>1. m \in In("response") /\ m \in Nodes
      BY <1>9, AnnounceFacts DEF In
    <2>2. /\ answers[m] \in SUBSET ((1..announced) \X (1..Copies))
          /\ response_count[m] \in Nat /\ response_count[m] < Cutoff
          /\ response_count[m] + Cardinality(answers[m]) <= Copies * announced
      BY <2>1 DEF SwarmTypeOK
    <2>3. Cardinality(answers[m]) \in Nat /\ Copies * announced \in Nat
          /\ Copies * announced' = Copies * announced + Copies
      BY <1>1, <2>2, PacketSets, Product
    <2>4. /\ Cardinality(answers'[m]) <= Cardinality(answers[m]) + Copies
          /\ Cardinality(answers'[m]) \in Nat
      <3>1. CASE m \in R
        BY <1>3, <1>5, <2>1, <2>2, <3>1
      <3>2. CASE m \notin R
        BY <1>3, <1>1, <2>1, <2>3, <3>2
      <3> QED BY <3>1, <3>2
    <2> QED BY <1>1, <2>2, <2>3, <2>4
  <1> QED BY <1>1, <1>7, <1>8, <1>9, AnnounceFacts DEF SwarmTypeOK

(* One copy arrives at n, who counts it or gives up if it waits.           *)
LEMMA HearFacts ==
  ASSUME SwarmTypeOK, NEW n \in Nodes, NEW x \in answers[n], HearAnswer(n, x)
  PROVE  /\ phase' \in [Nodes -> {"query", "response"}]
         /\ response_count' \in [Nodes -> Nat]
         /\ answers'[n] = answers[n] \ {x}
         /\ \A m \in Nodes : m # n => /\ phase'[m] = phase[m]
                                      /\ response_count'[m] = response_count[m]
                                      /\ answers'[m] = answers[m]
         /\ phase'[n] = "response" =>
              /\ phase[n] = "response"
              /\ response_count'[n] = response_count[n] + 1
              /\ response_count'[n] < Cutoff
         /\ phase'[n] # "response" /\ phase[n] = "response" =>
              response_count[n] + 1 >= Cutoff
  <1>1. response_count[n] \in Nat /\ Cutoff \in Nat
    BY SwarmAssumption DEF SwarmTypeOK
  <1>2. CASE phase[n] = "response"
    <2>1. /\ response_count' = [response_count EXCEPT ![n] = @ + 1]
          /\ phase' = IF Enough(response_count[n] + 1)
                      THEN [phase EXCEPT ![n] = "query"] ELSE phase
      BY <1>2 DEF HearAnswer
    <2>2. answers' = [answers EXCEPT ![n] = @ \ {x}]
      BY DEF HearAnswer
    <2> QED BY <1>1, <1>2, <2>1, <2>2 DEF SwarmTypeOK, Enough
  <1>3. CASE phase[n] # "response"
    BY <1>3 DEF HearAnswer, SwarmTypeOK, senders
  <1> QED BY <1>2, <1>3

LEMMA HearAnswerType ==
  ASSUME SwarmTypeOK, NEW n \in Nodes, NEW x \in answers[n], HearAnswer(n, x)
  PROVE  SwarmTypeOK'
  <1>1. UNCHANGED <<questions, asked, entered, announcers, announced>>
    BY DEF HearAnswer
  <1>2. /\ answers[n] \in SUBSET ((1..announced) \X (1..Copies)) /\ announced \in Nat
    BY DEF SwarmTypeOK
  <1>3. missed' \subseteq 1..announced'
    BY <1>1, <1>2 DEF HearAnswer, SwarmTypeOK
  <1>4. answers' \in [Nodes -> SUBSET ((1..announced') \X (1..Copies))]
    BY <1>1, <1>2 DEF HearAnswer, SwarmTypeOK
  <1>5. ASSUME NEW m \in In("response")'
        PROVE  /\ response_count'[m] < Cutoff
               /\ response_count'[m] + Cardinality(answers'[m]) <= Copies * announced'
    <2>1. m \in Nodes /\ phase'[m] = "response" /\ m \in In("response")
      BY <1>5, HearFacts DEF In
    <2>2. /\ response_count[m] < Cutoff /\ response_count[m] \in Nat
          /\ response_count[m] + Cardinality(answers[m]) <= Copies * announced
      BY <2>1 DEF SwarmTypeOK
    <2>3. CASE m = n
      <3>1. Cardinality(answers'[n]) = Cardinality(answers[n]) - 1
            /\ Cardinality(answers[n]) \in Nat
        BY <1>2, HearFacts, FewerPackets
      <3>2. response_count'[n] = response_count[n] + 1 /\ response_count'[n] < Cutoff
        BY <2>1, <2>3, HearFacts
      <3> QED BY <1>1, <2>2, <2>3, <3>1, <3>2
    <2>4. CASE m # n
      BY <1>1, <2>1, <2>2, <2>4, HearFacts
    <2> QED BY <2>3, <2>4
  <1> QED BY <1>1, <1>3, <1>4, <1>5, HearFacts DEF SwarmTypeOK

LEMMA TypeStep == SwarmTypeOK /\ [Next]_vars => SwarmTypeOK'
  <1> SUFFICES ASSUME SwarmTypeOK, [Next]_vars PROVE SwarmTypeOK'
    OBVIOUS
  <1>1. CASE UNCHANGED vars
    BY <1>1 DEF SwarmTypeOK, vars, senders, packets, history, In
  <1>2. CASE Next
    BY <1>2, AskType, AnnounceType, HearQuestionType, HearAnswerType, AnswerType DEF Next
  <1> QED BY <1>1, <1>2

(* Sender: the phases and counts of all senders stay in range, and a count *)
(* never reaches the cutoff without ending the phase.                      *)
THEOREM SwarmType == Spec => []SwarmTypeOK
BY TypeInit, TypeStep, PTL DEF Spec
-----------------------------------------------------------------------------
(* The rate.                                                               *)

(* Reach after a step, where no lemma about states applies.                *)
LEMMA ReachNext ==
  ASSUME SwarmTypeOK', NEW n \in Nodes
  PROVE  /\ Reach(n)' \subseteq 1..announced' /\ announced' \in Nat
         /\ Cardinality(Reach(n)') \in Nat
         /\ missed' \subseteq 1..announced' /\ Cardinality(missed') \in Nat
  <1>1. answers'[n] \subseteq (1..announced') \X (1..Copies) /\ announced' \in Nat
        /\ missed' \subseteq 1..announced'
    BY DEF SwarmTypeOK
  <1>2. Reach(n)' \subseteq 1..announced'
    BY <1>1 DEF Reach, Coming
  <1> QED BY <1>1, <1>2, NumberSets

LEMMA AskRate ==
  ASSUME SwarmTypeOK, RateInv, SwarmTypeOK', NEW n \in Nodes, NEW R \in Receivers,
         Ask(n, R)
  PROVE  RateInv'
  <1>1. /\ Cutoff \in Nat /\ asked \in Nat /\ announced \in Nat
        /\ response_count' \in [Nodes -> Nat]
    BY SwarmAssumption DEF SwarmTypeOK
  <1>2. CASE Quiet
    <2>1. asked' = 1 /\ announced' = 0
      BY <1>2 DEF Ask
    <2>2. Cutoff * asked' = Cutoff
      BY <1>1, <2>1
    <2>3. ASSUME NEW m \in Nodes
          PROVE  /\ Cardinality(Reach(m)') \in Nat /\ Cardinality(missed') \in Nat
                 /\ response_count'[m] \in Nat
      BY <1>1, ReachNext
    <2>4. ASSUME NEW m \in In("response")' PROVE m \in Nodes
      BY DEF In
    <2>5. RateBounded'
      BY <1>1, <2>1, <2>2, <2>3 DEF RateBounded
    <2> QED BY <1>1, <2>1, <2>2, <2>3, <2>4, <2>5 DEF RateInv
  <1>3. CASE ~Quiet
    <2>1. asked' = asked + 1 /\ announced' = announced /\ missed' = missed
          /\ answers' = answers
      BY <1>3 DEF Ask
    <2>2. Cutoff * asked' = Cutoff * asked + Cutoff /\ Cutoff * asked \in Nat
      BY <1>1, <2>1
    <2>3. announced <= Cutoff * asked + Cardinality(missed) /\ Cardinality(missed) \in Nat
      BY ReachType DEF RateInv, RateBounded
    <2>4. ASSUME NEW m \in Nodes
          PROVE  /\ announced' + Cutoff <= Cutoff * asked' + Cardinality(Reach(m)')
                 /\ Cardinality(Reach(m)') \in Nat /\ response_count'[m] \in Nat
      <3>1. Reach(m)' = Reach(m)
        BY <2>1 DEF Reach, Coming
      <3>2. Cardinality(missed) <= Cardinality(Reach(m)) /\ Cardinality(Reach(m)) \in Nat
        BY <1>1, ReachType, NumberSubset DEF Reach
      <3> QED BY <1>1, <2>1, <2>2, <2>3, <3>1, <3>2
    <2>5. ASSUME NEW m \in In("response")' PROVE m \in Nodes
      BY DEF In
    <2>6. RateBounded'
      BY <1>1, <2>1, <2>2, <2>3 DEF RateBounded
    <2>7. Cutoff * asked' \in Nat /\ announced' \in Nat
      BY <1>1, <2>1, <2>2
    <2> QED BY <1>1, <2>4, <2>5, <2>6, <2>7 DEF RateInv
  <1> QED BY <1>2, <1>3

LEMMA HearQuestionRate ==
  ASSUME SwarmTypeOK, RateInv, NEW n \in Nodes, HearQuestion(n)
  PROVE  RateInv'
  <1>1. UNCHANGED <<answers, asked, announced, missed>> /\ questions[n] > 0
    BY DEF HearQuestion
  <1>2. \A m \in Nodes : Reach(m)' = Reach(m)
    BY <1>1 DEF Reach, Coming
  <1>3. ASSUME NEW m \in Nodes, questions'[m] > 0 PROVE questions[m] > 0
    BY <1>1, <1>3 DEF HearQuestion, SwarmTypeOK
  <1>4. ASSUME NEW m \in In("response")'
        PROVE  announced + Cutoff <=
                 Cutoff * asked + response_count'[m] + Cardinality(Reach(m))
    <2>1. m \in Nodes /\ phase'[m] = "response"
      BY DEF In
    <2>2. CASE StartResponse(n) /\ m = n
      <3>1. response_count'[m] = 0
        BY <2>2, StartFacts
      <3>2. announced + Cutoff <= Cutoff * asked + Cardinality(Reach(m))
        BY <1>1, <2>2 DEF RateInv
      <3>3. Cutoff * asked \in Nat /\ Cardinality(Reach(m)) \in Nat
        BY <2>1, ReachType, SwarmAssumption, Product DEF SwarmTypeOK
      <3> QED BY <3>1, <3>2, <3>3
    <2>3. CASE ~(StartResponse(n) /\ m = n)
      <3>1. m \in In("response") /\ response_count'[m] = response_count[m]
        BY <2>1, <2>3, StartFacts DEF HearQuestion, In, senders
      <3> QED BY <3>1 DEF RateInv
    <2> QED BY <2>2, <2>3
  <1>5. RateBounded'
    BY <1>1 DEF RateInv, RateBounded
  <1>6. \A m \in In("response")' : m \in Nodes
    BY DEF In
  <1>7. \A m \in In("response")' :
          announced' + Cutoff <=
            Cutoff * asked' + response_count'[m] + Cardinality(Reach(m)')
    BY <1>1, <1>2, <1>4, <1>6
  <1>8. \A m \in Nodes : questions'[m] > 0 =>
          announced' + Cutoff <= Cutoff * asked' + Cardinality(Reach(m)')
    BY <1>1, <1>2, <1>3 DEF RateInv
  <1> QED BY <1>5, <1>7, <1>8 DEF RateInv

LEMMA AnswerRate ==
  ASSUME SwarmTypeOK, RateInv, NEW n \in Nodes, AnswerUncounted(n)
  PROVE  RateInv'
  <1>1. In("response")' \subseteq In("response")
    BY DEF SwarmTypeOK, AnswerUncounted, In
  <1>2. UNCHANGED <<questions, response_count, answers, asked, announced, missed>>
    BY DEF AnswerUncounted, packets, history
  <1>3. \A m \in Nodes : Reach(m)' = Reach(m)
    BY <1>2 DEF Reach, Coming
  <1>4. In("response")' \subseteq Nodes
    BY DEF In
  <1> QED BY <1>1, <1>2, <1>3, <1>4 DEF RateInv, RateBounded

(* The new announcement is on its way to whoever must know of it, or       *)
(* missed; what n had yet to hear of is missed.                            *)
LEMMA AnnounceReach ==
  ASSUME SwarmTypeOK, SwarmTypeOK', NEW n \in Nodes, NEW R \in Receivers, Announce(n, R)
  PROVE  /\ Cardinality(Reach(n)) <= Cardinality(missed')
         /\ \A m \in Nodes :
              m \in In("response")' \/ questions'[m] > 0 =>
                Cardinality(Reach(m)) + 1 <= Cardinality(Reach(m)')
  <1> DEFINE k == announced + 1
  <1>1. announced \in Nat /\ announced' = k /\ questions' = questions
    BY DEF SwarmTypeOK, Announce
  <1>2. Reach(n) \subseteq missed' /\ missed \subseteq missed'
    BY DEF Announce, Reach
  <1>3. Cardinality(Reach(n)) <= Cardinality(missed')
    BY <1>2, ReachNext, NumberSubset
  <1>4. ASSUME NEW m \in Nodes, m \in In("response")' \/ questions'[m] > 0
        PROVE  Cardinality(Reach(m)) + 1 <= Cardinality(Reach(m)')
    <2>1. k \notin Reach(m) /\ IsFiniteSet(Reach(m)) /\ Cardinality(Reach(m)) \in Nat
      <3>1. /\ Reach(m) \subseteq 1..announced
            /\ Cardinality(Reach(m)) \in Nat
        BY ReachType
      <3>2. k \notin 1..announced
        BY <1>1
      <3>3. IsFiniteSet(Reach(m))
        BY <1>1, <3>1, NumberSets
      <3> QED BY <3>1, <3>2, <3>3
    <2>2. answers[m] \subseteq answers'[m]
      BY AnnounceFacts
    <2>3. Reach(m) \subseteq Reach(m)'
      BY <1>2, <2>2 DEF Reach, Coming
    <2>4. k \in Reach(m)'
      <3>1. CASE m \in R
        <4>1. <<k, 1>> \in answers'[m]
          <5>1. 1 \in 1..Copies
            BY SwarmAssumption
          <5> QED BY <3>1, <5>1, AnnounceFacts
        <4> QED BY <4>1 DEF Reach, Coming
      <3>2. CASE m \notin R
        <4>1. \/ phase[m] = "response" /\ m # n
              \/ questions[m] > 0
          BY <1>1, <1>4, AnnounceFacts DEF In
        <4>2. k \in missed'
          BY <3>2, <4>1 DEF Announce
        <4> QED BY <4>2 DEF Reach
      <3> QED BY <3>1, <3>2
    <2>5. Reach(m) \cup {k} \subseteq Reach(m)'
      BY <2>3, <2>4
    <2>6. Cardinality(Reach(m) \cup {k}) = Cardinality(Reach(m)) + 1
      BY <2>1, FS_AddElement
    <2>7. Cardinality(Reach(m) \cup {k}) <= Cardinality(Reach(m)')
      BY <2>5, ReachNext, NumberSubset
    <2> QED BY <2>6, <2>7
  <1> QED BY <1>3, <1>4

LEMMA AnnounceRate ==
  ASSUME SwarmTypeOK, RateInv, SwarmTypeOK', NEW n \in Nodes, NEW R \in Receivers,
         Announce(n, R)
  PROVE  RateInv'
  <1> DEFINE K == Cutoff * asked
  <1>1. /\ Cutoff \in Nat \ {0} /\ K \in Nat /\ announced \in Nat
        /\ announced' = announced + 1
        /\ UNCHANGED <<asked, questions, response_count>>
    BY SwarmAssumption, Product DEF SwarmTypeOK, Announce
  <1> HIDE DEF K
  <1>2. announced' <= K + Cardinality(missed')
    <2>1. n \in In("response")
      BY DEF Announce, In
    <2>2. /\ announced + Cutoff <= K + response_count[n] + Cardinality(Reach(n))
          /\ response_count[n] \in Nat /\ response_count[n] < Cutoff
      BY <2>1 DEF RateInv, SwarmTypeOK, K
    <2>3. /\ Cardinality(Reach(n)) <= Cardinality(missed')
          /\ Cardinality(Reach(n)) \in Nat /\ Cardinality(missed') \in Nat
      BY AnnounceReach, ReachType, ReachNext
    <2> QED BY <1>1, <2>2, <2>3
  <1>3. ASSUME NEW m \in Nodes
        PROVE  /\ m \in In("response")' =>
                    announced' + Cutoff <= K + response_count[m] + Cardinality(Reach(m)')
               /\ questions[m] > 0 =>
                    announced' + Cutoff <= K + Cardinality(Reach(m)')
    <2>1. /\ m \in In("response")' => m \in In("response")
          /\ m \in In("response")' \/ questions[m] > 0 =>
               Cardinality(Reach(m)) + 1 <= Cardinality(Reach(m)')
      BY <1>1, AnnounceFacts, AnnounceReach
    <2>2. /\ m \in In("response") =>
               announced + Cutoff <= K + response_count[m] + Cardinality(Reach(m))
          /\ questions[m] > 0 =>
               announced + Cutoff <= K + Cardinality(Reach(m))
      BY DEF RateInv, K
    <2>3. /\ Cardinality(Reach(m)) \in Nat /\ Cardinality(Reach(m)') \in Nat
          /\ response_count[m] \in Nat
      BY ReachType, ReachNext DEF SwarmTypeOK
    <2> QED BY <1>1, <2>1, <2>2, <2>3
  <1>4. In("response")' \subseteq Nodes
    BY DEF In
  <1>5. RateBounded'
    BY <1>1, <1>2 DEF RateBounded, K
  <1> QED BY <1>1, <1>3, <1>4, <1>5 DEF RateInv, K

(* What n has heard of it counts, or has missed if it is still to be asked. *)
LEMMA HearReach ==
  ASSUME SwarmTypeOK, SwarmTypeOK', NEW n \in Nodes, NEW x \in answers[n],
         HearAnswer(n, x), NEW m \in Nodes
  PROVE  /\ Cardinality(Reach(m)) <= Cardinality(Reach(m)') + 1
         /\ m # n \/ questions[m] > 0 => Cardinality(Reach(m)) <= Cardinality(Reach(m)')
  <1>1. announced' = announced /\ announced \in Nat /\ missed \subseteq missed'
    BY DEF HearAnswer, SwarmTypeOK
  <1>2. Reach(m) \subseteq 1..announced /\ Reach(m)' \subseteq 1..announced
        /\ Cardinality(Reach(m)) \in Nat /\ Cardinality(Reach(m)') \in Nat
    BY <1>1, ReachType, ReachNext
  <1>3. answers[m] \subseteq answers'[m] \cup {x} /\ (m # n => answers[m] = answers'[m])
    BY HearFacts
  <1>4. Reach(m) \subseteq Reach(m)' \cup {x[1]}
    BY <1>1, <1>3 DEF Reach, Coming
  <1>5. ASSUME m # n \/ questions[m] > 0 PROVE Reach(m) \subseteq Reach(m)'
    <2>1. CASE m # n
      BY <1>1, <1>3, <2>1 DEF Reach, Coming
    <2>2. CASE m = n
      <3>1. x[1] \in missed'
        BY <1>5, <2>2 DEF HearAnswer
      <3> QED BY <1>4, <3>1 DEF Reach
    <2> QED BY <2>1, <2>2
  <1>6. x[1] \in 1..announced
    BY DEF SwarmTypeOK
  <1>7. Cardinality(Reach(m)) <= Cardinality(Reach(m)' \cup {x[1]})
    BY <1>1, <1>2, <1>4, <1>6, NumberSubset
  <1>8. IsFiniteSet(Reach(m)')
    BY <1>1, <1>2, NumberSets
  <1>9. Cardinality(Reach(m)' \cup {x[1]}) <= Cardinality(Reach(m)') + 1
    <2> DEFINE S == Reach(m)'
    <2>1. Cardinality(S) \in Nat
      BY <1>2
    <2> HIDE DEF S
    <2>2. CASE x[1] \in S
      <3>1. S \cup {x[1]} = S
        BY <2>2
      <3> QED BY <2>1, <3>1 DEF S
    <2>3. CASE x[1] \notin S
      <3>1. Cardinality(S \cup {x[1]}) = Cardinality(S) + 1
        BY <1>8, <2>3, FS_AddElement DEF S
      <3> QED BY <2>1, <3>1 DEF S
    <2> QED BY <2>2, <2>3
  <1>10. Cardinality(Reach(m)' \cup {x[1]}) \in Nat
    BY <1>1, <1>2, <1>6, NumberSets
  <1>11. m # n \/ questions[m] > 0 => Cardinality(Reach(m)) <= Cardinality(Reach(m)')
    BY <1>1, <1>2, <1>5, NumberSubset
  <1> QED BY <1>2, <1>7, <1>9, <1>10, <1>11

LEMMA HearAnswerRate ==
  ASSUME SwarmTypeOK, RateInv, SwarmTypeOK', NEW n \in Nodes, NEW x \in answers[n],
         HearAnswer(n, x)
  PROVE  RateInv'
  <1> DEFINE K == Cutoff * asked
  <1>1. /\ Cutoff \in Nat /\ K \in Nat /\ announced \in Nat
        /\ UNCHANGED <<questions, asked, announced>> /\ missed \subseteq missed'
    BY SwarmAssumption, Product DEF SwarmTypeOK, HearAnswer
  <1> HIDE DEF K
  <1>2. announced <= K + Cardinality(missed')
    <2>1. announced <= K + Cardinality(missed)
      BY DEF RateInv, RateBounded, K
    <2>2. /\ Cardinality(missed) <= Cardinality(missed')
          /\ Cardinality(missed) \in Nat /\ Cardinality(missed') \in Nat
      BY <1>1, ReachType, ReachNext, NumberSubset
    <2> QED BY <1>1, <2>1, <2>2
  <1>3. ASSUME NEW m \in Nodes
        PROVE  /\ m \in In("response")' =>
                    announced + Cutoff <= K + response_count'[m] + Cardinality(Reach(m)')
               /\ questions[m] > 0 =>
                    announced + Cutoff <= K + Cardinality(Reach(m)')
    <2>1. /\ Cardinality(Reach(m)) <= Cardinality(Reach(m)') + 1
          /\ m # n \/ questions[m] > 0 => Cardinality(Reach(m)) <= Cardinality(Reach(m)')
      BY HearReach
    <2>2. /\ m \in In("response") =>
               announced + Cutoff <= K + response_count[m] + Cardinality(Reach(m))
          /\ questions[m] > 0 =>
               announced + Cutoff <= K + Cardinality(Reach(m))
      BY DEF RateInv, K
    <2>3. m \in In("response")' =>
            /\ m \in In("response")
            /\ m = n => response_count'[m] = response_count[m] + 1
            /\ m # n => response_count'[m] = response_count[m]
      BY HearFacts DEF In
    <2>4. /\ Cardinality(Reach(m)) \in Nat /\ Cardinality(Reach(m)') \in Nat
          /\ response_count[m] \in Nat
      BY ReachType, ReachNext DEF SwarmTypeOK
    <2>5. CASE m = n
      BY <1>1, <2>1, <2>2, <2>3, <2>4, <2>5
    <2>6. CASE m # n
      BY <1>1, <2>1, <2>2, <2>3, <2>4, <2>6
    <2> QED BY <2>5, <2>6
  <1>4. In("response")' \subseteq Nodes
    BY DEF In
  <1>5. RateBounded'
    BY <1>1, <1>2 DEF RateBounded, K
  <1> QED BY <1>1, <1>3, <1>4, <1>5 DEF RateInv, K

LEMMA RateStep == SwarmTypeOK /\ RateInv /\ SwarmTypeOK' /\ [Next]_vars => RateInv'
  <1> SUFFICES ASSUME SwarmTypeOK, RateInv, SwarmTypeOK', [Next]_vars PROVE RateInv'
    OBVIOUS
  <1>1. CASE UNCHANGED vars
    <2>1. \A m \in Nodes : Reach(m)' = Reach(m)
      BY <1>1 DEF vars, packets, history, Reach, Coming
    <2>2. In("response")' = In("response") /\ In("response") \subseteq Nodes
      BY <1>1 DEF vars, senders, In
    <2> QED BY <1>1, <2>1, <2>2 DEF RateInv, RateBounded, vars, senders, packets, history
  <1>2. CASE Next
    BY <1>2, AskRate, AnnounceRate, HearQuestionRate, HearAnswerRate, AnswerRate DEF Next
  <1> QED BY <1>1, <1>2

(* The swarm's bandwidth: however many nodes there are, however their      *)
(* rounds overlap and however late packets are, at most `cutoff`           *)
(* announcements follow a question, and one more for each announcement     *)
(* that some node missed.                                                  *)
THEOREM SwarmRateBounded == Spec => []RateBounded
  <1>1. Init => RateInv
    <2> SUFFICES ASSUME Init PROVE RateInv
      OBVIOUS
    <2>1. In("response") = {} /\ (\A n \in Nodes : questions[n] = 0)
      BY DEF Init, In
    <2>2. RateBounded
      BY SwarmAssumption, FS_EmptySet DEF Init, RateBounded
    <2> QED BY <2>1, <2>2 DEF RateInv
  <1>2. RateInv => RateBounded
    BY DEF RateInv
  <1> QED BY <1>1, <1>2, RateStep, TypeInit, TypeStep, PTL DEF Spec
-----------------------------------------------------------------------------
(* The flow.                                                               *)

LEMMA AskFlow ==
  ASSUME SwarmTypeOK, FlowInv, NEW n \in Nodes, NEW R \in Receivers, Ask(n, R)
  PROVE  FlowInv'
  <1>1. StartResponse(n) /\ entered \subseteq Nodes
    BY DEF Ask, SwarmTypeOK
  <1>2. CASE Quiet
    BY <1>1, <1>2, StartFacts DEF Ask, FlowInv
  <1>3. CASE ~Quiet
    <2>1. entered' = entered \cup {n} /\ announcers' = announcers /\ announced' = announced
      BY <1>3 DEF Ask
    <2> QED BY <1>1, <2>1, StartFacts DEF FlowInv
  <1> QED BY <1>2, <1>3

LEMMA HearQuestionFlow ==
  ASSUME SwarmTypeOK, FlowInv, NEW n \in Nodes, HearQuestion(n)
  PROVE  FlowInv'
  <1>1. UNCHANGED <<announcers, announced>> /\ entered \subseteq Nodes
    BY DEF HearQuestion, SwarmTypeOK
  <1>2. CASE StartResponse(n) /\ entered' = entered \cup {n}
    BY <1>1, <1>2, StartFacts DEF FlowInv
  <1>3. CASE UNCHANGED <<phase, entered>>
    BY <1>1, <1>3 DEF FlowInv
  <1> QED BY <1>2, <1>3 DEF HearQuestion, senders

LEMMA AnnounceFlow ==
  ASSUME SwarmTypeOK, FlowInv, NEW n \in Nodes, NEW R \in Receivers, Announce(n, R)
  PROVE  FlowInv'
  <1>1. /\ announced \in Nat /\ announced' = announced + 1 /\ Cutoff \in Nat
        /\ Copies \in Nat /\ entered' = entered /\ entered \subseteq Nodes
        /\ announcers' = announcers \cup {n}
    BY SwarmAssumption DEF SwarmTypeOK, Announce
  <1>2. \A m \in Nodes : m # n => phase'[m] = phase[m]
    BY DEF Announce, SwarmTypeOK
  <1>3. CASE Copies * announced >= Cutoff
    <2>1. Copies * announced' = Copies * announced + Copies /\ Copies * announced \in Nat
      BY <1>1, Product
    <2>2. Copies * announced' >= Cutoff
      BY <1>1, <1>3, <2>1
    <2> QED BY <2>2 DEF FlowInv
  <1>4. CASE ~(Copies * announced >= Cutoff)
    BY <1>1, <1>2, <1>4 DEF FlowInv
  <1> QED BY <1>3, <1>4

LEMMA HearAnswerFlow ==
  ASSUME SwarmTypeOK, FlowInv, NEW n \in Nodes, NEW x \in answers[n], HearAnswer(n, x)
  PROVE  FlowInv'
  <1>1. UNCHANGED <<entered, announcers, announced>> /\ entered \subseteq Nodes
    BY DEF HearAnswer, SwarmTypeOK
  <1>2. CASE phase'[n] # "response" /\ phase[n] = "response"
    <2>1. /\ response_count[n] + 1 >= Cutoff /\ response_count[n] \in Nat
          /\ Cutoff \in Nat /\ Copies \in Nat /\ announced \in Nat
          /\ answers[n] \in SUBSET ((1..announced) \X (1..Copies))
      BY <1>2, HearFacts, SwarmAssumption DEF SwarmTypeOK
    <2>2. response_count[n] + Cardinality(answers[n]) <= Copies * announced
      BY <1>2 DEF SwarmTypeOK, In
    <2>3. Cardinality(answers[n]) \in Nat /\ Cardinality(answers[n]) # 0
      <3>1. IsFiniteSet(answers[n]) /\ Cardinality(answers[n]) \in Nat
        BY <2>1, PacketSets
      <3> QED BY <3>1, FS_EmptySet
    <2>4. Copies * announced \in Nat
      BY <2>1, Product
    <2>5. Copies * announced >= Cutoff
      BY <2>1, <2>2, <2>3, <2>4
    <2> QED BY <1>1, <2>5 DEF FlowInv
  <1>3. CASE phase[n] = "response" => phase'[n] = "response"
    BY <1>1, <1>3, HearFacts DEF FlowInv
  <1> QED BY <1>2, <1>3

LEMMA AnswerFlow ==
  ASSUME SwarmTypeOK, FlowInv, NEW n \in Nodes, AnswerUncounted(n)
  PROVE  FlowInv'
  <1>1. \A m \in Nodes : m # n => phase'[m] = phase[m]
    BY DEF SwarmTypeOK, AnswerUncounted
  <1>2. n \notin Addressed /\ entered \subseteq Nodes
    BY DEF AnswerUncounted, SwarmTypeOK
  <1> QED BY <1>1, <1>2 DEF FlowInv, AnswerUncounted, history

LEMMA FlowStep == SwarmTypeOK /\ FlowInv /\ [Next]_vars => FlowInv'
  <1> SUFFICES ASSUME SwarmTypeOK, FlowInv, [Next]_vars PROVE FlowInv'
    OBVIOUS
  <1>1. CASE UNCHANGED vars
    BY <1>1 DEF FlowInv, vars, senders, history
  <1>2. CASE Next
    BY <1>2, AskFlow, AnnounceFlow, HearQuestionFlow, HearAnswerFlow, AnswerFlow DEF Next
  <1> QED BY <1>1, <1>2

(* However often a message is received, and however late: all that took up *)
(* a question announce themselves, or as many as it takes to be counted    *)
(* `cutoff` times.                                                         *)
THEOREM SwarmFlowByCopies ==
  Spec => [](In("response") = {} =>
               \/ Copies * announced >= Cutoff
               \/ entered \cap Addressed \subseteq announcers)
  <1>1. Init => FlowInv
    BY DEF Init, FlowInv
  <1>2. SwarmTypeOK /\ FlowInv =>
          (In("response") = {} => \/ Copies * announced >= Cutoff
                                 \/ entered \cap Addressed \subseteq announcers)
    BY DEF FlowInv, In, SwarmTypeOK
  <1> QED BY <1>1, <1>2, FlowStep, SwarmType, PTL DEF Spec

(* The swarm's liveness signal: where a node receives every announcement   *)
(* once, all the nodes that took up a question announce themselves, or     *)
(* `cutoff` announcements are made, whatever is lost or late.              *)
THEOREM SwarmSteadyFlow ==
  ASSUME Copies = 1
  PROVE  Spec => []SteadyFlow
  <1>1. SwarmTypeOK /\ (In("response") = {} =>
                          \/ Copies * announced >= Cutoff
                          \/ entered \cap Addressed \subseteq announcers)
          => SteadyFlow
    <2>1. announced \in Nat => Copies * announced = announced
      OBVIOUS
    <2> QED BY <2>1 DEF SteadyFlow, SwarmTypeOK
  <1> QED BY <1>1, SwarmType, SwarmFlowByCopies, PTL
=============================================================================
