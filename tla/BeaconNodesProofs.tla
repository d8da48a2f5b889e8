-------------------------- MODULE BeaconNodesProofs --------------------------
(***************************************************************************)
(* Proofs about BeaconNodes, for any number of nodes, any values of their  *)
(* answers and any threshold.                                              *)
(*                                                                         *)
(* The argument: every request of a call is either still running or has a  *)
(* response; the caller has looked at each response or will; and what it   *)
(* has looked at is worth no more than what it keeps. At the end: start-up *)
(* leaves enough nodes, and no call waits for nothing.                     *)
(***************************************************************************)
EXTENDS BeaconNodes, FiniteSetTheorems, WellFoundedInduction, TLAPS

Waiting == {"timed", "next", "gather"}

CallRecord ==
    [kind : Kinds, phase : Waiting \cup Ended, asked : SUBSET Node,
     running : SUBSET Node, accepted : SUBSET Node, arrived : Seq(Response),
     best : Response \cup {NoResponse}, timeUp : BOOLEAN,
     responses : SUBSET Response]

\* The call is a call; which phases its kind goes through.
CallShape ==
    /\ call \in CallRecord
    /\ call.accepted \subseteq call.running /\ call.running \subseteq call.asked
    /\ call.phase = "timed" => call.kind = "block"
    /\ call.phase = "next" => call.kind \notin {"aggregate", "all", "publish"}
    /\ call.phase = "gather" => call.kind \in {"aggregate", "all", "publish"}
    /\ call.phase \in Ended => call.running = {}

\* Every node that was asked is either still running or has responded.
Accounted ==
    /\ IsFiniteSet(call.responses)
    /\ ToSet(call.arrived) \subseteq call.responses
    /\ call.best \in call.responses \cup {NoResponse}
    /\ \A r \in call.responses : r.node \in call.asked
    /\ call.phase \in Waiting =>
           \A n \in call.asked \ call.running : \E r \in call.responses : r.node = n

\* What the caller has looked at is worth no more than what it keeps; in "next" it
\* keeps nothing, and a block that is then still to come is late.
LookedAt ==
    /\ call.phase \in {"timed", "next"} =>
           \A r \in call.responses :
               r.value <= call.best.value \/ r \in ToSet(call.arrived)
    /\ call.phase = "next" => call.best.value = Failed
    /\ (call.phase = "next" /\ call.kind = "block") =>
           /\ call.timeUp
           /\ \A r \in call.responses : r.inTime => r.value = Failed

\* When the services ask, there is a node to ask.
NodesReady ==
    /\ initTask \in [Main -> {"first", "waiting", "retrying", "done"}]
    /\ initialized = {n \in Main : initTask[n] = "done"}
    /\ score \in [Node -> 0..MaxScore]
    /\ boot = "ready" => initialized # {}

\* The rest of TypeOK.
PlainTypes ==
    /\ status \in [Node -> {"up", "down", "bad"}]
    /\ boot \in {"gather", "poll", "ready", "failed"}
    /\ expired \in BOOLEAN

CallInv ==
    /\ CallShape
    /\ Accounted
    /\ LookedAt
    /\ BestAnswerReturned
    /\ RaisesOnlyWithoutAnswer

IndInv == PlainTypes /\ NodesReady /\ CallInv

-----------------------------------------------------------------------------
(* Maxima of finite sets *)

\* A finite set has an element above which there is no other, in any strict order.
LEMMA MaximalElement ==
    ASSUME NEW S, IsFiniteSet(S), S # {}, NEW R,
           \A x \in S : <<x, x>> \notin R,
           \A x, y, z \in S : <<x, y>> \in R /\ <<y, z>> \in R => <<x, z>> \in R
    PROVE  \E x \in S : \A y \in S : <<x, y>> \notin R
<1> DEFINE above(x) == {y \in S : <<x, y>> \in R}
           T == {above(x) : x \in S}
<1>1. IsWellFoundedOn(StrictSubsetOrdering(S), SUBSET S)
  BY FS_StrictSubsetOrderingWellFounded, FS_FiniteSubsetsOfFinite
<1>2. T \subseteq SUBSET S /\ T # {}
  <2>1. PICK x \in S : TRUE
    OBVIOUS
  <2>2. above(x) \in T
    OBVIOUS
  <2>3. \A y \in S : above(y) \subseteq S
    OBVIOUS
  <2> HIDE DEF above
  <2> QED
    BY <2>2, <2>3
<1>3. PICK t \in T : \A u \in T : <<u, t>> \notin StrictSubsetOrdering(S)
  <2> HIDE DEF T
  <2> QED
    BY <1>1, <1>2, WFMin
<1>4. PICK x \in S : t = above(x)
  OBVIOUS
<1>5. ASSUME NEW y \in S, <<x, y>> \in R
      PROVE  FALSE
  <2>1. above(y) \subseteq above(x)
    BY <1>5
  <2>2. y \in above(x) /\ y \notin above(y)
    BY <1>5
  <2>3. <<above(y), above(x)>> \in StrictSubsetOrdering(S)
    BY <2>1, <2>2 DEF StrictSubsetOrdering
  <2> QED
    BY <1>3, <1>4, <2>3
<1> QED
  BY <1>5

\* best_beacon_node is one of the initialized nodes.
LEMMA BestNodeIsInitialized ==
    ASSUME NodesReady, boot = "ready"
    PROVE  BestNode \in initialized
<1> DEFINE better(n, m) == score[n] > score[m] \/ (score[n] = score[m] /\ n <= m)
           R == {p \in initialized \X initialized : ~better(p[1], p[2])}
<1>1. /\ initialized \subseteq Main /\ initialized # {}
      /\ IsFiniteSet(initialized)
  BY NodeAssumption, FS_Subset DEF NodesReady
<1>2. \A n \in initialized : n \in Nat /\ score[n] \in Nat
  BY <1>1, NodeAssumption, ScoreAssumption DEF NodesReady, Node
<1>3. \A x \in initialized : <<x, x>> \notin R
  BY <1>2
<1>4. \A x, y, z \in initialized : <<x, y>> \in R /\ <<y, z>> \in R => <<x, z>> \in R
  BY <1>2
<1>5. \E x \in initialized : \A y \in initialized : <<x, y>> \notin R
  <2> HIDE DEF R
  <2> QED
    BY <1>1, <1>3, <1>4, MaximalElement
<1>6. \E x \in initialized : \A y \in initialized : better(x, y)
  BY <1>5
<1> QED
  BY <1>6 DEF BestNode

\* The aggregate with the most participants is found whenever there is one.
LEMMA BestAggregateFound ==
    ASSUME NEW S \in SUBSET Response, IsFiniteSet(S),
           NEW r \in S, r.value > 0
    PROVE  /\ BestAggregate(S) \in S
           /\ BestAggregate(S).value > 0
           /\ \A s \in S : s.value > 0 => s.value <= BestAggregate(S).value
<1> DEFINE useful == {q \in S : q.value > 0}
           most == {q \in useful : \A s \in useful : q.value >= s.value}
           Less == {p \in useful \X useful : p[1].value < p[2].value}
           After == {p \in most \X most : p[1].node > p[2].node}
<1>1. \A q \in useful : q.value \in Nat /\ q.node \in Nat
  <2> TAKE q \in useful
  <2>1. q.value \in Values \cup {Failed} /\ q.node \in Node /\ q.value > 0
    BY DEF Response
  <2>2. q.value # Failed
    BY <2>1 DEF Failed
  <2> QED
    BY <2>1, <2>2, NodeAssumption, ValuesAssumption DEF Node
<1>2. IsFiniteSet(useful) /\ useful # {}
  BY FS_Subset
<1>3. most # {}
  <2>1. \A x \in useful : <<x, x>> \notin Less
    BY <1>1
  <2>2. \A x, y, z \in useful : <<x, y>> \in Less /\ <<y, z>> \in Less => <<x, z>> \in Less
    BY <1>1
  <2>3. \E x \in useful : \A y \in useful : <<x, y>> \notin Less
    <3> HIDE DEF useful, Less
    <3> QED
      BY <1>2, <2>1, <2>2, MaximalElement
  <2>4. PICK x \in useful : \A y \in useful : <<x, y>> \notin Less
    BY <2>3
  <2>5. ASSUME NEW y \in useful
        PROVE  x.value >= y.value
    <3>1. <<x, y>> \in useful \X useful /\ <<x, y>>[1] = x /\ <<x, y>>[2] = y
      OBVIOUS
    <3>2. ~(x.value < y.value)
      <4> HIDE DEF useful
      <4> QED
        BY <2>4, <3>1
    <3> QED
      BY <1>1, <3>2
  <2> QED
    BY <2>5
<1>4. IsFiniteSet(most)
  BY <1>2, FS_Subset
<1>5. \E x \in most : \A y \in most : x.node <= y.node
  <2>0. \A x \in most : x.node \in Nat
    BY <1>1
  <2>1. \A x \in most : <<x, x>> \notin After
    <3> HIDE DEF most
    <3> QED
      BY <2>0
  <2>2. \A x, y, z \in most :
            <<x, y>> \in After /\ <<y, z>> \in After => <<x, z>> \in After
    <3> HIDE DEF most
    <3> QED
      BY <2>0
  <2>3. \E x \in most : \A y \in most : <<x, y>> \notin After
    <3> HIDE DEF most, After
    <3> QED
      BY <1>3, <1>4, <2>1, <2>2, MaximalElement
  <2>4. PICK x \in most : \A y \in most : <<x, y>> \notin After
    BY <2>3
  <2>5. ASSUME NEW y \in most
        PROVE  x.node <= y.node
    <3> HIDE DEF most
    <3>1. <<x, y>> \in most \X most /\ <<x, y>>[1] = x /\ <<x, y>>[2] = y
      OBVIOUS
    <3>2. ~(x.node > y.node)
      BY <2>4, <3>1
    <3> QED
      BY <2>0, <3>2
  <2> QED
    BY <2>5
<1>6. BestAggregate(S) \in most
  BY <1>2, <1>5 DEF BestAggregate
<1> QED
  BY <1>6

-----------------------------------------------------------------------------
(* The nodes *)

LEMMA ScoresClamped ==
    ASSUME NEW n \in Node, score \in [Node -> 0..MaxScore]
    PROVE  /\ Rewarded(n) \in [Node -> 0..MaxScore]
           /\ Punished(n) \in [Node -> 0..MaxScore]
<1>1. \A value \in Int : Clamped(value) \in 0..MaxScore
  BY ScoreAssumption DEF Clamped
<1>2. score[n] + 1 \in Int /\ score[n] - FailureDelta \in Int
  BY ScoreAssumption
<1> QED
  BY <1>1, <1>2 DEF Rewarded, Punished

LEMMA NodesInit == Init => PlainTypes /\ NodesReady
<1> SUFFICES ASSUME Init PROVE PlainTypes /\ NodesReady
  OBVIOUS
<1>1. PlainTypes
  BY DEF Init, PlainTypes
<1>2. score \in [Node -> 0..MaxScore]
  BY ScoreAssumption DEF Init
<1> QED
  BY <1>1, <1>2 DEF Init, NodesReady

\* Once enough nodes are initialized there is one.
LEMMA PollFindsNode ==
    ASSUME NodesReady, PollNodes
    PROVE  boot' = "ready" => initialized # {}
<1>1. IsFiniteSet(Main) /\ Cardinality(Main) \in Nat
  BY NodeAssumption, FS_CardinalityType
<1>2. Threshold >= 1
  BY <1>1, ThresholdAssumption
<1>3. Cardinality({}) = 0
  BY FS_EmptySet
<1>4. boot' = "ready" => Cardinality(initialized) >= Threshold
  BY DEF PollNodes
<1>5. Threshold \in Int
  BY <1>1, ThresholdAssumption
<1>6. initialized = {} => Cardinality(initialized) = 0
  BY <1>3
<1> QED
  BY <1>2, <1>4, <1>5, <1>6

LEMMA NodesStep ==
    ASSUME PlainTypes, NodesReady, CallShape, [Next]_vars
    PROVE  PlainTypes' /\ NodesReady'
<1>1. ASSUME UNCHANGED <<initTask, initialized, score>>,
             boot' = "ready" => boot = "ready"
      PROVE  NodesReady'
  BY <1>1 DEF NodesReady
<1>2. ASSUME NEW n \in Node, UNCHANGED <<status, initTask, initialized, boot, expired>>,
             score' \in {Rewarded(n), Punished(n), score}
      PROVE  PlainTypes' /\ NodesReady'
  BY <1>2, ScoresClamped DEF NodesReady, PlainTypes
<1>3. CASE UNCHANGED vars
  BY <1>1, <1>3 DEF vars, bootVars, PlainTypes
<1>4. ASSUME NEW n \in Node, NEW s \in {"up", "down", "bad"}, ChangeStatus(n, s)
      PROVE  PlainTypes' /\ NodesReady'
  BY <1>1, <1>4 DEF ChangeStatus, bootVars, PlainTypes
<1>5. CASE DeadlinePasses
  BY <1>1, <1>5 DEF DeadlinePasses, PlainTypes
<1>6. CASE TimeoutPasses
  BY <1>1, <1>6 DEF TimeoutPasses, bootVars, PlainTypes
<1>7. ASSUME NEW n \in Main, Initialize(n)
      PROVE  PlainTypes' /\ NodesReady'
  <2>1. n \in Node
    BY DEF Node
  <2>2. score' \in [Node -> 0..MaxScore]
    <3>1. CASE score' = [score EXCEPT ![n] = MaxScore]
      <4>1. MaxScore \in 0..MaxScore
        BY ScoreAssumption
      <4>2. score \in [Node -> 0..MaxScore]
        BY DEF NodesReady
      <4> QED
        BY <3>1, <4>1, <4>2
    <3>2. CASE score' \in {Rewarded(n), Punished(n)}
      BY <2>1, <3>2, ScoresClamped DEF NodesReady
    <3> QED
      BY <1>7, <3>1, <3>2 DEF Initialize
  <2>3. /\ initTask' \in [Main -> {"first", "waiting", "retrying", "done"}]
        /\ initialized' = {m \in Main : initTask'[m] = "done"}
    BY <1>7 DEF Initialize, NodesReady
  <2>4. initialized \subseteq initialized' /\ UNCHANGED <<status, boot, expired>>
    BY <1>7 DEF Initialize
  <2> QED
    BY <2>2, <2>3, <2>4 DEF NodesReady, PlainTypes
<1>8. ASSUME NEW n \in Main, RetryInitialize(n)
      PROVE  PlainTypes' /\ NodesReady'
  <2>1. /\ initTask' \in [Main -> {"first", "waiting", "retrying", "done"}]
        /\ initialized' = {m \in Main : initTask'[m] = "done"}
    BY <1>8 DEF RetryInitialize, NodesReady
  <2> QED
    BY <1>8, <2>1 DEF RetryInitialize, NodesReady, PlainTypes
<1>9. CASE EndGatherOfNodes
  BY <1>1, <1>9 DEF EndGatherOfNodes, PlainTypes
<1>10. CASE PollNodes
  <2>1. PlainTypes'
    BY <1>10 DEF PollNodes, PlainTypes
  <2>2. NodesReady'
    BY <1>10, PollFindsNode DEF PollNodes, NodesReady
  <2> QED
    BY <2>1, <2>2
<1>11. ASSUME NEW kind \in Kinds, StartCall(kind)
       PROVE  PlainTypes' /\ NodesReady'
  BY <1>1, <1>11 DEF StartCall, bootVars, PlainTypes
<1>12. ASSUME NEW n \in Node, Accept(n) \/ Answer(n) \/ Fail(n)
       PROVE  PlainTypes' /\ NodesReady'
  <2>1. UNCHANGED <<status, initTask, initialized, boot, expired>>
    BY <1>12 DEF Accept, Answer, Fail, bootVars
  <2>2. score' \in {Rewarded(n), Punished(n), score}
    BY <1>12 DEF Accept, Answer, Fail
  <2> QED
    BY <1>2, <2>1, <2>2
<1>13. CASE CallStep
  BY <1>1, <1>13 DEF CallStep, HandleDone, HandleNext, HandleAll, bootVars, PlainTypes
<1> QED
  BY <1>3, <1>4, <1>5, <1>6, <1>7, <1>8, <1>9, <1>10, <1>11, <1>12, <1>13 DEF Next

-----------------------------------------------------------------------------
(* Calls *)

LEMMA NoElements == ToSet(<<>>) = {}
  BY DEF ToSet

LEMMA ElementsOfSequence ==
    ASSUME NEW S, NEW q \in Seq(S)
    PROVE  /\ ToSet(q) \subseteq S
           /\ \A x \in S : /\ Append(q, x) \in Seq(S)
                           /\ ToSet(Append(q, x)) = ToSet(q) \cup {x}
           /\ q # <<>> => /\ Head(q) \in S /\ Tail(q) \in Seq(S)
                          /\ ToSet(q) = {Head(q)} \cup ToSet(Tail(q))
<1>2. ToSet(q) \subseteq S
  BY DEF ToSet
<1>3. ASSUME NEW x \in S
      PROVE  /\ Append(q, x) \in Seq(S)
             /\ ToSet(Append(q, x)) = ToSet(q) \cup {x}
  <2>1. /\ Append(q, x) \in Seq(S) /\ Len(Append(q, x)) = Len(q) + 1
        /\ \A i \in 1..Len(q) : Append(q, x)[i] = q[i]
        /\ Append(q, x)[Len(q) + 1] = x
        /\ Len(q) \in Nat /\ DOMAIN q = 1..Len(q)
        /\ DOMAIN Append(q, x) = 1..(Len(q) + 1)
    OBVIOUS
  <2>2. 1..(Len(q) + 1) = 1..Len(q) \cup {Len(q) + 1}
    BY <2>1
  <2> QED
    <3>1. ToSet(Append(q, x)) = {Append(q, x)[i] : i \in 1..(Len(q) + 1)}
      BY <2>1 DEF ToSet
    <3>2. ToSet(q) = {q[i] : i \in 1..Len(q)}
      BY <2>1 DEF ToSet
    <3>3. ToSet(Append(q, x)) \subseteq ToSet(q) \cup {x}
      BY <2>1, <2>2, <3>1, <3>2
    <3>4. ToSet(q) \cup {x} \subseteq ToSet(Append(q, x))
      BY <2>1, <2>2, <3>1, <3>2
    <3> QED
      BY <2>1, <3>3, <3>4
<1>4. ASSUME q # <<>>
      PROVE  /\ Head(q) \in S /\ Tail(q) \in Seq(S)
             /\ ToSet(q) = {Head(q)} \cup ToSet(Tail(q))
  <2>1. /\ Head(q) = q[1] /\ Len(q) \in Nat /\ Len(q) >= 1
        /\ DOMAIN q = 1..Len(q)
        /\ Head(q) \in S /\ Tail(q) \in Seq(S)
        /\ DOMAIN Tail(q) = 1..(Len(q) - 1)
        /\ \A i \in 1..(Len(q) - 1) : Tail(q)[i] = q[i + 1]
    BY <1>4
  <2>2. ASSUME NEW i \in 1..Len(q), i # 1
        PROVE  i - 1 \in 1..(Len(q) - 1) /\ (i - 1) + 1 = i
    BY <2>1, <2>2
  <2>3. ToSet(q) \subseteq {Head(q)} \cup ToSet(Tail(q))
    <3>1. ASSUME NEW i \in 1..Len(q)
          PROVE  q[i] \in {Head(q)} \cup ToSet(Tail(q))
      <4>1. CASE i = 1
        BY <2>1, <4>1
      <4>2. CASE i # 1
        <5>1. i - 1 \in DOMAIN Tail(q) /\ Tail(q)[i - 1] = q[i]
          BY <2>1, <2>2, <4>2
        <5> QED
          BY <5>1 DEF ToSet
      <4> QED
        BY <4>1, <4>2
    <3> QED
      BY <2>1, <3>1 DEF ToSet
  <2>4. \A i \in 1..(Len(q) - 1) : i + 1 \in 1..Len(q)
    BY <2>1
  <2>5. {Head(q)} \cup ToSet(Tail(q)) \subseteq ToSet(q)
    BY <2>1, <2>4 DEF ToSet
  <2> QED
    BY <2>1, <2>3, <2>5
<1> QED
  BY <1>2, <1>3, <1>4

LEMMA ResponseValues ==
    /\ \A r \in Response \cup {NoResponse} : r.value \in Int /\ r.value >= Failed
    /\ NoResponse.value = Failed /\ NoResponse \notin Response
<1>1. 0 \notin Node
  BY NodeAssumption DEF Node
<1>2. NoResponse.value = Failed /\ NoResponse.node = 0
  BY DEF NoResponse
<1>3. NoResponse \notin Response
  BY <1>1, <1>2 DEF Response
<1>4. ASSUME NEW v \in Values \cup {Failed}
      PROVE  v \in Int /\ v >= Failed
  BY ValuesAssumption DEF Failed
<1>5. \A r \in Response : r.value \in Values \cup {Failed}
  BY DEF Response
<1> QED
  BY <1>2, <1>3, <1>4, <1>5

\* What ending a call does to it.
LEMMA EndsWell ==
    ASSUME NEW c \in CallRecord, NEW phase \in Ended
    PROVE  /\ EndWith(c, phase) \in CallRecord
           /\ EndWith(c, phase).phase = phase
           /\ EndWith(c, phase).running = {} /\ EndWith(c, phase).accepted = {}
           /\ EndWith(c, phase).kind = c.kind /\ EndWith(c, phase).asked = c.asked
           /\ EndWith(c, phase).arrived = c.arrived /\ EndWith(c, phase).best = c.best
           /\ EndWith(c, phase).responses = c.responses
           /\ EndWith(c, phase).timeUp = c.timeUp
  BY DEF EndWith, CallRecord

LEMMA CallInit == ASSUME Init PROVE CallInv
<1>1. /\ call = NoCall /\ NoCall \in CallRecord
  BY DEF Init, NoCall, CallRecord, Kinds, Ended, Waiting
<1>2. CallShape
  BY <1>1 DEF CallShape, NoCall, Ended
<1>3. Accounted
  BY <1>1, FS_EmptySet, NoElements DEF Accounted, NoCall, Waiting
<1>4. LookedAt
  BY <1>1 DEF LookedAt, NoCall
<1>5. BestAnswerReturned /\ RaisesOnlyWithoutAnswer
  BY <1>1 DEF BestAnswerReturned, RaisesOnlyWithoutAnswer, NoCall
<1> QED
  BY <1>2, <1>3, <1>4, <1>5 DEF CallInv

\* A new call owes nothing yet.
LEMMA StartCallKeeps ==
    ASSUME NodesReady, CallInv, NEW kind \in Kinds, StartCall(kind)
    PROVE  CallInv'
<1>1. PICK nodes \in AskedBy(kind) :
          call' = [NoCall EXCEPT
                     !.kind = kind,
                     !.phase = CASE kind \in {"best", "version", "first"} -> "next"
                                 [] kind = "block" -> "timed"
                                 [] OTHER -> "gather",
                     !.asked = nodes,
                     !.running = nodes]
  BY DEF StartCall
<1>2. nodes \in SUBSET Node
  <2>1. initialized \subseteq Node /\ BlockNodes \subseteq Node
    BY DEF NodesReady, BlockNodes, Node
  <2>2. CASE kind = "best"
    <3>1. boot = "ready"
      BY <2>2 DEF StartCall
    <3> QED
      BY <1>1, <2>1, <2>2, <3>1, BestNodeIsInitialized DEF AskedBy
  <2>3. CASE kind = "version"
    BY <1>1, <2>1, <2>3 DEF AskedBy
  <2>4. CASE kind \in {"first", "all", "aggregate"}
    BY <1>1, <2>1, <2>4 DEF AskedBy
  <2>5. CASE kind \in {"publish", "block"}
    BY <1>1, <2>1, <2>5 DEF AskedBy
  <2> QED
    BY <2>2, <2>3, <2>4, <2>5 DEF Kinds
<1>3. /\ call'.kind = kind
      /\ call'.phase = IF kind \in {"best", "version", "first"} THEN "next"
                       ELSE IF kind = "block" THEN "timed" ELSE "gather"
      /\ call'.asked = nodes /\ call'.running = nodes /\ call'.accepted = {}
      /\ call'.arrived = <<>> /\ call'.best = NoResponse /\ call'.timeUp = FALSE
      /\ call'.responses = {}
  BY <1>1 DEF NoCall
<1>4. call' \in CallRecord
  <2>1. PICK phase \in Waiting :
            call' = [kind |-> kind, phase |-> phase, asked |-> nodes,
                     running |-> nodes, accepted |-> {}, arrived |-> <<>>,
                     best |-> NoResponse, timeUp |-> FALSE, responses |-> {}]
    BY <1>1 DEF NoCall, Waiting
  <2>2. {} \in SUBSET Node /\ <<>> \in Seq(Response) /\ {} \in SUBSET Response
    OBVIOUS
  <2> QED
    BY <1>2, <2>1, <2>2 DEF CallRecord
<1>5. CallShape'
  BY <1>3, <1>4 DEF CallShape, Kinds, Ended
<1>6. Accounted'
  BY <1>3, FS_EmptySet, NoElements DEF Accounted
<1>7. LookedAt'
  BY <1>3, ResponseValues DEF LookedAt
<1>8. BestAnswerReturned' /\ RaisesOnlyWithoutAnswer'
  BY <1>3 DEF BestAnswerReturned, RaisesOnlyWithoutAnswer
<1> QED
  BY <1>5, <1>6, <1>7, <1>8 DEF CallInv

\* The timeout passes, or the status of a response comes in: nothing is decided.
LEMMA NothingDecided ==
    ASSUME CallInv, call' \in CallRecord,
           call'.accepted \subseteq call'.running,
           call.phase \in Waiting,
           call'.kind = call.kind, call'.phase = call.phase, call'.asked = call.asked,
           call'.running = call.running, call'.arrived = call.arrived,
           call'.best = call.best, call'.responses = call.responses,
           call.timeUp => call'.timeUp
    PROVE  CallInv'
<1>1. CallShape'
  BY DEF CallInv, CallShape
<1>2. Accounted'
  BY DEF CallInv, Accounted
<1>3. LookedAt'
  BY DEF CallInv, LookedAt
<1>4. BestAnswerReturned' /\ RaisesOnlyWithoutAnswer'
  BY DEF BestAnswerReturned, RaisesOnlyWithoutAnswer, Waiting
<1> QED
  BY <1>1, <1>2, <1>3, <1>4 DEF CallInv

LEMMA TimeoutKeeps == ASSUME CallInv, TimeoutPasses PROVE CallInv'
<1>1. call \in CallRecord /\ call.accepted \subseteq call.running
  BY DEF CallInv, CallShape
<1>2. call.phase = "timed" /\ call' = [call EXCEPT !.timeUp = TRUE]
  BY DEF TimeoutPasses
<1>3. call' \in CallRecord
  BY <1>1, <1>2 DEF CallRecord
<1> QED
  BY <1>1, <1>2, <1>3, NothingDecided DEF CallRecord, Waiting

\* A request is running while its call waits only.
LEMMA RunningWaits ==
    ASSUME CallInv, NEW n \in call.running
    PROVE  call.phase \in Waiting /\ n \in Node /\ n \in call.asked
  BY DEF CallInv, CallShape, CallRecord

LEMMA AcceptKeeps == ASSUME CallInv, NEW n \in Node, Accept(n) PROVE CallInv'
<1>1. call \in CallRecord /\ call.accepted \subseteq call.running
  BY DEF CallInv, CallShape
<1>2. n \in call.running /\ call' = [call EXCEPT !.accepted = @ \cup {n}]
  BY DEF Accept
<1>3. call' \in CallRecord
  BY <1>1, <1>2 DEF CallRecord
<1>4. call.phase \in Waiting
  BY <1>2, RunningWaits
<1>5. /\ call'.accepted = call.accepted \cup {n}
      /\ call'.kind = call.kind /\ call'.phase = call.phase /\ call'.asked = call.asked
      /\ call'.running = call.running /\ call'.arrived = call.arrived
      /\ call'.best = call.best /\ call'.responses = call.responses
      /\ call'.timeUp = call.timeUp
  BY <1>1, <1>2 DEF CallRecord
<1> QED
  BY <1>1, <1>2, <1>3, <1>4, <1>5, NothingDecided

\* A request ends: its response is accounted for, and is yet to be looked at.
LEMMA CompleteKeeps ==
    ASSUME CallInv, NEW n \in call.running, NEW value \in Values \cup {Failed},
           Complete(n, value)
    PROVE  CallInv'
<1> DEFINE response == [node |-> n, value |-> value, inTime |-> ~call.timeUp]
<1>1. /\ call \in CallRecord
      /\ call.accepted \subseteq call.running /\ call.running \subseteq call.asked
  BY DEF CallInv, CallShape
<1>2. call' = [call EXCEPT !.running = @ \ {n}, !.accepted = @ \ {n},
                           !.arrived = Append(@, response),
                           !.responses = @ \cup {response}]
  BY DEF Complete
<1>3. /\ call.running \in SUBSET Node /\ call.accepted \in SUBSET Node
      /\ call.arrived \in Seq(Response) /\ call.responses \in SUBSET Response
      /\ call.timeUp \in BOOLEAN
  BY <1>1 DEF CallRecord
<1>4. response \in Response
  BY <1>3 DEF Response
<1>5. /\ Append(call.arrived, response) \in Seq(Response)
      /\ ToSet(Append(call.arrived, response)) = ToSet(call.arrived) \cup {response}
  <2> HIDE DEF response
  <2> QED
    BY <1>3, <1>4, ElementsOfSequence
<1> HIDE DEF response
<1>6. call' \in CallRecord
  BY <1>1, <1>2, <1>3, <1>4, <1>5 DEF CallRecord
<1>7. /\ call'.running = call.running \ {n} /\ call'.accepted = call.accepted \ {n}
      /\ call'.arrived = Append(call.arrived, response)
      /\ call'.responses = call.responses \cup {response}
      /\ call'.kind = call.kind /\ call'.phase = call.phase /\ call'.asked = call.asked
      /\ call'.best = call.best /\ call'.timeUp = call.timeUp
  BY <1>1, <1>2 DEF CallRecord
<1>8. call.phase \in Waiting /\ n \in call.asked
  BY RunningWaits
<1>9. CallShape'
  BY <1>1, <1>6, <1>7, <1>8 DEF CallInv, CallShape, Waiting, Ended
<1>10. response.node = n /\ response.inTime = ~call.timeUp
  BY DEF response
<1>11. Accounted'
  <2>1. IsFiniteSet(call'.responses)
    BY <1>7, FS_AddElement DEF CallInv, Accounted
  <2>2. /\ ToSet(call'.arrived) \subseteq call'.responses
        /\ call'.best \in call'.responses \cup {NoResponse}
    BY <1>5, <1>7 DEF CallInv, Accounted
  <2>3. \A r \in call'.responses : r.node \in call'.asked
    BY <1>7, <1>8, <1>10 DEF CallInv, Accounted
  <2>4. ASSUME NEW m \in call'.asked \ call'.running
        PROVE  \E r \in call'.responses : r.node = m
    <3>1. CASE m = n
      BY <1>7, <1>10, <3>1
    <3>2. CASE m # n
      BY <1>7, <1>8, <2>4, <3>2 DEF CallInv, Accounted
    <3> QED
      BY <3>1, <3>2
  <2> QED
    BY <2>1, <2>2, <2>3, <2>4 DEF Accounted
<1>12. LookedAt'
  BY <1>5, <1>7, <1>10 DEF CallInv, LookedAt
<1>13. BestAnswerReturned' /\ RaisesOnlyWithoutAnswer'
  BY <1>7, <1>8 DEF BestAnswerReturned, RaisesOnlyWithoutAnswer, Waiting
<1> QED
  BY <1>9, <1>11, <1>12, <1>13 DEF CallInv

LEMMA RequestKeeps ==
    ASSUME CallInv, NEW n \in Node, Answer(n) \/ Fail(n)
    PROVE  CallInv'
<1>1. n \in call.running
  BY DEF Answer, Fail, CallInv, CallShape
<1>2. \E value \in Values \cup {Failed} : Complete(n, value)
  BY DEF Answer, Fail
<1> QED
  BY <1>1, <1>2, CompleteKeeps

-----------------------------------------------------------------------------
(* The caller *)

\* A call that ends with an answer that is backed by its responses, or with none
\* where all responses are useless, keeps the invariant.
LEMMA EndKeeps ==
    ASSUME CallInv, NEW c \in CallRecord, NEW phase \in {"returned", "raised"},
           call' = EndWith(c, phase),
           c.kind = call.kind, c.asked = call.asked, c.responses = call.responses,
           c.arrived \in Seq(Response), ToSet(c.arrived) \subseteq call.responses,
           c.best \in call.responses \cup {NoResponse},
           BestAnswerReturned', RaisesOnlyWithoutAnswer'
    PROVE  CallInv'
<1>1. phase \in Ended
  BY DEF Ended
<1>2. /\ call' \in CallRecord
      /\ call'.phase = phase /\ call'.running = {} /\ call'.accepted = {}
      /\ call'.kind = call.kind /\ call'.asked = call.asked
      /\ call'.arrived = c.arrived /\ call'.best = c.best
      /\ call'.responses = call.responses
  BY <1>1, EndsWell
<1>3. CallShape'
  BY <1>2 DEF CallShape
<1>4. Accounted'
  BY <1>2 DEF CallInv, Accounted, Waiting
<1>5. LookedAt'
  BY <1>2 DEF LookedAt
<1> QED
  BY <1>3, <1>4, <1>5 DEF CallInv

\* When no request is running every node that was asked has responded.
LEMMA AllResponded ==
    ASSUME CallInv, call.phase \in Waiting, call.running = {}
    PROVE  {r.node : r \in call.responses} = call.asked
  BY DEF CallInv, Accounted

LEMMA HandleDoneKeeps == ASSUME CallInv, HandleDone PROVE CallInv'
<1>1. PICK best \in BestOf(call.best, ToSet(call.arrived)) :
          call' = AfterWait([call EXCEPT !.best = best, !.arrived = <<>>])
  BY DEF HandleDone
<1> DEFINE c == [call EXCEPT !.best = best, !.arrived = <<>>]
<1>2. /\ call \in CallRecord
      /\ call.accepted \subseteq call.running /\ call.running \subseteq call.asked
      /\ call.phase = "timed" /\ call.kind = "block"
      /\ call.best \in call.responses \cup {NoResponse}
      /\ call.responses \subseteq Response
      /\ ToSet(call.arrived) \subseteq call.responses
  BY DEF HandleDone, CallInv, CallShape, Accounted, CallRecord
<1>3. \A r \in call.responses \cup {NoResponse} : r.value \in Int /\ r.value >= Failed
  BY <1>2, ResponseValues
<1>4. /\ best \in call.responses \cup {NoResponse}
      /\ best.value >= call.best.value
      /\ \A r \in ToSet(call.arrived) : r.value <= best.value
  <2> DEFINE better == {r \in ToSet(call.arrived) : r.value > call.best.value}
  <2>1. CASE better = {}
    <3>1. best = call.best
      BY <1>1, <2>1 DEF BestOf
    <3>2. \A r \in ToSet(call.arrived) : ~(r.value > call.best.value)
      BY <2>1
    <3> QED
      BY <1>2, <1>3, <3>1, <3>2
  <2>2. CASE better # {}
    <3>1. best \in better /\ \A s \in better : best.value >= s.value
      BY <1>1, <2>2 DEF BestOf
    <3>2. ASSUME NEW r \in ToSet(call.arrived), r \notin better
          PROVE  r.value <= best.value
      BY <1>2, <1>3, <3>1, <3>2
    <3> QED
      BY <1>2, <1>3, <3>1, <3>2
  <2> QED
    BY <2>1, <2>2
<1>5. \A r \in call.responses : r.value <= best.value
  <2>1. \A r \in call.responses :
            r.value <= call.best.value \/ r \in ToSet(call.arrived)
    BY <1>2 DEF CallInv, LookedAt
  <2> QED
    BY <1>2, <1>3, <1>4, <2>1
<1>6. best \in Response \cup {NoResponse}
  BY <1>2, <1>4
<1>7. /\ c \in CallRecord
      /\ c.kind = "block" /\ c.phase = "timed" /\ c.asked = call.asked
      /\ c.running = call.running /\ c.accepted = call.accepted /\ c.arrived = <<>>
      /\ c.best = best /\ c.timeUp = call.timeUp /\ c.responses = call.responses
  <2>1. call \in CallRecord /\ <<>> \in Seq(Response)
    BY <1>2
  <2>2. c \in CallRecord
    BY <1>6, <2>1 DEF CallRecord
  <2> QED
    BY <1>2, <2>1, <2>2 DEF CallRecord
<1>8. c.arrived \in Seq(Response) /\ ToSet(c.arrived) \subseteq call.responses
  BY <1>7, NoElements
<1>9. call' = AfterWait(c)
  BY <1>1
<1> HIDE DEF c
<1>10. CASE c.running # {} /\ ~c.timeUp
  <2>1. call' = c
    BY <1>9, <1>10 DEF AfterWait
  <2>2. CallShape'
    BY <1>2, <1>7, <2>1 DEF CallShape, Ended
  <2>3. Accounted'
    BY <1>2, <1>4, <1>7, <1>8, <2>1 DEF CallInv, Accounted, Waiting
  <2>4. LookedAt'
    BY <1>5, <1>7, <2>1 DEF LookedAt
  <2>5. BestAnswerReturned' /\ RaisesOnlyWithoutAnswer'
    BY <1>7, <2>1 DEF BestAnswerReturned, RaisesOnlyWithoutAnswer
  <2> QED
    BY <2>2, <2>3, <2>4, <2>5 DEF CallInv
<1>11. CASE ~(c.running # {} /\ ~c.timeUp) /\ c.best.value # Failed
  <2>1. call' = EndWith(c, "returned")
    BY <1>9, <1>11 DEF AfterWait
  <2>2. /\ call'.phase = "returned" /\ call'.best = best
        /\ call'.responses = call.responses
    BY <1>7, <2>1, EndsWell DEF Ended
  <2>3. best \in call.responses /\ best.value # Failed
    BY <1>4, <1>7, <1>11, ResponseValues
  <2>4. BestAnswerReturned' /\ RaisesOnlyWithoutAnswer'
    BY <1>5, <2>2, <2>3 DEF BestAnswerReturned, RaisesOnlyWithoutAnswer
  <2> QED
    BY <1>2, <1>4, <1>7, <1>8, <2>1, <2>4, EndKeeps
<1>12. ASSUME c.best.value = Failed
       PROVE  \A r \in call.responses : r.value = Failed
  BY <1>3, <1>5, <1>7, <1>12 DEF Failed
<1>13. CASE ~(c.running # {} /\ ~c.timeUp) /\ c.best.value = Failed /\ c.running # {}
  <2>1. call' = [c EXCEPT !.phase = "next"]
    BY <1>9, <1>13 DEF AfterWait
  <2>2. call' \in CallRecord
    BY <1>7, <2>1 DEF CallRecord, Waiting
  <2>3. /\ call'.phase = "next" /\ call'.kind = "block" /\ call'.asked = call.asked
        /\ call'.running = call.running /\ call'.accepted = call.accepted
        /\ call'.arrived = <<>> /\ call'.best = best /\ call'.timeUp = TRUE
        /\ call'.responses = call.responses
    BY <1>7, <1>13, <2>1 DEF CallRecord
  <2>4. CallShape'
    BY <1>2, <2>2, <2>3 DEF CallShape, Ended
  <2>5. Accounted'
    BY <1>2, <1>4, <2>3, NoElements DEF CallInv, Accounted, Waiting
  <2>6. LookedAt'
    BY <1>5, <1>7, <1>12, <1>13, <2>3 DEF LookedAt
  <2>7. BestAnswerReturned' /\ RaisesOnlyWithoutAnswer'
    BY <2>3 DEF BestAnswerReturned, RaisesOnlyWithoutAnswer
  <2> QED
    BY <2>4, <2>5, <2>6, <2>7 DEF CallInv
<1>14. CASE c.best.value = Failed /\ c.running = {}
  <2>1. call' = EndWith(c, "raised")
    BY <1>9, <1>14 DEF AfterWait
  <2>2. /\ call'.phase = "raised" /\ call'.asked = call.asked
        /\ call'.responses = call.responses
    BY <1>7, <2>1, EndsWell DEF Ended
  <2>3. {r.node : r \in call.responses} = call.asked
    BY <1>2, <1>7, <1>14, AllResponded DEF Waiting
  <2>4. BestAnswerReturned' /\ RaisesOnlyWithoutAnswer'
    BY <1>12, <1>14, <2>2, <2>3 DEF BestAnswerReturned, RaisesOnlyWithoutAnswer
  <2> QED
    BY <1>2, <1>4, <1>7, <1>8, <2>1, <2>4, EndKeeps
<1> QED
  BY <1>10, <1>11, <1>13, <1>14

LEMMA HandleNextKeeps == ASSUME CallInv, HandleNext PROVE CallInv'
<1> DEFINE response == Head(call.arrived)
           rest == [call EXCEPT !.arrived = Tail(@)]
           answered == [rest EXCEPT !.best = response]
<1>1. /\ call \in CallRecord
      /\ call.accepted \subseteq call.running /\ call.running \subseteq call.asked
      /\ call.phase = "next" /\ call.kind \notin {"aggregate", "all", "publish"}
      /\ call.arrived \in Seq(Response) /\ call.arrived # <<>>
      /\ call.best \in call.responses \cup {NoResponse} /\ call.best.value = Failed
      /\ call.responses \subseteq Response
      /\ ToSet(call.arrived) \subseteq call.responses
  BY DEF HandleNext, CallInv, CallShape, Accounted, LookedAt, CallRecord
<1>2. call' = IF response.value # Failed THEN EndWith(answered, "returned")
              ELSE IF rest.running = {} /\ rest.arrived = <<>>
              THEN EndWith(rest, "raised")
              ELSE rest
  BY DEF HandleNext
<1>3. /\ response \in Response /\ Tail(call.arrived) \in Seq(Response)
      /\ ToSet(call.arrived) = {response} \cup ToSet(Tail(call.arrived))
  BY <1>1, ElementsOfSequence
<1> HIDE DEF response
<1>4. /\ rest \in CallRecord /\ rest.kind = call.kind /\ rest.phase = "next"
      /\ rest.asked = call.asked /\ rest.running = call.running
      /\ rest.accepted = call.accepted /\ rest.arrived = Tail(call.arrived)
      /\ rest.best = call.best /\ rest.timeUp = call.timeUp
      /\ rest.responses = call.responses
  BY <1>1, <1>3 DEF CallRecord
<1>5. /\ answered \in CallRecord /\ answered.kind = call.kind
      /\ answered.asked = call.asked /\ answered.arrived = Tail(call.arrived)
      /\ answered.best = response /\ answered.responses = call.responses
  BY <1>1, <1>3, <1>4 DEF CallRecord
<1> HIDE DEF rest, answered
<1>6. /\ response \in call.responses
      /\ ToSet(Tail(call.arrived)) \subseteq call.responses
  BY <1>1, <1>3
<1>7. \A r \in call.responses : r.value \in Int /\ r.value >= Failed
  BY <1>1, ResponseValues
<1>8. \A r \in call.responses : r.value = Failed \/ r \in ToSet(call.arrived)
  BY <1>1, <1>7 DEF CallInv, LookedAt, Failed
<1>9. CASE response.value # Failed
  <2>1. call' = EndWith(answered, "returned")
    BY <1>2, <1>9
  <2>2. /\ call'.phase = "returned" /\ call'.kind = call.kind
        /\ call'.best = response /\ call'.responses = call.responses
    BY <1>5, <2>1, EndsWell DEF Ended
  <2>3. BestAnswerReturned'
    <3>1. ASSUME call.kind = "block", NEW r \in call.responses, r.inTime
          PROVE  r.value <= response.value
      <4>1. r.value = Failed
        BY <1>1, <3>1 DEF CallInv, LookedAt
      <4> QED
        BY <1>6, <1>7, <4>1
    <3> QED
      BY <1>1, <1>6, <1>9, <2>2, <3>1 DEF BestAnswerReturned
  <2>4. RaisesOnlyWithoutAnswer'
    BY <2>2 DEF RaisesOnlyWithoutAnswer
  <2> QED
    BY <1>3, <1>5, <1>6, <2>1, <2>3, <2>4, EndKeeps
<1>10. CASE response.value = Failed /\ rest.running = {} /\ rest.arrived = <<>>
  <2>1. call' = EndWith(rest, "raised")
    BY <1>2, <1>10
  <2>2. /\ call'.phase = "raised" /\ call'.asked = call.asked
        /\ call'.responses = call.responses
    BY <1>4, <2>1, EndsWell DEF Ended
  <2>3. {r.node : r \in call.responses} = call.asked
    BY <1>1, <1>4, <1>10, AllResponded DEF Waiting
  <2>4. \A r \in call.responses : r.value = Failed
    BY <1>3, <1>4, <1>8, <1>10, NoElements
  <2>5. BestAnswerReturned' /\ RaisesOnlyWithoutAnswer'
    BY <2>2, <2>3, <2>4 DEF BestAnswerReturned, RaisesOnlyWithoutAnswer
  <2> QED
    BY <1>1, <1>3, <1>4, <1>6, <2>1, <2>5, EndKeeps
<1>11. CASE response.value = Failed /\ ~(rest.running = {} /\ rest.arrived = <<>>)
  <2>1. call' = rest
    BY <1>2, <1>11
  <2>2. CallShape'
    BY <1>1, <1>4, <2>1 DEF CallShape, Ended
  <2>3. Accounted'
    BY <1>1, <1>4, <1>6, <2>1 DEF CallInv, Accounted, Waiting
  <2>4. \A r \in call.responses : r.value = Failed \/ r \in ToSet(Tail(call.arrived))
    BY <1>3, <1>8, <1>11
  <2>5. LookedAt'
    BY <1>1, <1>4, <1>7, <2>1, <2>4 DEF CallInv, LookedAt
  <2>6. BestAnswerReturned' /\ RaisesOnlyWithoutAnswer'
    BY <1>4, <2>1 DEF BestAnswerReturned, RaisesOnlyWithoutAnswer
  <2> QED
    BY <2>2, <2>3, <2>5, <2>6 DEF CallInv
<1> QED
  BY <1>9, <1>10, <1>11

LEMMA HandleAllKeeps == ASSUME CallInv, HandleAll PROVE CallInv'
<1> DEFINE best == Gathered(call)
           c == [call EXCEPT !.best = best, !.arrived = <<>>]
           usable == {r \in call.responses : r.value # Failed}
<1>1. /\ call \in CallRecord /\ call.running = {}
      /\ call.phase = "gather" /\ call.kind \in {"aggregate", "all", "publish"}
      /\ call.responses \subseteq Response /\ IsFiniteSet(call.responses)
  BY DEF HandleAll, CallInv, CallShape, Accounted, CallRecord
<1>2. call' = EndWith(c, IF best = NoResponse THEN "raised" ELSE "returned")
  BY DEF HandleAll
<1>3. \A r \in call.responses : r.value \in Int /\ r.value >= Failed
  BY <1>1, ResponseValues
<1>4. /\ usable \in SUBSET Response /\ IsFiniteSet(usable)
      /\ NoResponse \notin usable
  BY <1>1, FS_Subset, ResponseValues
\* What is returned, or why nothing is.
<1>5. IF best = NoResponse
      THEN \A r \in call.responses :
               r.value = Failed \/ (call.kind = "aggregate" /\ r.value = 0)
      ELSE /\ best \in usable
           /\ call.kind = "aggregate" =>
                  \A r \in call.responses : r.value <= best.value
  <2>1. CASE call.kind = "aggregate"
    <3>1. best = BestAggregate(usable)
      BY <2>1 DEF Gathered
    <3>2. CASE \E r \in usable : r.value > 0
      <4>1. /\ best \in usable /\ best.value > 0
            /\ \A s \in usable : s.value > 0 => s.value <= best.value
        <5> HIDE DEF usable, best
        <5> QED
          BY <1>4, <3>1, <3>2, BestAggregateFound
      <4>2. ASSUME NEW r \in call.responses
            PROVE  r.value <= best.value
        BY <1>3, <4>1 DEF Failed
      <4> QED
        BY <1>4, <4>1, <4>2
    <3>3. CASE ~\E r \in usable : r.value > 0
      <4>1. best = NoResponse
        BY <3>1, <3>3 DEF BestAggregate
      <4>2. \A r \in call.responses : r.value = Failed \/ r.value = 0
        BY <1>3, <3>3 DEF Failed
      <4> QED
        BY <2>1, <4>1, <4>2
    <3> QED
      BY <3>2, <3>3
  <2>2. CASE call.kind # "aggregate"
    <3>1. CASE usable = {}
      <4>1. best = NoResponse
        BY <2>2, <3>1 DEF Gathered
      <4> QED
        BY <3>1, <4>1
    <3>2. CASE usable # {}
      <4>1. best \in usable
        BY <2>2, <3>2 DEF Gathered
      <4> QED
        BY <1>4, <2>2, <4>1
    <3> QED
      BY <3>1, <3>2
  <2> QED
    BY <2>1, <2>2
<1>6. best \in call.responses \cup {NoResponse}
  BY <1>5
<1>7. best \in Response \cup {NoResponse}
  BY <1>1, <1>6
<1> HIDE DEF best
<1>8. c \in CallRecord /\ <<>> \in Seq(Response)
  <2>1. <<>> \in Seq(Response)
    OBVIOUS
  <2> QED
    BY <1>1, <1>7, <2>1 DEF CallRecord
<1>9. /\ c.kind = call.kind /\ c.asked = call.asked /\ c.arrived = <<>>
      /\ c.best = best /\ c.responses = call.responses
  BY <1>1, <1>8 DEF CallRecord
<1>10. ToSet(c.arrived) \subseteq call.responses
  BY <1>9, NoElements
<1> HIDE DEF c
<1>11. CASE best = NoResponse
  <2>1. call' = EndWith(c, "raised")
    BY <1>2, <1>11
  <2>2. /\ call'.phase = "raised" /\ call'.asked = call.asked
        /\ call'.kind = call.kind /\ call'.responses = call.responses
    BY <1>8, <1>9, <2>1, EndsWell DEF Ended
  <2>3. {r.node : r \in call.responses} = call.asked
    BY <1>1, AllResponded DEF Waiting
  <2>4. BestAnswerReturned' /\ RaisesOnlyWithoutAnswer'
    BY <1>5, <1>11, <2>2, <2>3 DEF BestAnswerReturned, RaisesOnlyWithoutAnswer
  <2> QED
    BY <1>6, <1>8, <1>9, <1>10, <2>1, <2>4, EndKeeps
<1>12. CASE best # NoResponse
  <2>1. call' = EndWith(c, "returned")
    BY <1>2, <1>12
  <2>2. /\ call'.phase = "returned" /\ call'.kind = call.kind
        /\ call'.best = best /\ call'.responses = call.responses
    BY <1>8, <1>9, <2>1, EndsWell DEF Ended
  <2>3. BestAnswerReturned' /\ RaisesOnlyWithoutAnswer'
    BY <1>1, <1>5, <1>12, <2>2 DEF BestAnswerReturned, RaisesOnlyWithoutAnswer
  <2> QED
    BY <1>6, <1>8, <1>9, <1>10, <2>1, <2>3, EndKeeps
<1> QED
  BY <1>11, <1>12

-----------------------------------------------------------------------------
(* The inductive invariant *)

LEMMA CallUntouched == ASSUME CallInv, call' = call PROVE CallInv'
  BY DEF CallInv, CallShape, Accounted, LookedAt, BestAnswerReturned,
         RaisesOnlyWithoutAnswer

LEMMA IndInvInit == Init => IndInv
  BY NodesInit, CallInit DEF IndInv

LEMMA IndInvStep == IndInv /\ [Next]_vars => IndInv'
<1> SUFFICES ASSUME IndInv, [Next]_vars
             PROVE  IndInv'
  OBVIOUS
<1>1. PlainTypes' /\ NodesReady'
  BY NodesStep DEF IndInv, CallInv
<1>2. CASE UNCHANGED vars
  BY <1>1, <1>2, CallUntouched DEF IndInv, vars
<1>3. ASSUME NEW n \in Node, NEW s \in {"up", "down", "bad"}, ChangeStatus(n, s)
      PROVE  IndInv'
  BY <1>1, <1>3, CallUntouched DEF IndInv, ChangeStatus
<1>4. CASE DeadlinePasses \/ EndGatherOfNodes \/ PollNodes
  BY <1>1, <1>4, CallUntouched DEF IndInv, DeadlinePasses, EndGatherOfNodes, PollNodes
<1>5. ASSUME NEW n \in Main, Initialize(n) \/ RetryInitialize(n)
      PROVE  IndInv'
  BY <1>1, <1>5, CallUntouched DEF IndInv, Initialize, RetryInitialize
<1>6. CASE TimeoutPasses
  BY <1>1, <1>6, TimeoutKeeps DEF IndInv
<1>7. ASSUME NEW kind \in Kinds, StartCall(kind)
      PROVE  IndInv'
  BY <1>1, <1>7, StartCallKeeps DEF IndInv
<1>8. ASSUME NEW n \in Node, Accept(n) \/ Answer(n) \/ Fail(n)
      PROVE  IndInv'
  BY <1>1, <1>8, AcceptKeeps, RequestKeeps DEF IndInv
<1>9. CASE CallStep
  BY <1>1, <1>9, HandleDoneKeeps, HandleNextKeeps, HandleAllKeeps DEF IndInv, CallStep
<1> QED
  BY <1>2, <1>3, <1>4, <1>5, <1>6, <1>7, <1>8, <1>9 DEF Next

LEMMA IndInvAlways == Spec => []IndInv
  BY IndInvInit, IndInvStep, PTL DEF Spec

-----------------------------------------------------------------------------
(* The properties *)

\* Nodes, scores, start-up and calls stay within the states the module describes; in
\* particular best_beacon_node always has a node to return when it is used.
THEOREM TypeCorrect == Spec => []TypeOK
<1>1. ASSUME IndInv
      PROVE  TypeOK
  <2>1. /\ call.kind \in Kinds
        /\ call.phase \in {"timed", "next", "gather"} \cup Ended
        /\ call.asked \subseteq Node
        /\ call.arrived \in Seq(Response)
        /\ call.best \in Response \cup {NoResponse}
        /\ call.timeUp \in BOOLEAN
        /\ call.responses \subseteq Response
    BY <1>1 DEF IndInv, CallInv, CallShape, CallRecord, Waiting
  <2>2. call.accepted \subseteq call.running /\ call.running \subseteq call.asked
    BY <1>1 DEF IndInv, CallInv, CallShape
  <2> QED
    BY <1>1, <2>1, <2>2 DEF TypeOK, IndInv, PlainTypes, NodesReady
<1> QED
  BY <1>1, IndInvAlways, PTL

\* A block or an aggregate that is returned is one that a node gave, and none that came
\* in time is worth more, for any number of nodes and in any order of their answers.
THEOREM BestReturned == Spec => []BestAnswerReturned
<1>1. IndInv => BestAnswerReturned
  BY DEF IndInv, CallInv
<1> QED
  BY <1>1, IndInvAlways, PTL

\* No call raises while a node it asked may still answer, or after one did.
THEOREM RaisesRightly == Spec => []RaisesOnlyWithoutAnswer
<1>1. IndInv => RaisesOnlyWithoutAnswer
  BY DEF IndInv, CallInv
<1> QED
  BY <1>1, IndInvAlways, PTL

-----------------------------------------------------------------------------
(* Enough nodes, and no call that waits for nothing *)

\* The services run with at least as many nodes as must agree.
EnoughNodes == boot = "ready" => Cardinality(initialized) >= Threshold

\* A call that has not ended asked some node, and a request is still running or a
\* response is there to be looked at: it never waits for what cannot come.
CallWaitsForSomething ==
    call.phase \in Waiting => /\ call.asked # {}
                              /\ call.running # {} \/ call.arrived # <<>>

LEMMA EnoughStep ==
    ASSUME NodesReady, NodesReady', EnoughNodes, [Next]_vars
    PROVE  EnoughNodes'
<1>1. ASSUME UNCHANGED initialized, boot' = "ready" => boot = "ready"
      PROVE  EnoughNodes'
  BY <1>1 DEF EnoughNodes
<1>2. ASSUME NEW n \in Main, Initialize(n)
      PROVE  EnoughNodes'
  <2>1. initialized \subseteq initialized' /\ boot' = boot
    BY <1>2 DEF Initialize
  <2>2. IsFiniteSet(initialized')
    BY NodeAssumption, FS_Subset DEF NodesReady
  <2>3. /\ IsFiniteSet(initialized)
        /\ Cardinality(initialized) <= Cardinality(initialized')
    BY <2>1, <2>2, FS_Subset
  <2>4. /\ Cardinality(initialized) \in Nat /\ Cardinality(initialized') \in Nat
        /\ Cardinality(Main) \in Nat
    BY <2>2, <2>3, NodeAssumption, FS_CardinalityType
  <2> QED
    BY <2>1, <2>3, <2>4, ThresholdAssumption DEF EnoughNodes
<1>3. CASE PollNodes
  BY <1>3 DEF PollNodes, EnoughNodes
<1>4. CASE \/ UNCHANGED vars \/ DeadlinePasses \/ TimeoutPasses \/ EndGatherOfNodes
           \/ CallStep \/ \E n \in Main : RetryInitialize(n)
  BY <1>1, <1>4 DEF vars, bootVars, DeadlinePasses, TimeoutPasses, EndGatherOfNodes,
                    CallStep, HandleDone, HandleNext, HandleAll, RetryInitialize
<1>5. CASE \/ \E n \in Node, s \in {"up", "down", "bad"} : ChangeStatus(n, s)
           \/ \E kind \in Kinds : StartCall(kind)
           \/ \E n \in Node : Accept(n) \/ Answer(n) \/ Fail(n)
  BY <1>1, <1>5 DEF bootVars, ChangeStatus, StartCall, Accept, Answer, Fail
<1> QED
  BY <1>2, <1>3, <1>4, <1>5 DEF Next

\* There is a node to ask whenever a call may start.
LEMMA StartCallAsks ==
    ASSUME NodesReady, NEW kind \in Kinds, StartCall(kind)
    PROVE  CallWaitsForSomething'
<1>1. PICK nodes \in AskedBy(kind) :
          call' = [NoCall EXCEPT
                     !.kind = kind,
                     !.phase = CASE kind \in {"best", "version", "first"} -> "next"
                                 [] kind = "block" -> "timed"
                                 [] OTHER -> "gather",
                     !.asked = nodes,
                     !.running = nodes]
  BY DEF StartCall
<1>2. kind = "version" \/ initialized # {}
  BY DEF StartCall, NodesReady
<1>3. nodes # {}
  BY <1>1, <1>2 DEF AskedBy, BlockNodes, Kinds
<1>4. call'.asked = nodes /\ call'.running = nodes
  BY <1>1 DEF NoCall
<1> QED
  BY <1>3, <1>4 DEF CallWaitsForSomething

\* A request that ends leaves a response.
LEMMA CompleteWaits ==
    ASSUME CallShape, CallWaitsForSomething, NEW n, NEW value, n \in call.running,
           Complete(n, value)
    PROVE  CallWaitsForSomething'
<1> DEFINE response == [node |-> n, value |-> value, inTime |-> ~call.timeUp]
<1>1. call'.arrived = Append(call.arrived, response) /\ call'.asked = call.asked
  BY DEF Complete, CallShape, CallRecord
<1>2. call.arrived \in Seq(Response)
  BY DEF CallShape, CallRecord
<1>3. call'.arrived # <<>>
  BY <1>1, <1>2
<1>4. call.asked # {}
  BY DEF CallShape
<1> QED
  BY <1>1, <1>3, <1>4 DEF CallWaitsForSomething

LEMMA HandleDoneWaits ==
    ASSUME CallShape, CallWaitsForSomething, HandleDone
    PROVE  CallWaitsForSomething'
<1>1. PICK best \in BestOf(call.best, ToSet(call.arrived)) :
          call' = AfterWait([call EXCEPT !.best = best, !.arrived = <<>>])
  BY DEF HandleDone
<1> DEFINE c == [call EXCEPT !.best = best, !.arrived = <<>>]
<1>2. c.running = call.running /\ c.asked = call.asked /\ c.phase = "timed"
  BY DEF HandleDone, CallShape, CallRecord
<1>3. DOMAIN c = DOMAIN call
  OBVIOUS
<1>4. call.asked # {}
  BY DEF HandleDone, CallWaitsForSomething, Waiting
<1> HIDE DEF c
<1>5. CASE c.running # {} /\ ~c.timeUp
  BY <1>1, <1>2, <1>4, <1>5 DEF AfterWait, CallWaitsForSomething, c
<1>6. CASE c.running # {} /\ c.timeUp /\ c.best.value = Failed
  <2>1. call' = [c EXCEPT !.phase = "next"]
    BY <1>1, <1>6 DEF AfterWait, c
  <2>2. call'.running = c.running /\ call'.asked = c.asked
    BY <2>1
  <2> QED
    BY <1>2, <1>4, <1>6, <2>2 DEF CallWaitsForSomething
<1>7. CASE \/ c.running = {}
           \/ c.timeUp /\ c.best.value # Failed
  <2>1. \E phase \in Ended : call' = EndWith(c, phase)
    BY <1>1, <1>7 DEF AfterWait, Ended, c
  <2>2. call'.phase \in Ended
    BY <1>2, <1>3, <2>1 DEF EndWith, CallShape, CallRecord, HandleDone
  <2> QED
    BY <2>2 DEF CallWaitsForSomething, Waiting, Ended
<1> QED
  BY <1>5, <1>6, <1>7 DEF c

LEMMA HandleNextWaits ==
    ASSUME CallShape, CallWaitsForSomething, HandleNext
    PROVE  CallWaitsForSomething'
<1> DEFINE response == Head(call.arrived)
           rest == [call EXCEPT !.arrived = Tail(@)]
<1>1. call' = IF response.value # Failed
              THEN EndWith([rest EXCEPT !.best = response], "returned")
              ELSE IF rest.running = {} /\ rest.arrived = <<>>
              THEN EndWith(rest, "raised")
              ELSE rest
  BY DEF HandleNext
<1>2. call \in CallRecord /\ call.phase = "next" /\ call.asked # {}
  BY DEF HandleNext, CallShape, CallWaitsForSomething, Waiting
<1>3. rest.asked = call.asked
  BY <1>2 DEF CallRecord
<1>4. /\ EndWith([rest EXCEPT !.best = response], "returned").phase = "returned"
      /\ EndWith(rest, "raised").phase = "raised"
  BY <1>2 DEF EndWith, CallRecord
<1> HIDE DEF rest, response
<1> QED
  BY <1>1, <1>2, <1>3, <1>4 DEF CallWaitsForSomething, Waiting

LEMMA WaitsStep ==
    ASSUME IndInv, CallWaitsForSomething, [Next]_vars
    PROVE  CallWaitsForSomething'
<1>1. CallShape /\ NodesReady
  BY DEF IndInv, CallInv
<1>2. ASSUME call' = call PROVE CallWaitsForSomething'
  BY <1>2 DEF CallWaitsForSomething
<1>3. CASE \/ UNCHANGED vars \/ DeadlinePasses \/ EndGatherOfNodes \/ PollNodes
           \/ \E n \in Main : Initialize(n) \/ RetryInitialize(n)
           \/ \E n \in Node, s \in {"up", "down", "bad"} : ChangeStatus(n, s)
  BY <1>2, <1>3 DEF vars, DeadlinePasses, EndGatherOfNodes, PollNodes, Initialize,
                    RetryInitialize, ChangeStatus
<1>4. CASE TimeoutPasses
  <2>1. /\ call'.phase = call.phase /\ call'.asked = call.asked
        /\ call'.running = call.running /\ call'.arrived = call.arrived
    BY <1>1, <1>4 DEF TimeoutPasses, CallShape, CallRecord
  <2> QED
    BY <2>1 DEF CallWaitsForSomething
<1>5. ASSUME NEW n \in Node, Accept(n)
      PROVE  CallWaitsForSomething'
  <2>1. /\ call'.phase = call.phase /\ call'.asked = call.asked
        /\ call'.running = call.running /\ call'.arrived = call.arrived
    BY <1>1, <1>5 DEF Accept, CallShape, CallRecord
  <2> QED
    BY <2>1 DEF CallWaitsForSomething
<1>6. ASSUME NEW n \in Node, Answer(n) \/ Fail(n)
      PROVE  CallWaitsForSomething'
  <2>1. n \in call.running
    BY <1>1, <1>6 DEF Answer, Fail, CallShape
  <2>2. \E value : Complete(n, value)
    BY <1>6 DEF Answer, Fail
  <2> QED
    BY <1>1, <2>1, <2>2, CompleteWaits
<1>7. CASE HandleAll
  <2>1. call'.phase \in Ended
    BY <1>1, <1>7 DEF HandleAll, EndWith, CallShape, CallRecord, Ended
  <2> QED
    BY <2>1 DEF CallWaitsForSomething, Waiting, Ended
<1>8. CASE CallStep
  BY <1>1, <1>7, <1>8, HandleDoneWaits, HandleNextWaits DEF CallStep
<1>9. ASSUME NEW kind \in Kinds, StartCall(kind)
      PROVE  CallWaitsForSomething'
  BY <1>1, <1>9, StartCallAsks
<1> QED
  BY <1>3, <1>4, <1>5, <1>6, <1>8, <1>9 DEF Next

\* When start-up has ended well, Threshold nodes are initialized, then and for good: what
\* AttestationConsensus and AttestationDataProvider suppose of their hosts.
THEOREM EnoughNodesReady == Spec => []EnoughNodes
<1>1. Init => EnoughNodes
  BY DEF Init, EnoughNodes
<1>2. IndInv /\ IndInv' /\ EnoughNodes /\ [Next]_vars => EnoughNodes'
  BY EnoughStep DEF IndInv
<1> QED
  BY <1>1, <1>2, IndInvAlways, PTL DEF Spec

\* No call is left waiting with nothing to wait for, in whichever way the nodes fail: what
\* remains of CallsEnd is that requests end.
THEOREM NoCallIsStuck == Spec => []CallWaitsForSomething
<1>1. Init => CallWaitsForSomething
  BY DEF Init, CallWaitsForSomething, NoCall, Waiting
<1>2. IndInv /\ CallWaitsForSomething /\ [Next]_vars => CallWaitsForSomething'
  BY WaitsStep
<1> QED
  BY <1>1, <1>2, IndInvAlways, PTL DEF Spec
=============================================================================
