----------------------- MODULE AttestationDataProofs -----------------------
(***************************************************************************)
(* Proofs about AttestationConsensus and AttestationDataProvider, which    *)
(* falls back to it: for any finite set of hosts, any AttestationData and  *)
(* any threshold the command line accepts; any number of overlapping calls *)
(* and any pruning.                                                        *)
(*                                                                         *)
(* The consensus: the inductive invariant is ConsensusTypeOK,              *)
(* CounterIsSupport (the counter counts hosts) and Decided (what phase and *)
(* result say of the counter); the properties of the run follow from it.   *)
(*                                                                         *)
(* The provider: what nodes said is never taken back, so whatever is       *)
(* backed stays so; the inductive invariant adds to the two properties of  *)
(* the run that a call only counts nodes that said what it counts them for.*)
(*                                                                         *)
(* Both implement QuorumAgreement, which is why one may stand for the      *)
(* other.                                                                  *)
(***************************************************************************)
EXTENDS AttestationConsensus, AttestationDataProvider, FiniteSetTheorems, TLAPS

-----------------------------------------------------------------------------
(* Hosts and the threshold *)

\* The threshold is a positive number.
LEMMA ThresholdType == Threshold \in Nat /\ Threshold >= 1
<1>1. Cardinality(Host) \in Nat
  BY HostAssumption, FS_CardinalityType
<1> QED
  BY <1>1, ThresholdAssumption

\* Nodes that are among others, both of them hosts, are no more than those.
LEMMA HostsMonotone ==
    ASSUME NEW S, NEW T, S \subseteq T, T \subseteq Host, Cardinality(S) >= Threshold
    PROVE  Cardinality(T) >= Threshold
<1>1. IsFiniteSet(T)
  BY HostAssumption, FS_Subset
<1>2. IsFiniteSet(S) /\ Cardinality(S) <= Cardinality(T)
  BY <1>1, FS_Subset
<1>3. Cardinality(S) \in Nat /\ Cardinality(T) \in Nat
  BY <1>1, <1>2, FS_CardinalityType
<1> QED
  BY <1>2, <1>3, ThresholdType

\* Nodes of which there are Threshold do not all belong to fewer than that.
LEMMA NotAllWrong ==
    ASSUME NEW S \in SUBSET Host, Cardinality(S) >= Threshold,
           NEW Wrong \in SUBSET Host, Cardinality(Wrong) < Threshold
    PROVE  \E h \in Host \ Wrong : h \in S
<1>1. CASE S \subseteq Wrong
  <2>1. Cardinality(Wrong) >= Threshold
    BY <1>1, HostsMonotone
  <2>2. Cardinality(Wrong) \in Nat
    BY HostAssumption, FS_Subset, FS_CardinalityType
  <2> QED
    BY <2>1, <2>2, ThresholdType
<1>2. CASE ~(S \subseteq Wrong)
  BY <1>2
<1> QED
  BY <1>1, <1>2

\* Two sets of hosts with the default threshold, a majority of the beacon nodes, meet.
LEMMA MajoritiesMeet ==
    ASSUME Threshold >= MajorityOf(Cardinality(Host)),
           NEW S \in SUBSET Host, NEW T \in SUBSET Host,
           Cardinality(S) >= Threshold, Cardinality(T) >= Threshold
    PROVE  S \cap T # {}
<1>1. /\ Cardinality(Host) \in Nat
      /\ Cardinality(S) \in Nat /\ Cardinality(T) \in Nat
  BY HostAssumption, FS_Subset, FS_CardinalityType
<1>2. Cardinality(S) + Cardinality(T) > Cardinality(Host)
  BY <1>1, ThresholdType DEF MajorityOf
<1> QED
  BY <1>2, HostAssumption, FS_MajoritiesIntersect

-----------------------------------------------------------------------------
(* The consensus *)

\* While the call is asking, no counter has reached the threshold; once it
\* returned, the counter of its result has.
Decided ==
    /\ phase \in {"round", "sleep"} => /\ \A d \in Data : attDataCounter[d] < Threshold
                                       /\ result = NoData
    /\ phase = "cancelled" => result = NoData
    /\ phase = "returned" => /\ result \in Data
                             /\ attDataCounter[result] >= Threshold

ConsensusInv == ConsensusTypeOK /\ CounterIsSupport /\ Decided

-----------------------------------------------------------------------------

\* The hosts that support an AttestationData are finitely many.
LEMMA SupportersFinite ==
    ASSUME NEW d
    PROVE  /\ IsFiniteSet(Supporters(d))
           /\ Cardinality(Supporters(d)) \in Nat
<1>1. Supporters(d) \subseteq Host
  BY DEF Supporters
<1>2. IsFiniteSet(Supporters(d))
  BY <1>1, HostAssumption, FS_Subset
<1> QED
  BY <1>2, FS_CardinalityType

\* Recount moves one unit from the previous answer of a host to the new one, as
\* the supporters of both change.
LEMMA RecountIsSupport ==
    ASSUME hostToAttData \in [Host -> Data \cup {NoData}],
           attDataCounter \in [Data -> Nat],
           CounterIsSupport,
           NEW h \in Host, NEW d \in Data, d # hostToAttData[h],
           hostToAttData' = [hostToAttData EXCEPT ![h] = d],
           attDataCounter' = Recount(attDataCounter, hostToAttData[h], d)
    PROVE  /\ attDataCounter' \in [Data -> Nat]
           /\ CounterIsSupport'
           /\ \A x \in Data \ {d} : attDataCounter'[x] <= attDataCounter[x]
<1> DEFINE prev == hostToAttData[h]
<1>1. /\ attDataCounter'[d] = attDataCounter[d] + 1
      /\ attDataCounter'[d] = Cardinality(Supporters(d)')
  <2>1. Supporters(d)' = Supporters(d) \cup {h} /\ h \notin Supporters(d)
    BY DEF Supporters
  <2>2. Cardinality(Supporters(d)') = Cardinality(Supporters(d)) + 1
    BY <2>1, SupportersFinite, FS_AddElement
  <2> QED
    BY <2>2 DEF Recount, CounterIsSupport
<1>2. ASSUME NEW x \in Data, x # d, x = prev
      PROVE  /\ attDataCounter'[x] = attDataCounter[x] - 1
             /\ attDataCounter'[x] = Cardinality(Supporters(x)')
             /\ attDataCounter'[x] \in Nat
  <2>1. Supporters(x)' = Supporters(x) \ {h} /\ h \in Supporters(x)
    BY <1>2 DEF Supporters
  <2>2. Cardinality(Supporters(x)') = Cardinality(Supporters(x)) - 1
    BY <2>1, SupportersFinite, FS_RemoveElement
  <2>3. Cardinality(Supporters(x)') \in Nat
    BY <2>1, SupportersFinite, FS_RemoveElement, FS_CardinalityType
  <2> QED
    BY <1>2, <2>2, <2>3 DEF Recount, CounterIsSupport
<1>3. ASSUME NEW x \in Data, x # d, x # prev
      PROVE  /\ attDataCounter'[x] = attDataCounter[x]
             /\ attDataCounter'[x] = Cardinality(Supporters(x)')
  <2>1. Supporters(x)' = Supporters(x)
    BY <1>3 DEF Supporters
  <2> QED
    BY <1>3, <2>1 DEF Recount, CounterIsSupport
<1>4. attDataCounter' \in [Data -> Nat]
  <2>1. attDataCounter' = [x \in Data |-> attDataCounter'[x]]
    BY DEF Recount
  <2>2. \A x \in Data : attDataCounter'[x] \in Nat
    BY <1>1, <1>2, <1>3
  <2> QED
    BY <2>1, <2>2
<1>5. CounterIsSupport'
  BY <1>1, <1>2, <1>3 DEF CounterIsSupport
<1>6. \A x \in Data \ {d} : attDataCounter'[x] <= attDataCounter[x]
  BY <1>2, <1>3
<1> QED
  BY <1>4, <1>5, <1>6

-----------------------------------------------------------------------------

\* The initial states satisfy the invariant: nothing was answered yet, and a
\* threshold of at least one is not reached by nobody.
LEMMA ConsensusInvInit == ConsensusInit => ConsensusInv
<1> SUFFICES ASSUME ConsensusInit PROVE ConsensusInv
  OBVIOUS
<1>1. ConsensusTypeOK
  BY DEF ConsensusInit, ConsensusTypeOK, Response
<1>2. CounterIsSupport
  <2>1. \A d \in Data : Supporters(d) = {}
    BY NoDataAssumption DEF ConsensusInit, Supporters
  <2> QED
    BY <2>1, FS_EmptySet DEF ConsensusInit, CounterIsSupport
<1>3. Decided
  BY ThresholdType DEF ConsensusInit, Decided
<1> QED
  BY <1>1, <1>2, <1>3 DEF ConsensusInv

\* A step that leaves the answers, the counter, the phase's side of the decision
\* and the result alone keeps the invariant, if it keeps the types.
LEMMA ConsensusInvFrame ==
    ASSUME ConsensusInv, ConsensusTypeOK',
           UNCHANGED <<hostToAttData, attDataCounter, result>>,
           \/ phase' = phase
           \/ phase \in {"round", "sleep"} /\ phase' \in {"round", "sleep", "cancelled"}
    PROVE  ConsensusInv'
<1>1. CounterIsSupport'
  BY DEF ConsensusInv, CounterIsSupport, Supporters
<1>2. Decided'
  BY DEF ConsensusInv, Decided
<1> QED
  BY <1>1, <1>2 DEF ConsensusInv

\* What the environment does to the nodes is invisible to the call, except
\* through the responses.
LEMMA ConsensusInvNodeStep == ConsensusInv /\ NodeStep => ConsensusInv'
<1> SUFFICES ASSUME ConsensusInv, NodeStep PROVE ConsensusInv'
  OBVIOUS
<1> USE DEF ConsensusInv
<1>1. PICK h \in Host : \/ InitializeNode(h)
                        \/ \E d \in Data : ChangeView(h, d)
                        \/ ChangeHealth(h)
                        \/ Respond(h)
  BY DEF NodeStep
<1>2. UNCHANGED <<phase, hostToAttData, attDataCounter, result>>
  BY <1>1 DEF InitializeNode, ChangeView, ChangeHealth, Respond, taskVars
<1>3. ConsensusTypeOK'
  <2>1. CASE InitializeNode(h)
    BY <2>1 DEF InitializeNode, ConsensusTypeOK, taskVars
  <2>2. CASE \E d \in Data : ChangeView(h, d)
    BY <2>2 DEF ChangeView, ConsensusTypeOK, taskVars
  <2>3. CASE ChangeHealth(h)
    BY <2>3 DEF ChangeHealth, ConsensusTypeOK, taskVars
  <2>4. CASE Respond(h)
    <3>1. [host |-> h, data |-> IF h \in healthy THEN view[h] ELSE NoData] \in Response
      BY DEF ConsensusTypeOK, Response
    <3>2. completed' \in Seq(Response)
      BY <2>4, <3>1 DEF Respond, ConsensusTypeOK
    <3> QED
      BY <2>4, <3>2 DEF Respond, ConsensusTypeOK, nodeVars
  <2> QED
    BY <1>1, <2>1, <2>2, <2>3, <2>4
<1> QED
  BY <1>2, <1>3, ConsensusInvFrame

\* A new answer: the counter follows the supporters, and the call returns
\* exactly when the counter of the new answer reaches the threshold.
LEMMA ConsensusInvProcess == ConsensusInv /\ ProcessResponse => ConsensusInv'
<1> SUFFICES ASSUME ConsensusInv, ProcessResponse PROVE ConsensusInv'
  OBVIOUS
<1> USE DEF ConsensusInv
<1> DEFINE h == Head(completed).host
           d == Head(completed).data
<1>1. /\ h \in Host /\ d \in Data
      /\ Tail(completed) \in Seq(Response)
  <2>1. Head(completed) \in Response /\ Tail(completed) \in Seq(Response)
    BY DEF ProcessResponse, HandleNewAnswer, ConsensusTypeOK
  <2> QED
    BY <2>1 DEF ProcessResponse, HandleNewAnswer, Response
<1>2. /\ d # hostToAttData[h]
      /\ hostToAttData' = [hostToAttData EXCEPT ![h] = d]
      /\ attDataCounter' = Recount(attDataCounter, hostToAttData[h], d)
  BY DEF ProcessResponse, HandleNewAnswer
<1>3. /\ attDataCounter' \in [Data -> Nat]
      /\ CounterIsSupport'
      /\ \A x \in Data \ {d} : attDataCounter'[x] <= attDataCounter[x]
  <2> HIDE DEF h, d
  <2> QED
    BY <1>1, <1>2, RecountIsSupport DEF ConsensusTypeOK
<1>4. ConsensusTypeOK'
  <2>1. hostToAttData' \in [Host -> Data \cup {NoData}]
    BY <1>1, <1>2 DEF ConsensusTypeOK
  <2>2. CASE attDataCounter'[d] >= Threshold
    <3>1. /\ phase' = "returned" /\ result' = d /\ requested' = {} /\ completed' = <<>>
          /\ UNCHANGED nodeVars
      BY <2>2 DEF ProcessResponse, HandleNewAnswer
    <3> QED
      BY <1>1, <1>3, <2>1, <3>1 DEF ConsensusTypeOK, nodeVars
  <2>3. CASE ~(attDataCounter'[d] >= Threshold)
    BY <1>1, <1>3, <2>1, <2>3
       DEF ProcessResponse, HandleNewAnswer, ConsensusTypeOK, nodeVars
  <2> QED
    BY <2>2, <2>3
<1>5. Decided'
  <2>1. CASE attDataCounter'[d] >= Threshold
    BY <1>1, <2>1 DEF ProcessResponse, HandleNewAnswer, Decided
  <2>2. CASE ~(attDataCounter'[d] >= Threshold)
    <3>1. phase = "round" /\ phase' = "round" /\ result' = result
      BY <2>2 DEF ProcessResponse, HandleNewAnswer
    <3>2. \A x \in Data : attDataCounter'[x] < Threshold
      <4>1. \A x \in Data : attDataCounter[x] < Threshold
        BY <3>1 DEF Decided
      <4>2. /\ attDataCounter \in [Data -> Nat] /\ attDataCounter' \in [Data -> Nat]
            /\ \A x \in Data \ {d} : attDataCounter'[x] <= attDataCounter[x]
        BY <1>3 DEF ConsensusTypeOK
      <4> HIDE DEF d
      <4> QED
        BY <1>1, <2>2, <4>1, <4>2, ThresholdType
    <3> QED
      BY <3>1, <3>2 DEF Decided
  <2> QED
    BY <2>1, <2>2
<1> QED
  BY <1>3, <1>4, <1>5

\* The other steps of the call change neither the answers nor the decision.
LEMMA ConsensusInvTaskStep == ConsensusInv /\ TaskStep => ConsensusInv'
<1> SUFFICES ASSUME ConsensusInv, TaskStep PROVE ConsensusInv'
  OBVIOUS
<1> USE DEF ConsensusInv
<1>1. CASE SkipResponse
  <2>1. ConsensusTypeOK'
    BY <1>1 DEF SkipResponse, ConsensusTypeOK, nodeVars
  <2> QED
    BY <1>1, <2>1, ConsensusInvFrame DEF SkipResponse
<1>2. CASE ProcessResponse
  BY <1>2, ConsensusInvProcess
<1>3. CASE EndRound
  <2>1. ConsensusTypeOK'
    BY <1>3 DEF EndRound, ConsensusTypeOK, nodeVars
  <2> QED
    BY <1>3, <2>1, ConsensusInvFrame DEF EndRound
<1>4. CASE StartRound
  <2>1. ConsensusTypeOK'
    BY <1>4 DEF StartRound, ConsensusTypeOK, nodeVars
  <2> QED
    BY <1>4, <2>1, ConsensusInvFrame DEF StartRound
<1>5. CASE CancelTasks
  <2>1. ConsensusTypeOK'
    BY <1>5 DEF CancelTasks, ConsensusTypeOK, nodeVars
  <2> QED
    BY <1>5, <2>1, ConsensusInvFrame DEF CancelTasks
<1> QED
  BY <1>1, <1>2, <1>3, <1>4, <1>5 DEF TaskStep

\* The invariant holds in every reachable state.
THEOREM ConsensusInvAlways == ConsensusSpec => []ConsensusInv
<1>1. ConsensusInit => ConsensusInv
  BY ConsensusInvInit
<1>2. ConsensusInv /\ [ConsensusNext]_consensusVars => ConsensusInv'
  <2> SUFFICES ASSUME ConsensusInv, [ConsensusNext]_consensusVars PROVE ConsensusInv'
    OBVIOUS
  <2>1. CASE NodeStep
    BY <2>1, ConsensusInvNodeStep
  <2>2. CASE TaskStep
    BY <2>2, ConsensusInvTaskStep
  <2>3. CASE UNCHANGED consensusVars
    <3>1. ConsensusTypeOK'
      BY <2>3 DEF ConsensusInv, ConsensusTypeOK, consensusVars, nodeVars, taskVars
    <3> QED
      BY <2>3, <3>1, ConsensusInvFrame DEF consensusVars, taskVars
  <2> QED
    BY <2>1, <2>2, <2>3 DEF ConsensusNext
<1> QED
  BY <1>1, <1>2, PTL DEF ConsensusSpec

-----------------------------------------------------------------------------

\* The variables keep their types.
THEOREM ConsensusTypeCorrect == ConsensusSpec => []ConsensusTypeOK
<1>1. ConsensusInv => ConsensusTypeOK
  BY DEF ConsensusInv
<1> QED
  BY <1>1, ConsensusInvAlways, PTL

\* att_data_counter counts, for each AttestationData, the distinct hosts whose
\* last answer it is.
THEOREM CounterCorrect == ConsensusSpec => []CounterIsSupport
<1>1. ConsensusInv => CounterIsSupport
  BY DEF ConsensusInv
<1> QED
  BY <1>1, ConsensusInvAlways, PTL

\* The AttestationData returned without a head event is backed by a threshold of
\* distinct beacon nodes.
THEOREM ResultBacked == ConsensusSpec => []ResultHasThreshold
<1>1. ConsensusInv => ResultHasThreshold
  BY DEF ConsensusInv, ResultHasThreshold, CounterIsSupport, Decided, ConsensusTypeOK
<1> QED
  BY <1>1, ConsensusInvAlways, PTL

\* The call that is still asking has not overlooked an agreement.
THEOREM NothingOverlooked == ConsensusSpec => []NoOverlookedAgreement
<1>1. ConsensusInv => NoOverlookedAgreement
  BY DEF ConsensusInv, NoOverlookedAgreement, CounterIsSupport, Decided
<1> QED
  BY <1>1, ConsensusInvAlways, PTL

\* The rounds and the counter implement the abstract agreement: a new answer is
\* an abstract answer, every other step changes nothing there.
THEOREM RefinesAgreement == ConsensusSpec => ImplementsAgreement
<1>1. ConsensusInit => Agreement!AgreementInit
  BY DEF ConsensusInit, Agreement!AgreementInit
<1>2. ConsensusInv /\ ConsensusInv' /\ [ConsensusNext]_consensusVars
         => [Agreement!AgreementNext]_Agreement!agreementVars
  <2> SUFFICES ASSUME ConsensusInv, ConsensusInv', [ConsensusNext]_consensusVars
               PROVE  [Agreement!AgreementNext]_Agreement!agreementVars
    OBVIOUS
  <2>1. CASE ProcessResponse
    <3> DEFINE h == Head(completed).host
               d == Head(completed).data
    <3>1. h \in Host /\ d \in Data
      <4>1. Head(completed) \in Response
        BY <2>1 DEF ProcessResponse, HandleNewAnswer, ConsensusInv, ConsensusTypeOK
      <4> QED
        BY <2>1, <4>1 DEF ProcessResponse, HandleNewAnswer, Response
    <3>2. /\ result = NoData
          /\ hostToAttData[h] # d
          /\ hostToAttData' = [hostToAttData EXCEPT ![h] = d]
          /\ result' = IF attDataCounter'[d] >= Threshold THEN d ELSE NoData
      BY <2>1 DEF ProcessResponse, HandleNewAnswer, ConsensusInv, Decided
    <3>3. attDataCounter'[d] >= Threshold
            <=> {x \in Host : hostToAttData'[x] = d} \in Quorum
      <4> HIDE DEF d
      <4> QED
        BY <3>1 DEF ConsensusInv, CounterIsSupport, Supporters, Quorum
    <3>4. Agreement!Answer(h, d)
      <4> HIDE DEF h, d
      <4> QED
        BY <3>1, <3>2, <3>3 DEF Agreement!Answer, Agreement!SupportersIn
    <3> QED
      BY <3>1, <3>4 DEF Agreement!AgreementNext
  <2>2. CASE ~ProcessResponse
    <3>1. UNCHANGED <<hostToAttData, result>>
      BY <2>2
         DEF ConsensusNext, NodeStep, TaskStep, InitializeNode, ChangeView, ChangeHealth,
             Respond, SkipResponse, EndRound, StartRound, CancelTasks, consensusVars, taskVars
    <3> QED
      BY <3>1 DEF Agreement!agreementVars
  <2> QED
    BY <2>1, <2>2
<1> QED
  BY <1>1, <1>2, ConsensusInvAlways, PTL
     DEF ConsensusSpec, ImplementsAgreement, Agreement!AgreementSpec

\* The abstract agreement does what it is for: a decision has its quorum, and no quorum is
\* overlooked.  It needs no more of quorums than that taking a host away makes none.
THEOREM AgreementDecidesRightly ==
    Agreement!AgreementSpec => []Agreement!DecisionIsAgreement
<1> DEFINE Inv == Agreement!AnswersOK /\ Agreement!DecisionIsAgreement
<1>1. Agreement!AgreementInit => Inv
  <2> SUFFICES ASSUME Agreement!AgreementInit, NEW d \in Data
               PROVE  Agreement!SupportersIn(hostToAttData, d) \notin Quorum
    BY DEF Agreement!AgreementInit, Agreement!AnswersOK, Agreement!DecisionIsAgreement
  <2>1. Agreement!SupportersIn(hostToAttData, d) = {}
    BY NoDataAssumption DEF Agreement!AgreementInit, Agreement!SupportersIn
  <2> QED
    BY <2>1, ThresholdType, FS_EmptySet DEF Quorum
<1>2. Inv /\ [Agreement!AgreementNext]_(Agreement!agreementVars) => Inv'
  <2>1. CASE UNCHANGED Agreement!agreementVars
    BY <2>1 DEF Agreement!agreementVars, Agreement!AnswersOK,
                Agreement!DecisionIsAgreement, Agreement!SupportersIn
  <2>2. ASSUME Inv, NEW h \in Host, NEW d \in Data, Agreement!Answer(h, d)
        PROVE  Inv'
    <3>1. Agreement!AnswersOK'
      BY <2>2 DEF Agreement!AnswersOK, Agreement!Answer
    <3> DEFINE after(e) == {g \in Host : hostToAttData'[g] = e}
    <3>2. CASE after(d) \in Quorum
      BY <2>2, <3>1, <3>2, NoDataAssumption
         DEF Agreement!Answer, Agreement!SupportersIn, Agreement!DecisionIsAgreement
    <3>3. ASSUME NEW e \in Data, e # d
          PROVE  after(e) \notin Quorum
      <4> DEFINE before == {g \in Host : hostToAttData[g] = e}
      <4>1. before \notin Quorum
        BY <2>2 DEF Agreement!Answer, Agreement!SupportersIn, Agreement!DecisionIsAgreement
      <4>2. after(e) \subseteq before /\ before \subseteq Host
        BY <2>2, <3>3 DEF Agreement!Answer, Agreement!AnswersOK
      <4> HIDE DEF before, after
      <4>3. Cardinality(after(e)) >= Threshold => Cardinality(before) >= Threshold
        BY <4>2, HostsMonotone
      <4> QED
        BY <4>1, <4>2, <4>3 DEF Quorum
    <3>4. CASE after(d) \notin Quorum
      BY <2>2, <3>1, <3>3, <3>4
         DEF Agreement!Answer, Agreement!SupportersIn, Agreement!DecisionIsAgreement
    <3> QED
      BY <3>1, <3>2, <3>4
  <2> QED
    BY <2>1, <2>2 DEF Agreement!AgreementNext
<1>3. Inv => Agreement!DecisionIsAgreement
  OBVIOUS
<1> QED
  BY <1>1, <1>2, <1>3, PTL DEF Agreement!AgreementSpec

\* With the default threshold no two different AttestationData can both have enough
\* supporters, whatever the hosts answered.
THEOREM DefaultThresholdIsExclusive ==
    ASSUME Threshold >= MajorityOf(Cardinality(Host)),
           NEW d1 \in Data, NEW d2 \in Data,
           Cardinality(Supporters(d1)) >= Threshold,
           Cardinality(Supporters(d2)) >= Threshold
    PROVE  d1 = d2
<1>1. Supporters(d1) \in SUBSET Host /\ Supporters(d2) \in SUBSET Host
  BY DEF Supporters
<1>2. Supporters(d1) \cap Supporters(d2) # {}
  BY <1>1, MajoritiesMeet
<1> QED
  BY <1>2 DEF Supporters

-----------------------------------------------------------------------------
(* The provider *)

\* A call that has AttestationData has some of Data; those who confirmed it have
\* reported its checkpoints; what it returned is backed.
CallCounts(c) ==
    /\ pc[c] \in {"idle", "fetch"} => confirmed[c] = {}
    /\ pc[c] \in {"confirm", "returned"} => attData[c] \in Data
    /\ pc[c] = "confirm" =>
           confirmed[c] \subseteq SaidSource(attData[c].source)
                                  \cap SaidTarget(attData[c].target)
    /\ pc[c] = "returned" => Backed(attData[c])

CallsCount == \A c \in Call : CallCounts(c)

AnswersAreSaid ==
    \A c \in Call, h \in Host : answers[c][h] # NoData => answers[c][h] \in said[h]

IndInv ==
    /\ TypeOK
    /\ CallsCount
    /\ AnswersAreSaid
    /\ CacheIsBacked

-----------------------------------------------------------------------------
(* What is said stays said *)

\* No step takes back what a node said.
LEMMA SaidGrows ==
    ASSUME TypeOK, [Next]_vars
    PROVE  \A h \in Host : said[h] \subseteq said'[h]
<1>1. CASE UNCHANGED said
  BY <1>1
<1>2. ASSUME NEW h \in Host, NEW d \in Data, Say(h, d)
      PROVE  \A g \in Host : said[g] \subseteq said'[g]
  BY <1>2 DEF Say, TypeOK
<1>3. CASE UNCHANGED vars \/ Prune
  BY <1>1, <1>3 DEF vars, Prune
<1>4. ASSUME NEW c \in Call, CallStep(c)
      PROVE  \A g \in Host : said[g] \subseteq said'[g]
  <2>1. ASSUME NEW b \in Blocks \cup {NoBlock}, Start(c, b)
        PROVE  UNCHANGED said
    BY <2>1 DEF Start
  <2>2. ASSUME NEW h \in Host, NEW d \in Data,
               FirstAnswer(c, h, d) \/ Confirm(c, h, d) \/ Agree(c, h, d)
        PROVE  Say(h, d)
    BY <2>2 DEF FirstAnswer, Confirm, Agree
  <2>3. ASSUME GiveUp(c) \/ Cancel(c) \/ Forget(c)
        PROVE  UNCHANGED said
    BY <2>3 DEF GiveUp, Cancel, Forget
  <2> QED
    BY <1>1, <1>2, <1>4, <2>1, <2>2, <2>3 DEF CallStep
<1> QED
  BY <1>3, <1>4 DEF Next

\* A checkpoint that is backed stays backed.
LEMMA BackedGrows ==
    ASSUME \A h \in Host : said[h] \subseteq said'[h]
    PROVE  /\ \A cp : /\ SaidSource(cp) \subseteq SaidSource(cp)'
                      /\ SaidTarget(cp) \subseteq SaidTarget(cp)'
           /\ \A cp : Cardinality(SaidSource(cp)) >= Threshold =>
                          Cardinality(SaidSource(cp)') >= Threshold
           /\ \A cp : Cardinality(SaidTarget(cp)) >= Threshold =>
                          Cardinality(SaidTarget(cp)') >= Threshold
<1>1. ASSUME NEW cp
      PROVE  /\ SaidSource(cp) \subseteq SaidSource(cp)'
             /\ SaidTarget(cp) \subseteq SaidTarget(cp)'
             /\ SaidSource(cp)' \subseteq Host /\ SaidTarget(cp)' \subseteq Host
  BY DEF SaidSource, SaidTarget
<1>2. ASSUME NEW cp, Cardinality(SaidSource(cp)) >= Threshold
      PROVE  Cardinality(SaidSource(cp)') >= Threshold
  BY <1>1, <1>2, HostsMonotone
<1>3. ASSUME NEW cp, Cardinality(SaidTarget(cp)) >= Threshold
      PROVE  Cardinality(SaidTarget(cp)') >= Threshold
  BY <1>1, <1>3, HostsMonotone
<1> QED
  BY <1>1, <1>2, <1>3
-----------------------------------------------------------------------------
(* Types *)

LEMMA TypeInit == Init => TypeOK
  BY DEF Init, TypeOK, NoAnswers

LEMMA TypeStep == TypeOK /\ CallsCount /\ [Next]_vars => TypeOK'
<1> SUFFICES ASSUME TypeOK, CallsCount, [Next]_vars
             PROVE  TypeOK'
  OBVIOUS
<1>1. CASE UNCHANGED vars
  BY <1>1 DEF vars, cacheVars, callVars, TypeOK
<1>2. CASE Prune
  BY <1>2 DEF Prune, Pruned, callVars, TypeOK
<1> DEFINE Cached(d) == CacheCheckpoints(d) \/ UNCHANGED cacheVars
<1>3. ASSUME NEW d \in Data, Cached(d)
      PROVE  /\ sourceCache' \in [Epochs -> Sources \cup {NoCheckpoint}]
             /\ targetCache' \in [Epochs -> Targets \cup {NoCheckpoint}]
  <2>1. d.source \in Sources /\ d.target \in Targets
    BY DEF Sources, Targets
  <2>2. CASE CacheCheckpoints(d)
    BY <2>1, <2>2 DEF CacheCheckpoints, TypeOK
  <2>3. CASE UNCHANGED cacheVars
    BY <2>3 DEF cacheVars, TypeOK
  <2> QED
    BY <1>3, <2>2, <2>3
<1>4. ASSUME NEW c \in Call, NEW b \in Blocks \cup {NoBlock}, Start(c, b)
      PROVE  TypeOK'
  BY <1>4 DEF Start, Goto, cacheVars, TypeOK
<1>5. ASSUME NEW c \in Call, NEW h \in Host, NEW d \in Data, FirstAnswer(c, h, d)
      PROVE  TypeOK'
  BY <1>5 DEF FirstAnswer, Say, Goto, cacheVars, TypeOK
<1>6. ASSUME NEW c \in Call, NEW h \in Host, NEW d \in Data, Confirm(c, h, d)
      PROVE  TypeOK'
  <2>1. attData[c] \in Data
    BY <1>6 DEF Confirm, CallsCount, CallCounts
  <2>2. /\ sourceCache' \in [Epochs -> Sources \cup {NoCheckpoint}]
        /\ targetCache' \in [Epochs -> Targets \cup {NoCheckpoint}]
    BY <1>3, <1>6, <2>1 DEF Confirm
  <2> QED
    BY <1>6, <2>2 DEF Confirm, Say, Goto, TypeOK
<1>7. ASSUME NEW c \in Call, NEW h \in Host, NEW d \in Data, Agree(c, h, d)
      PROVE  TypeOK'
  <2>1. /\ sourceCache' \in [Epochs -> Sources \cup {NoCheckpoint}]
        /\ targetCache' \in [Epochs -> Targets \cup {NoCheckpoint}]
    BY <1>3, <1>7 DEF Agree
  <2> QED
    BY <1>7, <2>1 DEF Agree, Say, Goto, TypeOK
<1>8. ASSUME NEW c \in Call, GiveUp(c) \/ Cancel(c)
      PROVE  TypeOK'
  BY <1>8 DEF GiveUp, Cancel, Goto, cacheVars, TypeOK
<1>9. ASSUME NEW c \in Call, Forget(c)
      PROVE  TypeOK'
  <2>1. NoAnswers \in [Host -> Data \cup {NoData}]
    BY DEF NoAnswers
  <2> QED
    BY <1>9, <2>1 DEF Forget, Goto, cacheVars, TypeOK
<1> QED
  BY <1>1, <1>2, <1>4, <1>5, <1>6, <1>7, <1>8, <1>9 DEF Next, CallStep

-----------------------------------------------------------------------------
(* What is cached and returned *)

\* Without a new checkpoint the cache stays backed.
LEMMA CacheKept ==
    ASSUME TypeOK, CacheIsBacked, UNCHANGED cacheVars,
           \A h \in Host : said[h] \subseteq said'[h]
    PROVE  CacheIsBacked'
  BY BackedGrows DEF CacheIsBacked, cacheVars

\* Pruning only takes checkpoints away.
LEMMA PruneKeepsBacked ==
    ASSUME TypeOK, CacheIsBacked, Prune
    PROVE  CacheIsBacked'
<1>1. ASSUME NEW e \in Epochs
      PROVE  /\ sourceCache'[e] \in {sourceCache[e], NoCheckpoint}
             /\ targetCache'[e] \in {targetCache[e], NoCheckpoint}
  BY <1>1 DEF Prune, Pruned
<1>2. said' = said
  BY DEF Prune
<1> QED
  BY <1>1, <1>2 DEF CacheIsBacked, SaidSource, SaidTarget

\* Caching the checkpoints of data that is backed keeps the cache backed.
LEMMA CachingKeepsBacked ==
    ASSUME TypeOK, CacheIsBacked, NEW d \in Data, CacheCheckpoints(d),
           \A h \in Host : said[h] \subseteq said'[h],
           Cardinality(SaidSource(d.source)') >= Threshold,
           Cardinality(SaidTarget(d.target)') >= Threshold
    PROVE  CacheIsBacked'
<1>1. ASSUME NEW e \in Epochs
      PROVE  /\ sourceCache'[e] \in {sourceCache[e], d.source}
             /\ targetCache'[e] \in {targetCache[e], d.target}
  BY <1>1 DEF CacheCheckpoints, TypeOK
<1>2. ASSUME NEW e \in Epochs, sourceCache'[e] # NoCheckpoint
      PROVE  Cardinality(SaidSource(sourceCache[e]))' >= Threshold
  <2>1. PICK cp : cp = sourceCache'[e]
    OBVIOUS
  <2>2. Cardinality(SaidSource(cp)') >= Threshold
    BY <1>1, <1>2, <2>1, BackedGrows DEF CacheIsBacked
  <2> QED
    BY <2>1, <2>2 DEF SaidSource
<1>3. ASSUME NEW e \in Epochs, targetCache'[e] # NoCheckpoint
      PROVE  Cardinality(SaidTarget(targetCache[e]))' >= Threshold
  <2>1. PICK cp : cp = targetCache'[e]
    OBVIOUS
  <2>2. Cardinality(SaidTarget(cp)') >= Threshold
    BY <1>1, <1>3, <2>1, BackedGrows DEF CacheIsBacked
  <2> QED
    BY <2>1, <2>2 DEF SaidTarget
<1> QED
  BY <1>2, <1>3 DEF CacheIsBacked

\* Data whose checkpoints are cached is backed.
LEMMA CachedIsBacked ==
    ASSUME CacheIsBacked, NEW d \in Data, IsCached(d)
    PROVE  Backed(d)
<1>1. /\ d.source.epoch \in Epochs /\ d.target.epoch \in Epochs
      /\ d.source # NoCheckpoint /\ d.target # NoCheckpoint
  BY DataAssumption DEF Sources, Targets
<1> QED
  BY <1>1 DEF CacheIsBacked, IsCached, Backed
-----------------------------------------------------------------------------
(* Calls *)

\* A call that a step does not touch keeps its invariant.
LEMMA UntouchedCall ==
    ASSUME NEW c \in Call, CallCounts(c),
           pc'[c] = pc[c], attData'[c] = attData[c], confirmed'[c] = confirmed[c],
           \A h \in Host : said[h] \subseteq said'[h]
    PROVE  CallCounts(c)'
<1>1. PICK d : d = attData[c]
  OBVIOUS
<1>2. /\ SaidSource(d.source) \subseteq SaidSource(d.source)'
      /\ SaidTarget(d.target) \subseteq SaidTarget(d.target)'
      /\ Cardinality(SaidSource(d.source)) >= Threshold =>
             Cardinality(SaidSource(d.source)') >= Threshold
      /\ Cardinality(SaidTarget(d.target)) >= Threshold =>
             Cardinality(SaidTarget(d.target)') >= Threshold
  BY BackedGrows
<1>3. Backed(d) => Backed(d)'
  BY <1>2 DEF Backed
<1>4. pc[c] = "returned" => Backed(attData[c])'
  BY <1>1, <1>3 DEF CallCounts, Backed, SaidSource, SaidTarget
<1>5. pc[c] = "confirm" =>
          confirmed[c] \subseteq (SaidSource(attData[c].source)
                                  \cap SaidTarget(attData[c].target))'
  BY <1>1, <1>2 DEF CallCounts, SaidSource, SaidTarget
<1> QED
  BY <1>4, <1>5 DEF CallCounts

\* FirstAnswer: the checkpoints are cached, or nobody has confirmed them yet.
LEMMA FirstAnswerCounts ==
    ASSUME IndInv, NEW c \in Call, NEW h \in Host, NEW d \in Data, FirstAnswer(c, h, d),
           \A g \in Host : said[g] \subseteq said'[g]
    PROVE  CallCounts(c)'
<1>1. attData'[c] = d /\ confirmed'[c] = {}
  BY DEF FirstAnswer, IndInv, TypeOK, CallsCount, CallCounts
<1>2. CASE IsCached(d)
  <2>1. Backed(d)
    BY <1>2, CachedIsBacked DEF IndInv
  <2>2. Backed(d)'
    BY <2>1, BackedGrows DEF Backed
  <2>3. pc'[c] = "returned"
    BY <1>2 DEF FirstAnswer, Goto, IndInv, TypeOK
  <2>4. Backed(attData[c])'
    BY <1>1, <2>2 DEF Backed, SaidSource, SaidTarget
  <2> QED
    BY <1>1, <2>3, <2>4 DEF CallCounts
<1>3. CASE ~IsCached(d)
  <2>1. pc'[c] = "confirm"
    BY <1>3 DEF FirstAnswer, Goto, IndInv, TypeOK
  <2> QED
    BY <1>1, <2>1 DEF CallCounts
<1> QED
  BY <1>2, <1>3

\* Confirm: whoever is counted has just said so; at the threshold all is backed.
LEMMA ConfirmCounts ==
    ASSUME IndInv, NEW c \in Call, NEW h \in Host, NEW d \in Data, Confirm(c, h, d),
           \A g \in Host : said[g] \subseteq said'[g]
    PROVE  CallCounts(c)' /\ CacheIsBacked'
<1> USE DEF IndInv
<1>1. PICK a \in Data : a = attData[c]
  BY DEF Confirm, CallsCount, CallCounts
<1>2. /\ pc[c] = "confirm" /\ attData'[c] = a
      /\ confirmed'[c] = confirmed[c] \cup {h}
      /\ d.source = a.source /\ d.target = a.target
      /\ d \in said'[h]
  BY <1>1 DEF Confirm, Say, SameCheckpoints, TypeOK
<1>3. confirmed[c] \subseteq SaidSource(a.source) \cap SaidTarget(a.target)
  BY <1>1, <1>2 DEF CallsCount, CallCounts
<1>4. /\ SaidSource(a.source) \subseteq SaidSource(a.source)'
      /\ SaidTarget(a.target) \subseteq SaidTarget(a.target)'
  BY BackedGrows
<1>5. h \in SaidSource(a.source)' /\ h \in SaidTarget(a.target)'
  BY <1>2 DEF SaidSource, SaidTarget
<1>6. /\ confirmed'[c] \subseteq SaidSource(a.source)'
      /\ confirmed'[c] \subseteq SaidTarget(a.target)'
      /\ SaidSource(a.source)' \subseteq Host
      /\ SaidTarget(a.target)' \subseteq Host
  <2>1. SaidSource(a.source)' \subseteq Host /\ SaidTarget(a.target)' \subseteq Host
    BY DEF SaidSource, SaidTarget
  <2> QED
    BY <1>2, <1>3, <1>4, <1>5, <2>1
<1>7. CASE IsConfirmed(confirmed'[c])
  <2>1. /\ Cardinality(SaidSource(a.source)') >= Threshold
        /\ Cardinality(SaidTarget(a.target)') >= Threshold
    BY <1>6, <1>7, HostsMonotone DEF IsConfirmed
  <2>2. pc'[c] = "returned" /\ CacheCheckpoints(a)
    BY <1>1, <1>7 DEF Confirm, Goto, TypeOK
  <2>3. CacheIsBacked'
    BY <2>1, <2>2, CachingKeepsBacked
  <2>4. Backed(attData[c])'
    BY <1>2, <2>1 DEF Backed, SaidSource, SaidTarget
  <2> QED
    BY <1>2, <2>2, <2>3, <2>4 DEF CallCounts
<1>8. CASE ~IsConfirmed(confirmed'[c])
  <2>1. pc'[c] = "confirm" /\ UNCHANGED cacheVars
    BY <1>2, <1>8 DEF Confirm
  <2>2. CacheIsBacked'
    BY <2>1, CacheKept
  <2>3. confirmed'[c] \subseteq (SaidSource(attData[c].source)
                                 \cap SaidTarget(attData[c].target))'
    BY <1>2, <1>6 DEF SaidSource, SaidTarget
  <2> QED
    BY <1>2, <2>1, <2>2, <2>3 DEF CallCounts
<1> QED
  BY <1>7, <1>8

\* Agree: the supporters of an answer have all said it.
LEMMA AgreeCounts ==
    ASSUME IndInv, NEW c \in Call, NEW h \in Host, NEW d \in Data, Agree(c, h, d),
           \A g \in Host : said[g] \subseteq said'[g]
    PROVE  CallCounts(c)' /\ CacheIsBacked' /\ AnswersAreSaid'
<1> USE DEF IndInv
<1> DEFINE supporters == {g \in Host : answers'[c][g] = d}
<1>1. d \in said'[h] /\ answers' = [answers EXCEPT ![c][h] = d] /\ pc[c] = "agree"
  BY DEF Agree, Say, TypeOK
<1>2. AnswersAreSaid'
  BY <1>1 DEF AnswersAreSaid, TypeOK
<1>3. /\ supporters \subseteq SaidSource(d.source)'
      /\ supporters \subseteq SaidTarget(d.target)'
      /\ SaidSource(d.source)' \subseteq Host
      /\ SaidTarget(d.target)' \subseteq Host
  BY <1>2, NoDataAssumption DEF AnswersAreSaid, SaidSource, SaidTarget
<1>4. CASE Cardinality(supporters) >= Threshold
  <2>1. /\ Cardinality(SaidSource(d.source)') >= Threshold
        /\ Cardinality(SaidTarget(d.target)') >= Threshold
    <3> HIDE DEF supporters
    <3> QED
      BY <1>3, <1>4, HostsMonotone
  <2>2. pc'[c] = "returned" /\ attData'[c] = d /\ CacheCheckpoints(d)
    BY <1>4 DEF Agree, Goto, TypeOK
  <2>3. CacheIsBacked'
    BY <2>1, <2>2, CachingKeepsBacked
  <2>4. Backed(attData[c])'
    BY <2>1, <2>2 DEF Backed, SaidSource, SaidTarget
  <2> QED
    BY <1>2, <2>2, <2>3, <2>4 DEF CallCounts
<1>5. CASE ~(Cardinality(supporters) >= Threshold)
  <2>1. pc'[c] = "agree" /\ UNCHANGED cacheVars
    BY <1>1, <1>5 DEF Agree
  <2>2. CacheIsBacked'
    BY <2>1, CacheKept
  <2> QED
    BY <1>2, <2>1, <2>2 DEF CallCounts
<1> QED
  BY <1>4, <1>5
-----------------------------------------------------------------------------
(* The inductive invariant *)

LEMMA IndInvInit == Init => IndInv
<1> SUFFICES ASSUME Init PROVE IndInv
  OBVIOUS
<1>1. CallsCount
  BY DEF Init, CallsCount, CallCounts
<1>2. AnswersAreSaid /\ CacheIsBacked
  BY DEF Init, NoAnswers, AnswersAreSaid, CacheIsBacked
<1> QED
  BY <1>1, <1>2, TypeInit DEF IndInv

\* A step of one call touches neither what another one counts nor, unless it hears
\* a node, what was answered.
LEMMA CallStepKeeps ==
    ASSUME IndInv, NEW c \in Call, CallStep(c),
           \A g \in Host : said[g] \subseteq said'[g]
    PROVE  CallsCount' /\ AnswersAreSaid' /\ CacheIsBacked'
<1> USE DEF IndInv
<1>1. ASSUME NEW b \in Call, b # c
      PROVE  pc'[b] = pc[b] /\ attData'[b] = attData[b] /\ confirmed'[b] = confirmed[b]
  BY <1>1 DEF CallStep, Start, FirstAnswer, Confirm, Agree, GiveUp, Cancel, Forget, Goto,
              TypeOK
<1>2. ASSUME NEW b \in Call, b # c
      PROVE  CallCounts(b)'
  BY <1>1, <1>2, UntouchedCall DEF CallsCount
<1>3. ASSUME answers' = answers
      PROVE  AnswersAreSaid'
  BY <1>3 DEF AnswersAreSaid
<1>4. ASSUME NEW b \in Blocks \cup {NoBlock}, Start(c, b)
      PROVE  CallCounts(c)' /\ AnswersAreSaid' /\ CacheIsBacked'
  <2>1. CallCounts(c)'
    BY <1>4 DEF Start, Goto, CallsCount, CallCounts, TypeOK
  <2> QED
    BY <1>3, <1>4, <2>1, CacheKept DEF Start
<1>5. ASSUME NEW h \in Host, NEW d \in Data, FirstAnswer(c, h, d)
      PROVE  CallCounts(c)' /\ AnswersAreSaid' /\ CacheIsBacked'
  BY <1>3, <1>5, FirstAnswerCounts, CacheKept DEF FirstAnswer
<1>6. ASSUME NEW h \in Host, NEW d \in Data, Confirm(c, h, d)
      PROVE  CallCounts(c)' /\ AnswersAreSaid' /\ CacheIsBacked'
  BY <1>3, <1>6, ConfirmCounts DEF Confirm
<1>7. ASSUME NEW h \in Host, NEW d \in Data, Agree(c, h, d)
      PROVE  CallCounts(c)' /\ AnswersAreSaid' /\ CacheIsBacked'
  BY <1>7, AgreeCounts
<1>8. ASSUME GiveUp(c) \/ Cancel(c)
      PROVE  CallCounts(c)' /\ AnswersAreSaid' /\ CacheIsBacked'
  <2>1. CallCounts(c)'
    BY <1>8 DEF GiveUp, Cancel, Goto, CallCounts, TypeOK
  <2>2. UNCHANGED cacheVars /\ answers' = answers
    BY <1>8 DEF GiveUp, Cancel
  <2>3. CacheIsBacked'
    BY <2>2, CacheKept
  <2> QED
    BY <1>3, <2>1, <2>2, <2>3
<1>9. ASSUME Forget(c)
      PROVE  CallCounts(c)' /\ AnswersAreSaid' /\ CacheIsBacked'
  <2>1. CallCounts(c)'
    BY <1>9 DEF Forget, Goto, CallCounts, TypeOK
  <2>2. AnswersAreSaid'
    BY <1>9 DEF Forget, NoAnswers, AnswersAreSaid, TypeOK
  <2>3. UNCHANGED cacheVars
    BY <1>9 DEF Forget
  <2>4. CacheIsBacked'
    BY <2>3, CacheKept
  <2> QED
    BY <2>1, <2>2, <2>4
<1>10. CallCounts(c)' /\ AnswersAreSaid' /\ CacheIsBacked'
  BY <1>4, <1>5, <1>6, <1>7, <1>8, <1>9 DEF CallStep
<1> QED
  BY <1>2, <1>10 DEF CallsCount

LEMMA IndInvStep == IndInv /\ [Next]_vars => IndInv'
<1> SUFFICES ASSUME IndInv, [Next]_vars
             PROVE  IndInv'
  OBVIOUS
<1>1. TypeOK'
  BY TypeStep DEF IndInv
<1>2. \A h \in Host : said[h] \subseteq said'[h]
  BY SaidGrows DEF IndInv
<1>3. CASE UNCHANGED vars
  <2>1. CacheIsBacked' /\ AnswersAreSaid'
    BY <1>2, <1>3, CacheKept DEF vars, callVars, IndInv, AnswersAreSaid
  <2>2. CallsCount'
    BY <1>2, <1>3, UntouchedCall DEF vars, callVars, IndInv, CallsCount
  <2> QED
    BY <1>1, <2>1, <2>2 DEF IndInv
<1>4. CASE Prune
  <2>1. CacheIsBacked'
    BY <1>4, PruneKeepsBacked DEF IndInv
  <2>2. AnswersAreSaid'
    BY <1>4 DEF Prune, callVars, IndInv, AnswersAreSaid
  <2>3. CallsCount'
    BY <1>2, <1>4, UntouchedCall DEF Prune, callVars, IndInv, CallsCount
  <2> QED
    BY <1>1, <2>1, <2>2, <2>3 DEF IndInv
<1>5. ASSUME NEW c \in Call, CallStep(c)
      PROVE  IndInv'
  BY <1>1, <1>2, <1>5, CallStepKeeps DEF IndInv
<1> QED
  BY <1>3, <1>4, <1>5 DEF Next

LEMMA IndInvAlways == Spec => []IndInv
  BY IndInvInit, IndInvStep, PTL DEF Spec

-----------------------------------------------------------------------------
(* The properties *)

\* Every state of the provider, its caches and the calls that share them is one of
\* the states the module describes.
THEOREM TypeCorrect == Spec => []TypeOK
<1>1. IndInv => TypeOK
  BY DEF IndInv
<1> QED
  BY <1>1, IndInvAlways, PTL

\* Whatever calls overlap, time out, fall back and prune the caches, and however many
\* nodes are wrong: AttestationData that is returned has checkpoints that Threshold
\* nodes reported.
THEOREM ResultsBacked == Spec => []ResultIsBacked
<1>1. IndInv => ResultIsBacked
  BY DEF IndInv, CallsCount, CallCounts, ResultIsBacked
<1> QED
  BY <1>1, IndInvAlways, PTL

\* _cache_checkpoints only ever stores checkpoints that Threshold nodes reported.
THEOREM CacheBacked == Spec => []CacheIsBacked
<1>1. IndInv => CacheIsBacked
  BY DEF IndInv
<1> QED
  BY <1>1, IndInvAlways, PTL

-----------------------------------------------------------------------------
(* What the threshold is for *)

\* However the wrong nodes work together, there being fewer than Threshold: a right one
\* reported the source of AttestationData that is returned, and a right one its target.
RightNodesReported ==
    \A Wrong \in SUBSET Host, c \in Call :
        Cardinality(Wrong) < Threshold /\ pc[c] = "returned" =>
            /\ \E h \in Host \ Wrong : h \in SaidSource(attData[c].source)
            /\ \E h \in Host \ Wrong : h \in SaidTarget(attData[c].target)

\* The checkpoints that are attested to come from right nodes, through the caches, the
\* fallback and calls that overlap, as long as fewer than Threshold nodes are wrong.
THEOREM WrongNodesAreNotEnough == Spec => []RightNodesReported
<1>1. ResultIsBacked => RightNodesReported
  <2> SUFFICES ASSUME ResultIsBacked, NEW Wrong \in SUBSET Host, NEW c \in Call,
                      Cardinality(Wrong) < Threshold, pc[c] = "returned"
               PROVE  /\ \E h \in Host \ Wrong : h \in SaidSource(attData[c].source)
                      /\ \E h \in Host \ Wrong : h \in SaidTarget(attData[c].target)
    BY DEF RightNodesReported
  <2>1. Backed(attData[c])
    BY DEF ResultIsBacked
  <2>2. /\ SaidSource(attData[c].source) \in SUBSET Host
        /\ SaidTarget(attData[c].target) \in SUBSET Host
    BY DEF SaidSource, SaidTarget
  <2> QED
    BY <2>1, <2>2, NotAllWrong DEF Backed
<1> QED
  BY <1>1, ResultsBacked, PTL

\* No node ever reported two targets for an epoch.
NodesKeepTheirTargets ==
    \A h \in Host : \A d1, d2 \in said[h] :
        d1.target.epoch = d2.target.epoch => d1.target = d2.target

\* AttestationData of two calls that is for one target epoch has one target.
ResultsAreConsistent ==
    \A b, c \in Call :
        /\ pc[b] = "returned" /\ pc[c] = "returned"
        /\ attData[b].target.epoch = attData[c].target.epoch
        => attData[b].target = attData[c].target

MajorityIsConsistent ==
    Threshold >= MajorityOf(Cardinality(Host)) /\ NodesKeepTheirTargets => ResultsAreConsistent

\* With the default threshold, two calls attest to different targets for an epoch only if
\* some node reported both of them, whichever nodes the two calls relied on and whatever
\* was cached, dropped and cached again in between.
THEOREM ConflictNeedsTwoFaces == Spec => []MajorityIsConsistent
<1>1. ResultIsBacked => MajorityIsConsistent
  <2> SUFFICES ASSUME ResultIsBacked, Threshold >= MajorityOf(Cardinality(Host)),
                      NodesKeepTheirTargets, NEW b \in Call, NEW c \in Call,
                      pc[b] = "returned", pc[c] = "returned",
                      attData[b].target.epoch = attData[c].target.epoch
               PROVE  attData[b].target = attData[c].target
    BY DEF MajorityIsConsistent, ResultsAreConsistent
  <2> DEFINE B == SaidTarget(attData[b].target)
             C == SaidTarget(attData[c].target)
  <2>1. Cardinality(B) >= Threshold /\ Cardinality(C) >= Threshold
    BY DEF ResultIsBacked, Backed
  <2>2. B \in SUBSET Host /\ C \in SUBSET Host
    BY DEF SaidTarget
  <2>3. B \cap C # {}
    <3> HIDE DEF B, C
    <3> QED
      BY <2>1, <2>2, MajoritiesMeet
  <2>4. PICK h \in B \cap C : TRUE
    BY <2>3
  <2> QED
    BY <2>4 DEF NodesKeepTheirTargets, SaidTarget
<1> QED
  BY <1>1, ResultsBacked, PTL

-----------------------------------------------------------------------------
(* The fallback *)

\* A call that has not fallen back has no answers; one without a result no data.
FallbackIsFresh ==
    \A c \in Call :
        /\ pc[c] \in {"idle", "fetch", "confirm"} => answers[c] = NoAnswers
        /\ pc[c] \in {"idle", "fetch", "agree"} => attData[c] = NoData

LEMMA FreshInit == Init => FallbackIsFresh
  BY DEF Init, FallbackIsFresh

LEMMA FreshStep == TypeOK /\ FallbackIsFresh /\ [Next]_vars => FallbackIsFresh'
<1> SUFFICES ASSUME TypeOK, FallbackIsFresh, [Next]_vars, NEW b \in Call
             PROVE  /\ pc'[b] \in {"idle", "fetch", "confirm"} => answers'[b] = NoAnswers
                    /\ pc'[b] \in {"idle", "fetch", "agree"} => attData'[b] = NoData
  BY DEF FallbackIsFresh
<1> USE DEF FallbackIsFresh, TypeOK
<1>1. CASE UNCHANGED vars
  BY <1>1 DEF vars, callVars
<1>2. CASE Prune
  BY <1>2 DEF Prune, callVars
<1>3. ASSUME NEW c \in Call, NEW r \in Blocks \cup {NoBlock}, Start(c, r)
      PROVE  /\ pc'[b] \in {"idle", "fetch", "confirm"} => answers'[b] = NoAnswers
             /\ pc'[b] \in {"idle", "fetch", "agree"} => attData'[b] = NoData
  BY <1>3 DEF Start, Goto
<1>4. ASSUME NEW c \in Call, NEW h \in Host, NEW d \in Data, FirstAnswer(c, h, d)
      PROVE  /\ pc'[b] \in {"idle", "fetch", "confirm"} => answers'[b] = NoAnswers
             /\ pc'[b] \in {"idle", "fetch", "agree"} => attData'[b] = NoData
  BY <1>4 DEF FirstAnswer, Goto
<1>5. ASSUME NEW c \in Call, NEW h \in Host, NEW d \in Data, Confirm(c, h, d)
      PROVE  /\ pc'[b] \in {"idle", "fetch", "confirm"} => answers'[b] = NoAnswers
             /\ pc'[b] \in {"idle", "fetch", "agree"} => attData'[b] = NoData
  BY <1>5 DEF Confirm, Goto
<1>6. ASSUME NEW c \in Call, NEW h \in Host, NEW d \in Data, Agree(c, h, d)
      PROVE  /\ pc'[b] \in {"idle", "fetch", "confirm"} => answers'[b] = NoAnswers
             /\ pc'[b] \in {"idle", "fetch", "agree"} => attData'[b] = NoData
  BY <1>6 DEF Agree, Goto
<1>7. ASSUME NEW c \in Call, GiveUp(c) \/ Cancel(c)
      PROVE  /\ pc'[b] \in {"idle", "fetch", "confirm"} => answers'[b] = NoAnswers
             /\ pc'[b] \in {"idle", "fetch", "agree"} => attData'[b] = NoData
  BY <1>7 DEF GiveUp, Cancel, Goto
<1>8. ASSUME NEW c \in Call, Forget(c)
      PROVE  /\ pc'[b] \in {"idle", "fetch", "confirm"} => answers'[b] = NoAnswers
             /\ pc'[b] \in {"idle", "fetch", "agree"} => attData'[b] = NoData
  BY <1>8 DEF Forget, Goto
<1> QED
  BY <1>1, <1>2, <1>3, <1>4, <1>5, <1>6, <1>7, <1>8 DEF Next, CallStep

\* The step of a node's answer in the fallback is that of the agreement.
LEMMA AgreeIsAnswer ==
    ASSUME TypeOK, FallbackIsFresh,
           NEW c \in Call, NEW h \in Host, NEW d \in Data, Agree(c, h, d)
    PROVE  Fallback(c)!Answer(h, d)
<1>1. /\ attData[c] = NoData /\ answers[c][h] # d
      /\ answers' = [answers EXCEPT ![c][h] = d]
  BY DEF Agree, FallbackIsFresh
<1>2. answers'[c] = [answers[c] EXCEPT ![h] = d]
  BY <1>1 DEF TypeOK
<1>3. attData'[c] = IF Cardinality({g \in Host : answers'[c][g] = d}) >= Threshold
                    THEN d ELSE NoData
  BY <1>1 DEF Agree, TypeOK
<1>4. Cardinality({g \in Host : answers'[c][g] = d}) >= Threshold
          <=> {g \in Host : answers'[c][g] = d} \in Quorum
  BY DEF Quorum
<1> QED
  BY <1>1, <1>2, <1>3, <1>4 DEF Fallback!Answer, Fallback!SupportersIn

\* A call falls back from where it has no answers.
LEMMA FallbackBegins ==
    ASSUME TypeOK, FallbackIsFresh, [Next]_vars,
           NEW c \in Call, pc[c] # "agree", pc'[c] = "agree"
    PROVE  answers'[c] = NoAnswers /\ attData'[c] = NoData
<1>1. PICK b \in Call : CallStep(b)
  BY DEF Next, Prune, vars, callVars
<1>2. b = c
  BY <1>1 DEF CallStep, Start, FirstAnswer, Confirm, Agree, GiveUp, Cancel, Forget, Goto,
              TypeOK
<1>3. ASSUME NEW r \in Blocks \cup {NoBlock}, Start(c, r)
      PROVE  pc[c] = "idle" /\ UNCHANGED answers
  BY <1>3 DEF Start
<1>4. ASSUME NEW h \in Host, NEW d \in Data,
             FirstAnswer(c, h, d) \/ Confirm(c, h, d) \/ Agree(c, h, d)
      PROVE  FALSE
  BY <1>4 DEF FirstAnswer, Confirm, Agree, Goto, TypeOK
<1>5. ASSUME Cancel(c) \/ Forget(c) PROVE FALSE
  BY <1>5 DEF Cancel, Forget, Goto, TypeOK
<1>6. ASSUME GiveUp(c)
      PROVE  pc[c] \in {"fetch", "confirm"} /\ UNCHANGED answers
  BY <1>6 DEF GiveUp
<1>7. pc[c] \in {"idle", "fetch", "confirm"} /\ UNCHANGED answers
  BY <1>1, <1>2, <1>3, <1>4, <1>5, <1>6 DEF CallStep
<1>8. attData'[c] = NoData
  BY FreshStep DEF FallbackIsFresh
<1> QED
  BY <1>7, <1>8 DEF FallbackIsFresh

\* In a call that has fallen back, only answers change what was answered or decided.
LEMMA FallbackGoesOn ==
    ASSUME TypeOK, FallbackIsFresh, [Next]_vars, NEW c \in Call, pc[c] = "agree"
    PROVE  \/ Fallback(c)!AgreementNext
           \/ UNCHANGED <<answers[c], attData[c]>>
<1>1. CASE UNCHANGED vars \/ Prune
  BY <1>1 DEF Prune, vars, callVars
<1>2. ASSUME NEW b \in Call, b # c, CallStep(b)
      PROVE  UNCHANGED <<answers[c], attData[c]>>
  BY <1>2 DEF CallStep, Start, FirstAnswer, Confirm, Agree, GiveUp, Cancel, Forget, TypeOK
<1>3. ASSUME NEW h \in Host, NEW d \in Data, Agree(c, h, d)
      PROVE  Fallback(c)!AgreementNext
  BY <1>3, AgreeIsAnswer DEF Fallback!AgreementNext
<1>4. ASSUME CallStep(c), ~\E h \in Host, d \in Data : Agree(c, h, d)
      PROVE  UNCHANGED <<answers[c], attData[c]>>
  <2>1. Cancel(c)
    BY <1>4 DEF CallStep, Start, FirstAnswer, Confirm, GiveUp, Forget
  <2> QED
    BY <2>1 DEF Cancel, FallbackIsFresh, TypeOK
<1> QED
  BY <1>1, <1>2, <1>3, <1>4 DEF Next

\* Each call of the provider that falls back behaves as QuorumAgreement promises, which is
\* what produce_attestation_data_without_head_event implements (RefinesAgreement).
THEOREM FallbackImplementsAgreement == Spec => FallbackAgrees
<1>1. TypeOK /\ FallbackIsFresh /\ [Next]_vars => \A c \in Call : [FallbackStep(c)]_vars
  <2> SUFFICES ASSUME TypeOK, FallbackIsFresh, [Next]_vars, NEW c \in Call
               PROVE  FallbackStep(c)
    OBVIOUS
  <2>1. pc[c] # "agree" /\ pc'[c] = "agree" => Fallback(c)!AgreementInit'
    BY FallbackBegins DEF Fallback!AgreementInit, NoAnswers
  <2>2. pc[c] = "agree" => \/ Fallback(c)!AgreementNext
                           \/ UNCHANGED <<answers[c], attData[c]>>
    BY FallbackGoesOn
  <2> QED
    BY <2>1, <2>2 DEF FallbackStep
<1>2. Spec => []FallbackIsFresh
  BY FreshInit, FreshStep, TypeCorrect, PTL DEF Spec
<1>3. Spec => [][\A c \in Call : FallbackStep(c)]_vars
  <2>1. TypeOK /\ FallbackIsFresh /\ [Next]_vars => [\A c \in Call : FallbackStep(c)]_vars
    BY <1>1
  <2> QED
    BY <2>1, <1>2, TypeCorrect, PTL DEF Spec
<1> QED
  BY <1>3 DEF FallbackAgrees
=============================================================================
