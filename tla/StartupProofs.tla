--------------------------- MODULE StartupProofs ---------------------------
(***************************************************************************)
(* Theorems about Startup and its components StatusTracker and             *)
(* DoppelgangerDetector, for any validators, beacon nodes, number of       *)
(* overlapping updates, length of an epoch and bounds.                     *)
(*                                                                         *)
(* The inductive invariant has one part per component.  TrackerInv says    *)
(* what an update that runs undisturbed has achieved at each of its        *)
(* requests, and that exact lists are only rewritten by such updates.      *)
(* DetectorInv relates the detector to the time: the monitored epoch       *)
(* begins after the detection, and the second check after the last block   *)
(* that may include an attestation of it.                                  *)
(***************************************************************************)
EXTENDS Startup, TLAPS

\* The lists an update has assigned before its request.
Assigned(pc) ==
    CASE pc = "pending" -> {"active"}
      [] pc = "exited" -> {"active", "pending"}
      [] pc = "withdrawal" -> {"active", "pending", "exited"}
      [] OTHER -> {}

Exact(g) == \A v \in Validators : v \in lists[g] <=> Listed(v, g)
SlashingNoticed == (\E v \in Validators : Listed(v, "slashed")) => slashingDetected

\* An update that saw one state of the world, with no other one beside it.
QuietSoFar(u) ==
    /\ Running(u) /\ \A w \in Updates \ {u} : ~Running(w)
    /\ Synced
    /\ updates[u].managed = managed
    /\ updates[u].known = {v \in Validators : \E g \in Assigned(updates[u].pc) : Listed(v, g)}
    /\ \A g \in Assigned(updates[u].pc) : Exact(g)
    /\ updates[u].pc # "slashed" => SlashingNoticed

TrackerInv ==
    /\ \A u \in Updates : updates[u].pc = "waiting" => updates[u].known = {}
    /\ \A u \in Updates : updates[u].quiet => QuietSoFar(u)
    /\ settled => Synced /\ ListsMatch /\ \A u \in Updates : Running(u) => updates[u].quiet

DetectorInv ==
    /\ phase = "status" => CurrentEpoch + 3 <= LastEpoch
    /\ phase = "detect" => detector.epoch \in 1..(LastEpoch - 2)
    /\ phase = "detect" /\ detector.pc \in {"recheck", "clear"} => clock >= LastInclusion
    /\ phase = "detect" /\ detector.pc = "clear" => ~Monitored(rival)
    /\ overlooked = {}
    /\ StopsForRivalOnly

IndInv == TypeOK /\ TrackerInv /\ DetectorInv

-----------------------------------------------------------------------------
(* Time *)

LEMMA Division ==
    ASSUME NEW n \in Nat \ {0}, NEW t \in Nat
    PROVE  /\ t \div n \in Nat
           /\ (t \div n) * n <= t
           /\ t < ((t \div n) + 1) * n
  OBVIOUS

LEMMA ProductsGrow ==
    ASSUME NEW n \in Nat, NEW a \in Nat, NEW b \in Nat, a <= b
    PROVE  a * n <= b * n
  OBVIOUS

\* A time at or after the start of an epoch is not in an earlier one.
LEMMA EpochReached ==
    ASSUME NEW n \in Nat \ {0}, NEW t \in Nat, NEW e \in Nat, e * n <= t
    PROVE  e <= t \div n
  <1> DEFINE q == t \div n
  <1>1. q \in Nat /\ t < (q + 1) * n
    BY Division
  <1>2. ASSUME q < e PROVE FALSE
    <2>1. q + 1 \in Nat /\ q + 1 <= e
      BY <1>1, <1>2
    <2>2. (q + 1) * n <= e * n
      BY <2>1, ProductsGrow
    <2>3. (q + 1) * n \in Nat /\ e * n \in Nat
      BY <1>1
    <2> HIDE DEF q
    <2> QED
      BY <1>1, <2>2, <2>3
  <1> HIDE DEF q
  <1> QED
    BY <1>1, <1>2 DEF q

LEMMA EpochLength == HalfSlotsPerEpoch \in Nat \ {0} /\ HalfSlotsPerEpoch >= 2
  BY SlotsPerEpochAssumption DEF HalfSlotsPerEpoch

\* Time goes on, or the last epoch repeats.
LEMMA TimeGoesOn ==
    ASSUME clock \in Times
    PROVE  /\ NextTime \in Times
           /\ NextTime >= clock \/ NextTime = StartOf(LastEpoch)
  <1> DEFINE H == HalfSlotsPerEpoch
  <1>1. H \in Nat /\ H >= 2 /\ LastEpoch \in Nat
    BY EpochLength, LastEpochAssumption
  <1>2. /\ LastEpoch * H \in Nat /\ (LastEpoch + 1) * H \in Nat
        /\ (LastEpoch + 1) * H = LastEpoch * H + H
    <2> HIDE DEF H
    <2> QED
      BY <1>1
  <1>3. clock \in Nat
    BY DEF Times
  <1>4. StartOf(LastEpoch) \in Times
    <2> HIDE DEF H
    <2>1. LastEpoch * H \in 0..((LastEpoch + 1) * H - 1)
      BY <1>1, <1>2
    <2> QED
      BY <2>1 DEF H, StartOf, Times
  <1> QED
    BY <1>3, <1>4 DEF NextTime

\* When the second check of a monitored epoch may be made, that epoch is over, and
\* the last epoch, which repeats, begins no earlier.
LEMMA AfterLastInclusion ==
    ASSUME NEW e \in 1..(LastEpoch - 2), NEW t \in Nat
    PROVE  /\ MiddleOfLastSlot(e + 1) \in Nat
           /\ MiddleOfLastSlot(e + 1) <= StartOf(LastEpoch)
           /\ t >= MiddleOfLastSlot(e + 1) => t \div HalfSlotsPerEpoch >= e + 1
  <1> DEFINE S == SlotsPerEpoch
             H == HalfSlotsPerEpoch
  <1>1. S \in Nat /\ S >= 1 /\ H = 2 * S /\ H \in Nat \ {0} /\ e \in Nat /\ LastEpoch \in Nat
    BY SlotsPerEpochAssumption, LastEpochAssumption DEF HalfSlotsPerEpoch
  <1>2. e + 2 <= LastEpoch
    BY <1>1
  <1> HIDE DEF S, H
  <1>3. /\ (e + 2) * S \in Nat /\ (e + 1) * H \in Nat /\ (e + 2) * H \in Nat
        /\ (e + 2) * H = 2 * ((e + 2) * S)
        /\ (e + 2) * H = (e + 1) * H + H
    BY <1>1
  <1>4. (e + 2) * H <= LastEpoch * H
    BY <1>1, <1>2, ProductsGrow
  <1>5. MiddleOfLastSlot(e + 1) = (e + 2) * H - 1
    <2>1. MiddleOfLastSlot(e + 1) = 2 * ((e + 2) * S - 1) + 1
      BY <1>1 DEF MiddleOfLastSlot, S
    <2> QED
      BY <2>1, <1>3
  <1>6. MiddleOfLastSlot(e + 1) \in Nat /\ MiddleOfLastSlot(e + 1) >= (e + 1) * H
    BY <1>1, <1>3, <1>5
  <1>7. ASSUME t >= MiddleOfLastSlot(e + 1) PROVE t \div H >= e + 1
    <2>1. (e + 1) * H <= t
      BY <1>3, <1>6, <1>7
    <2>2. e + 1 <= t \div H
      BY <1>1, <2>1, EpochReached
    <2>3. t \div H \in Nat
      BY <1>1, Division
    <2> QED
      BY <1>1, <2>2, <2>3
  <1>8. MiddleOfLastSlot(e + 1) <= StartOf(LastEpoch)
    <2>1. StartOf(LastEpoch) = LastEpoch * H /\ LastEpoch * H \in Nat
      BY <1>1 DEF StartOf, H
    <2> QED
      BY <1>1, <1>3, <1>4, <1>5, <2>1
  <1> QED
    BY <1>6, <1>7, <1>8 DEF H

-----------------------------------------------------------------------------
(* Types *)

LEMMA WaitingType ==
    ASSUME NEW m \in BOOLEAN
    PROVE  /\ WaitingUpdate(m) \in Update /\ IdleUpdate \in Update
           /\ WaitingUpdate(m).pc = "waiting" /\ IdleUpdate.pc = "idle"
           /\ WaitingUpdate(m).minimal = m
           /\ WaitingUpdate(m).quiet = FALSE /\ IdleUpdate.quiet = FALSE
           /\ WaitingUpdate(m).known = {} /\ IdleUpdate.known = {}
  <1>1. /\ IdleUpdate \in Update /\ IdleUpdate.pc = "idle"
        /\ IdleUpdate.quiet = FALSE /\ IdleUpdate.known = {}
    BY DEF IdleUpdate, Update
  <1>2. WaitingUpdate(m) \in Update
    BY <1>1 DEF WaitingUpdate, Update
  <1>3. WaitingUpdate(m).pc = "waiting"
    BY <1>1 DEF WaitingUpdate, Update
  <1>4. WaitingUpdate(m).minimal = m
    BY <1>1 DEF WaitingUpdate, Update
  <1>5. WaitingUpdate(m).quiet = FALSE /\ WaitingUpdate(m).known = {}
    BY <1>1 DEF WaitingUpdate, Update
  <1> QED
    BY <1>1, <1>2, <1>3, <1>4, <1>5

LEMMA FirstIn ==
    ASSUME NEW U, U # {}
    PROVE  First(U) \in U
  BY DEF First

LEMMA AnswerType ==
    ASSUME TypeOK, NEW u \in Updates, NEW statuses
    PROVE  AnswerOf(statuses, u) \in SUBSET Validators
  BY DEF TypeOK, TrackerTypeOK, Update, AnswerOf, Ids

LEMMA AfterAnswerType ==
    ASSUME TypeOK, NEW u \in Updates, updates[u].pc \in Groups,
           NEW answer \in SUBSET Validators
    PROVE  AfterAnswer(u, answer) \in Update
  <1>1. updates[u] \in Update
    BY DEF TypeOK, TrackerTypeOK
  <1>2. WaitingUpdate(FALSE) \in Update /\ IdleUpdate \in Update
    BY WaitingType
  <1>3. ASSUME NEW g \in Groups
        PROVE  [updates[u] EXCEPT !.pc = g, !.known = @ \cup answer] \in Update
    BY <1>1 DEF Update
  <1> QED
    BY <1>2, <1>3 DEF AfterAnswer, Groups

LEMMA InitType == Init => TypeOK
  <1> SUFFICES ASSUME Init PROVE TypeOK
    OBVIOUS
  <1>1. /\ chain \in [Validators -> Statuses]
        /\ view \in [Nodes -> [Validators -> Statuses]]
    BY DEF Init, TrackerInit, Statuses
  <1>2. updates \in [Updates -> Update]
    BY WaitingType DEF Init, TrackerInit
  <1>3. lists \in [Groups -> SUBSET Validators]
    BY DEF Init, TrackerInit
  <1>4. 0 \in Times
    <2> DEFINE H == HalfSlotsPerEpoch
    <2>1. H \in Nat /\ H >= 2 /\ LastEpoch \in Nat
      BY EpochLength, LastEpochAssumption
    <2>2. (LastEpoch + 1) * H = LastEpoch * H + H /\ LastEpoch * H \in Nat
      <3> HIDE DEF H
      <3> QED
        BY <2>1
    <2>3. (LastEpoch + 1) * H - 1 \in Nat
      <3> HIDE DEF H
      <3> QED
        BY <2>1, <2>2
    <2> QED
      BY <2>3 DEF Times
  <1>5. detector \in Detector
    BY DEF Init, DetectorInit, NoDetection, Detector
  <1>6. TrackerTypeOK
    <2>1. changes \in 0..MaxChanges /\ failures \in 0..MaxFailures
      BY BoundsAssumption DEF Init, TrackerInit
    <2>2. /\ managed \in SUBSET Validators
          /\ slashingDetected \in BOOLEAN /\ settled \in BOOLEAN
      BY DEF Init, TrackerInit
    <2> QED
      BY <1>1, <1>2, <1>3, <2>1, <2>2 DEF TrackerTypeOK
  <1>7. DetectorTypeOK
    BY <1>4, <1>5 DEF Init, DetectorInit, DetectorTypeOK
  <1> QED
    BY <1>6, <1>7 DEF Init, TypeOK, Phases

LEMMA DisturbType ==
    ASSUME TypeOK, Disturb
    PROVE  updates' \in [Updates -> Update] /\ settled' \in BOOLEAN
  <1>1. ASSUME NEW u \in Updates PROVE [updates[u] EXCEPT !.quiet = FALSE] \in Update
    BY DEF TypeOK, TrackerTypeOK, Update
  <1> QED
    BY <1>1 DEF Disturb

LEMMA WorldType == TypeOK /\ WorldStep => TypeOK'
  <1> SUFFICES ASSUME TypeOK, WorldStep PROVE TypeOK'
    OBVIOUS
  <1>1. ASSUME NEW v \in Validators, NEW s \in Statuses, ChangeStatus(v, s)
        PROVE  TrackerTypeOK'
    BY <1>1, DisturbType, BoundsAssumption DEF ChangeStatus, TypeOK, TrackerTypeOK
  <1>2. ASSUME NEW n \in Nodes, CatchUp(n)
        PROVE  TrackerTypeOK'
    BY <1>2, DisturbType DEF CatchUp, TypeOK, TrackerTypeOK
  <1>3. ASSUME NEW v \in Validators, ChangeKeys(v)
        PROVE  TrackerTypeOK'
    BY <1>3, DisturbType, BoundsAssumption DEF ChangeKeys, TypeOK, TrackerTypeOK
  <1>4. TrackerTypeOK'
    BY <1>1, <1>2, <1>3 DEF WorldStep
  <1> QED
    BY <1>4 DEF WorldStep, TypeOK, DetectorTypeOK, detectorVars, startupVars

LEMMA RivalType == TypeOK /\ RivalStep => TypeOK'
  <1> SUFFICES ASSUME TypeOK, RivalStep PROVE TypeOK'
    OBVIOUS
  <1>1. PICK v \in Validators : RivalAttests(v)
    BY DEF RivalStep
  <1>2. rival' \in Attestation
    BY <1>1, LastEpochAssumption DEF RivalAttests, Attestation, Epochs
  <1>3. DetectorTypeOK'
    BY <1>1, <1>2 DEF RivalAttests, TypeOK, DetectorTypeOK
  <1> QED
    BY <1>3 DEF RivalStep, TypeOK, TrackerTypeOK, trackerVars, worldVars, startupVars

LEMMA CreateType == TypeOK /\ Create => TrackerTypeOK'
  <1> SUFFICES ASSUME TypeOK, Create PROVE TrackerTypeOK'
    OBVIOUS
  <1>1. updates' \in [Updates -> Update]
    BY FirstIn, WaitingType DEF Create, TypeOK, TrackerTypeOK
  <1> QED
    BY <1>1 DEF Create, TypeOK, TrackerTypeOK, worldVars

LEMMA ClockType == TypeOK /\ AdvanceClock => TypeOK'
  <1> SUFFICES ASSUME TypeOK, AdvanceClock PROVE TypeOK'
    OBVIOUS
  <1>1. TrackerTypeOK'
    <2>1. CASE Create
      BY <2>1, CreateType
    <2>2. CASE UNCHANGED trackerVars
      BY <2>2 DEF trackerVars, worldVars, TypeOK, TrackerTypeOK
    <2> QED
      BY <2>1, <2>2 DEF AdvanceClock
  <1>2. DetectorTypeOK'
    BY TimeGoesOn DEF AdvanceClock, TypeOK, DetectorTypeOK
  <1> QED
    BY <1>1, <1>2 DEF AdvanceClock, TypeOK, startupVars

LEMMA BeginType == \A u \in Updates : TypeOK /\ Begin(u) => TrackerTypeOK'
  <1> SUFFICES ASSUME NEW u \in Updates, TypeOK, Begin(u) PROVE TrackerTypeOK'
    OBVIOUS
  <1>1. PICK alone \in BOOLEAN :
            /\ updates' = [w \in Updates |->
                   IF w = u THEN [updates[u] EXCEPT !.pc = "slashed", !.managed = managed,
                                                    !.quiet = alone]
                   ELSE [updates[w] EXCEPT !.quiet = FALSE]]
            /\ settled' = (settled /\ alone)
    BY DEF Begin
  <1>2. ASSUME NEW w \in Updates
        PROVE  /\ [updates[w] EXCEPT !.quiet = FALSE] \in Update
               /\ [updates[w] EXCEPT !.pc = "slashed", !.managed = managed,
                                     !.quiet = alone] \in Update
    BY DEF TypeOK, TrackerTypeOK, Update
  <1>3. updates' \in [Updates -> Update]
    BY <1>1, <1>2
  <1> QED
    BY <1>1, <1>3 DEF Begin, TypeOK, TrackerTypeOK, worldVars

LEMMA ReceiveSlashedType == \A u \in Updates : TypeOK /\ ReceiveSlashed(u) => TrackerTypeOK'
  <1> SUFFICES ASSUME NEW u \in Updates, TypeOK, ReceiveSlashed(u) PROVE TrackerTypeOK'
    OBVIOUS
  <1>1. [updates[u] EXCEPT !.pc = "active"] \in Update
    <2>1. updates[u] \in Update
      BY DEF TypeOK, TrackerTypeOK
    <2> QED
      BY <2>1 DEF Update, Groups
  <1>2. updates' \in [Updates -> Update]
    BY <1>1 DEF ReceiveSlashed, TypeOK, TrackerTypeOK
  <1> QED
    BY <1>2 DEF ReceiveSlashed, TypeOK, TrackerTypeOK, worldVars

LEMMA ReceiveGroupType == \A u \in Updates : TypeOK /\ ReceiveGroup(u) => TrackerTypeOK'
  <1> SUFFICES ASSUME NEW u \in Updates, TypeOK, ReceiveGroup(u) PROVE TrackerTypeOK'
    OBVIOUS
  <1>1. PICK answer \in SUBSET Validators :
            /\ lists' = Replaced(updates[u].pc, answer)
            /\ updates' = [updates EXCEPT ![u] = AfterAnswer(u, answer)]
    BY AnswerType DEF ReceiveGroup
  <1>2. updates' \in [Updates -> Update]
    BY <1>1, AfterAnswerType DEF ReceiveGroup, TypeOK, TrackerTypeOK
  <1>3. lists' \in [Groups -> SUBSET Validators]
    BY <1>1 DEF Replaced, TypeOK, TrackerTypeOK
  <1> QED
    BY <1>2, <1>3 DEF ReceiveGroup, TypeOK, TrackerTypeOK, worldVars

LEMMA FailRequestType == \A u \in Updates : TypeOK /\ FailRequest(u) => TrackerTypeOK'
  <1> SUFFICES ASSUME NEW u \in Updates, TypeOK, FailRequest(u) PROVE TrackerTypeOK'
    OBVIOUS
  <1>1. updates' \in [Updates -> Update]
    BY WaitingType DEF FailRequest, TypeOK, TrackerTypeOK
  <1>2. failures' \in 0..MaxFailures
    BY BoundsAssumption DEF FailRequest, MayFail, TypeOK, TrackerTypeOK
  <1> QED
    BY <1>1, <1>2 DEF FailRequest, TypeOK, TrackerTypeOK, worldVars

LEMMA FailType == TypeOK /\ Fail => TypeOK'
  <1> SUFFICES ASSUME TypeOK, Fail PROVE TypeOK'
    OBVIOUS
  <1>1. updates' \in [Updates -> Update]
    BY WaitingType DEF Fail
  <1>2. lists' \in [Groups -> SUBSET Validators] /\ failures' \in 0..MaxFailures
    BY BoundsAssumption DEF Fail, TypeOK, TrackerTypeOK
  <1>3. detector' \in Detector
    BY DEF Fail, NoDetection, Detector
  <1> QED
    BY <1>1, <1>2, <1>3
       DEF Fail, TypeOK, TrackerTypeOK, DetectorTypeOK, worldVars, Phases

LEMMA DetectorType == TypeOK /\ DetectorStep => DetectorTypeOK'
  <1> SUFFICES ASSUME TypeOK, DetectorStep PROVE DetectorTypeOK'
    OBVIOUS
  <1>1. UNCHANGED <<clock, rival>>
    BY DEF DetectorStep, EndProbe, EndWaitForEpoch, EndWaitForSlot, ReceiveLiveness
  <1>2. PICK label \in {"epoch", "check", "slot", "recheck", "clear", "found"} :
             detector' = [detector EXCEPT !.pc = label]
    BY DEF DetectorStep, EndProbe, EndWaitForEpoch, EndWaitForSlot, ReceiveLiveness
  <1>3. detector' \in Detector
    BY <1>2 DEF TypeOK, DetectorTypeOK, Detector
  <1> QED
    BY <1>1, <1>3 DEF TypeOK, DetectorTypeOK

LEMMA InitializeEndsType == \A u \in Updates : TypeOK /\ InitializeEnds(u) => TypeOK'
  <1> SUFFICES ASSUME NEW u \in Updates, TypeOK, InitializeEnds(u) PROVE TypeOK'
    OBVIOUS
  <1>1. TrackerTypeOK'
    BY ReceiveGroupType DEF InitializeEnds
  <1>2. detector' \in Detector
    <2>1. CASE enableDoppelgangerDetection
      <3>1. CurrentEpoch \in Nat
        <4>1. clock \in Nat
          BY DEF TypeOK, DetectorTypeOK, Times
        <4> QED
          BY <4>1, EpochLength, Division DEF CurrentEpoch
      <3>2. Watched \in SUBSET Validators
        BY <1>1 DEF Watched, ActiveOrPending, TrackerTypeOK, Groups
      <3>3. detector' = [pc |-> "probe", indices |-> Watched, epoch |-> CurrentEpoch + 1]
        BY <2>1 DEF InitializeEnds, BeginDetection, MonitoredEpoch
      <3> QED
        BY <3>1, <3>2, <3>3 DEF Detector
    <2>2. CASE ~enableDoppelgangerDetection
      BY <2>2 DEF InitializeEnds, TypeOK, DetectorTypeOK
    <2> QED
      BY <2>1, <2>2
  <1>3. overlooked' \in SUBSET Validators /\ phase' \in Phases
    BY DEF InitializeEnds, TypeOK, Phases
  <1> QED
    BY <1>1, <1>2, <1>3 DEF InitializeEnds, TypeOK, DetectorTypeOK

LEMMA UpdateStepType == \A u \in Updates : TypeOK /\ UpdateStep(u) => TypeOK'
  <1> SUFFICES ASSUME NEW u \in Updates, TypeOK, UpdateStep(u) PROVE TypeOK'
    OBVIOUS
  <1>1. TrackerTypeOK'
    BY BeginType, ReceiveSlashedType, ReceiveGroupType DEF UpdateStep
  <1> QED
    BY <1>1 DEF UpdateStep, TypeOK, DetectorTypeOK, detectorVars, startupVars

LEMMA FailUpdateType == \A u \in Updates : TypeOK /\ FailUpdate(u) => TypeOK'
  <1> SUFFICES ASSUME NEW u \in Updates, TypeOK, FailUpdate(u) PROVE TypeOK'
    OBVIOUS
  <1>1. CASE Fail
    BY <1>1, FailType
  <1>2. CASE FailRequest(u) /\ UNCHANGED <<detectorVars, startupVars>>
    <2>1. TrackerTypeOK'
      BY <1>2, FailRequestType
    <2> QED
      BY <1>2, <2>1 DEF TypeOK, DetectorTypeOK, detectorVars, startupVars
  <1> QED
    BY <1>1, <1>2 DEF FailUpdate

LEMMA TypeStep == TypeOK /\ [Next]_vars => TypeOK'
  <1> SUFFICES ASSUME TypeOK, [Next]_vars PROVE TypeOK'
    OBVIOUS
  <1>1. CASE UNCHANGED vars
    BY <1>1 DEF vars, trackerVars, worldVars, detectorVars, startupVars,
                TypeOK, TrackerTypeOK, DetectorTypeOK
  <1>2. CASE WorldStep
    BY <1>2, WorldType
  <1>3. CASE RivalStep
    BY <1>3, RivalType
  <1>4. CASE AdvanceClock
    BY <1>4, ClockType
  <1>5. CASE SlashingEvent
    BY <1>5 DEF SlashingEvent, HandleSlashingEvent, worldVars, detectorVars, startupVars,
                TypeOK, TrackerTypeOK, DetectorTypeOK
  <1>6. ASSUME NEW u \in Updates, InitializeEnds(u) PROVE TypeOK'
    BY <1>6, InitializeEndsType
  <1>7. ASSUME NEW u \in Updates, UpdateStep(u) PROVE TypeOK'
    BY <1>7, UpdateStepType
  <1>8. ASSUME NEW u \in Updates, FailUpdate(u) PROVE TypeOK'
    BY <1>8, FailUpdateType
  <1>9. CASE DetectStep
    <2>1. DetectorTypeOK'
      BY <1>9, DetectorType DEF DetectStep
    <2> QED
      BY <1>9, <2>1
         DEF DetectStep, TypeOK, TrackerTypeOK, trackerVars, worldVars, Phases
  <1>10. CASE StartServices
    <2>1. detector' \in Detector
      BY <1>10 DEF StartServices, NoDetection, Detector
    <2> QED
      BY <1>10, <2>1
         DEF StartServices, TypeOK, TrackerTypeOK, DetectorTypeOK, trackerVars, worldVars,
             Phases
  <1>11. CASE FailLiveness
    BY <1>11, FailType DEF FailLiveness
  <1> QED
    BY <1>1, <1>2, <1>3, <1>4, <1>5, <1>6, <1>7, <1>8, <1>9, <1>10, <1>11 DEF Next

-----------------------------------------------------------------------------
(* The status tracker *)

\* What is running is asking for something.
LEMMA RunningPc ==
    ASSUME TypeOK, NEW u \in Updates
    PROVE  Running(u) <=> updates[u].pc \in {"slashed"} \cup Groups
  BY DEF TypeOK, TrackerTypeOK, Update, Running, Groups

\* Once nodes agree, every answer shows the chain.
LEMMA SyncedAnswer ==
    ASSUME Synced, NEW statuses \in Seen
    PROVE  statuses = chain
  BY DEF Synced, Seen

\* A quiet update remains so beside steps that change nothing it saw.
LEMMA QuietKept ==
    ASSUME NEW w \in Updates, QuietSoFar(w), updates'[w] = updates[w],
           UNCHANGED <<worldVars, lists>>, slashingDetected => slashingDetected',
           \A x \in Updates \ {w} : Running(x)' => Running(x)
    PROVE  QuietSoFar(w)'
  BY DEF QuietSoFar, Running, Synced, Exact, Listed, SlashingNoticed, worldVars

LEMMA ListsMatchKept ==
    ASSUME ListsMatch, UNCHANGED <<worldVars, lists>>, slashingDetected => slashingDetected'
    PROVE  ListsMatch'
  BY DEF ListsMatch, Listed, worldVars

\* Neither the updates nor what they read and write has changed, but that a slashing
\* may have been noticed.
LEMMA TrackerFrame ==
    ASSUME TrackerInv, UNCHANGED <<worldVars, lists, updates, settled>>,
           slashingDetected => slashingDetected'
    PROVE  TrackerInv'
  <1>1. \A w \in Updates : Running(w)' <=> Running(w)
    BY DEF Running
  <1>2. ASSUME NEW w \in Updates, updates'[w].quiet PROVE QuietSoFar(w)'
    <2>1. QuietSoFar(w)
      BY <1>2 DEF TrackerInv
    <2> QED
      BY <1>1, <2>1, QuietKept
  <1>3. ASSUME settled'
        PROVE  Synced' /\ ListsMatch' /\ \A u \in Updates : Running(u)' => updates'[u].quiet
    <2>1. Synced /\ ListsMatch /\ \A u \in Updates : Running(u) => updates[u].quiet
      BY <1>3 DEF TrackerInv
    <2>2. ListsMatch'
      BY <2>1, ListsMatchKept
    <2> QED
      BY <1>1, <2>1, <2>2 DEF Synced, worldVars
  <1>4. \A u \in Updates : updates'[u].pc = "waiting" => updates'[u].known = {}
    BY DEF TrackerInv
  <1> QED
    BY <1>2, <1>3, <1>4 DEF TrackerInv

\* No update is quiet, and nothing is settled.
LEMMA DisturbedInv ==
    ASSUME \A u \in Updates : updates[u].quiet = FALSE, settled = FALSE,
           \A u \in Updates : updates[u].pc = "waiting" => updates[u].known = {}
    PROVE  TrackerInv
  BY DEF TrackerInv

LEMMA TrackerInvInit == Init => TrackerInv
  <1> SUFFICES ASSUME Init PROVE TrackerInv
    OBVIOUS
  <1>1. ASSUME NEW u \in Updates
        PROVE  updates[u].quiet = FALSE /\ updates[u].known = {}
    BY WaitingType DEF Init, TrackerInit
  <1>2. settled = FALSE
    BY DEF Init, TrackerInit
  <1> QED
    BY <1>1, <1>2, DisturbedInv

\* The world changes: no update has seen one state of it any more.
LEMMA WorldTrackerInv ==
    ASSUME TypeOK, TrackerInv, WorldStep
    PROVE  TrackerInv'
  <1>1. Disturb
    BY DEF WorldStep, ChangeStatus, CatchUp, ChangeKeys
  <1>2. ASSUME NEW u \in Updates
        PROVE  /\ updates'[u].quiet = FALSE
               /\ updates'[u].pc = updates[u].pc /\ updates'[u].known = updates[u].known
    <2>1. updates[u] \in Update
      BY DEF TypeOK, TrackerTypeOK
    <2>2. updates'[u] = [updates[u] EXCEPT !.quiet = FALSE]
      BY <1>1 DEF Disturb
    <2> QED
      BY <2>1, <2>2 DEF Update
  <1>3. settled' = FALSE
    BY <1>1 DEF Disturb
  <1>4. \A u \in Updates : updates'[u].pc = "waiting" => updates'[u].known = {}
    BY <1>2 DEF TrackerInv
  <1> QED
    BY <1>2, <1>3, <1>4 DEF TrackerInv

LEMMA FailTrackerInv ==
    ASSUME Fail
    PROVE  TrackerInv'
  <1>1. ASSUME NEW u \in Updates
        PROVE  updates'[u].quiet = FALSE /\ updates'[u].known = {}
    BY WaitingType DEF Fail
  <1>2. settled' = FALSE
    BY DEF Fail
  <1> QED
    BY <1>1, <1>2 DEF TrackerInv

\* An update that is created, or fails and will try again, waits; others go on.
LEMMA WaitTrackerInv ==
    ASSUME TypeOK, TrackerInv, NEW x \in Updates,
           updates' = [updates EXCEPT ![x] = WaitingUpdate(FALSE)],
           UNCHANGED <<worldVars, lists, slashingDetected, settled>>
    PROVE  TrackerInv'
  <1>1. /\ updates'[x].pc = "waiting" /\ updates'[x].quiet = FALSE
        /\ updates'[x].known = {}
    BY WaitingType DEF TypeOK, TrackerTypeOK
  <1>2. \A w \in Updates \ {x} : updates'[w] = updates[w]
    BY DEF TypeOK, TrackerTypeOK
  <1>3. \A w \in Updates : Running(w)' => w # x /\ Running(w)
    BY <1>1, <1>2 DEF Running
  <1>4. ASSUME NEW w \in Updates, updates'[w].quiet PROVE QuietSoFar(w)'
    <2>1. w # x /\ QuietSoFar(w)
      BY <1>1, <1>2, <1>4 DEF TrackerInv
    <2> QED
      BY <1>2, <1>3, <2>1, QuietKept
  <1>5. ASSUME settled'
        PROVE  Synced' /\ ListsMatch' /\ \A u \in Updates : Running(u)' => updates'[u].quiet
    <2>1. Synced /\ ListsMatch /\ \A u \in Updates : Running(u) => updates[u].quiet
      BY <1>5 DEF TrackerInv
    <2>2. ListsMatch'
      BY <2>1, ListsMatchKept
    <2> QED
      BY <1>2, <1>3, <2>1, <2>2 DEF Synced, worldVars
  <1>6. \A u \in Updates : updates'[u].pc = "waiting" => updates'[u].known = {}
    BY <1>1, <1>2 DEF TrackerInv
  <1> QED
    BY <1>4, <1>5, <1>6 DEF TrackerInv

\* An update begins: it is quiet if no other one is running, and no other one stays so.
LEMMA BeginTrackerInv ==
    ASSUME TypeOK, TrackerInv, NEW u \in Updates, Begin(u)
    PROVE  TrackerInv'
  <1> DEFINE alone == Synced /\ \A w \in Updates \ {u} : ~Running(w)
  <1>1. /\ updates[u] \in Update /\ updates[u].pc = "waiting" /\ updates[u].known = {}
        /\ settled' = (settled /\ alone) /\ UNCHANGED <<worldVars, lists, slashingDetected>>
    BY DEF Begin, TypeOK, TrackerTypeOK, TrackerInv
  <1>2. /\ updates'[u].pc = "slashed" /\ updates'[u].managed = managed
        /\ updates'[u].known = {} /\ updates'[u].quiet = alone
    <2>1. updates'[u] = [updates[u] EXCEPT !.pc = "slashed", !.managed = managed,
                                           !.quiet = alone]
      BY DEF Begin
    <2> HIDE DEF alone
    <2> QED
      BY <1>1, <2>1 DEF Update
  <1>3. ASSUME NEW w \in Updates \ {u}
        PROVE  /\ updates'[w].quiet = FALSE /\ updates'[w].pc = updates[w].pc
               /\ updates'[w].known = updates[w].known
    <2>1. updates'[w] = [updates[w] EXCEPT !.quiet = FALSE] /\ updates[w] \in Update
      BY DEF Begin, TypeOK, TrackerTypeOK
    <2> QED
      BY <2>1 DEF Update
  <1>4. \A w \in Updates \ {u} : Running(w)' <=> Running(w)
    BY <1>3 DEF Running
  <1>5. ASSUME alone PROVE QuietSoFar(u)'
    <2>1. Running(u)' /\ \A w \in Updates \ {u} : ~Running(w)'
      BY <1>2, <1>4, <1>5 DEF Running
    <2>2. Synced' /\ managed' = managed
      BY <1>1, <1>5 DEF Synced, worldVars
    <2>3. Assigned("slashed") = {}
      BY DEF Assigned
    <2> QED
      BY <1>2, <2>1, <2>2, <2>3 DEF QuietSoFar
  <1>6. ASSUME settled'
        PROVE  Synced' /\ ListsMatch' /\ \A w \in Updates : Running(w)' => updates'[w].quiet
    <2>1. alone /\ ListsMatch
      BY <1>1, <1>6 DEF TrackerInv
    <2>2. ListsMatch'
      BY <1>1, <2>1, ListsMatchKept
    <2>3. Synced'
      BY <1>1, <2>1 DEF Synced, worldVars
    <2> QED
      BY <1>2, <1>4, <2>1, <2>2, <2>3
  <1>7. ASSUME NEW w \in Updates, updates'[w].quiet PROVE QuietSoFar(w)'
    BY <1>2, <1>3, <1>5, <1>7
  <1>8. \A w \in Updates : updates'[w].pc = "waiting" => updates'[w].known = {}
    BY <1>2, <1>3 DEF TrackerInv
  <1> QED
    BY <1>6, <1>7, <1>8 DEF TrackerInv

\* While an update runs no other one is quiet.
LEMMA OnlyOneQuiet ==
    ASSUME TrackerInv, NEW u \in Updates, Running(u), NEW w \in Updates \ {u}
    PROVE  ~updates[w].quiet
  BY DEF TrackerInv, QuietSoFar

LEMMA ReceiveSlashedTrackerInv ==
    ASSUME TypeOK, TrackerInv, NEW u \in Updates, ReceiveSlashed(u)
    PROVE  TrackerInv'
  <1>1. /\ updates[u] \in Update /\ updates[u].pc = "slashed" /\ Running(u)
        /\ updates' = [updates EXCEPT ![u].pc = "active"]
        /\ UNCHANGED <<worldVars, lists, settled>>
        /\ slashingDetected => slashingDetected'
    BY DEF ReceiveSlashed, TypeOK, TrackerTypeOK, Running
  <1>2. /\ updates'[u].pc = "active" /\ updates'[u].quiet = updates[u].quiet
        /\ updates'[u].known = updates[u].known
        /\ updates'[u].managed = updates[u].managed
    BY <1>1 DEF TypeOK, TrackerTypeOK, Update
  <1>3. \A w \in Updates \ {u} : updates'[w] = updates[w]
    BY <1>1 DEF TypeOK, TrackerTypeOK
  <1>4. \A w \in Updates : Running(w)' <=> Running(w)
    BY <1>1, <1>2, <1>3 DEF Running
  <1>5. Assigned("slashed") = {} /\ Assigned("active") = {}
    BY DEF Assigned
  <1>6. ASSUME updates[u].quiet PROVE QuietSoFar(u)'
    <2>1. QuietSoFar(u)
      BY <1>6 DEF TrackerInv
    <2>2. SlashingNoticed'
      <3>1. PICK statuses \in Seen :
                slashingDetected' = (slashingDetected \/ AnswerOf(statuses, u) # {})
        BY DEF ReceiveSlashed
      <3>2. statuses = chain
        BY <2>1, SyncedAnswer DEF QuietSoFar
      <3>3. Ids(u) = managed
        BY <1>1, <1>5, <2>1 DEF QuietSoFar, Ids
      <3>4. \A v \in Validators : Listed(v, "slashed") => v \in AnswerOf(chain, u)
        BY <1>1, <3>3 DEF Listed, AnswerOf
      <3> QED
        BY <1>1, <3>1, <3>2, <3>4 DEF SlashingNoticed, Listed, worldVars
    <2>3. Running(u)' /\ \A w \in Updates \ {u} : ~Running(w)'
      BY <1>4, <2>1 DEF QuietSoFar
    <2>4. Synced' /\ updates'[u].managed = managed' /\ updates'[u].known = {}
      BY <1>1, <1>2, <1>5, <2>1 DEF QuietSoFar, Synced, worldVars
    <2> QED
      BY <1>2, <1>5, <2>2, <2>3, <2>4 DEF QuietSoFar
  <1>7. ASSUME NEW w \in Updates, updates'[w].quiet PROVE QuietSoFar(w)'
    BY <1>1, <1>2, <1>3, <1>6, <1>7, OnlyOneQuiet
  <1>8. ASSUME settled'
        PROVE  Synced' /\ ListsMatch' /\ \A w \in Updates : Running(w)' => updates'[w].quiet
    <2>1. Synced /\ ListsMatch /\ \A w \in Updates : Running(w) => updates[w].quiet
      BY <1>1, <1>8 DEF TrackerInv
    <2>2. ListsMatch'
      BY <1>1, <2>1, ListsMatchKept
    <2> QED
      BY <1>1, <1>2, <1>3, <1>4, <2>1, <2>2 DEF Synced, worldVars
  <1>9. \A w \in Updates : updates'[w].pc = "waiting" => updates'[w].known = {}
    BY <1>2, <1>3 DEF TrackerInv
  <1> QED
    BY <1>7, <1>8, <1>9 DEF TrackerInv

\* A validator that is listed somewhere is listed in one of the groups.
LEMMA GroupsDisjoint ==
    ASSUME NEW v, NEW g \in Groups, NEW h \in Groups, Listed(v, g), Listed(v, h)
    PROVE  g = h
  BY DEF Listed, Groups, StatusesOf

\* What is requested after a group, if anything.
LEMMA NextRequest ==
    ASSUME TypeOK, NEW u \in Updates, updates[u].pc \in Groups,
           NEW answer \in SUBSET Validators
    PROVE  LET next == AfterAnswer(u, answer) IN
           \/ /\ next.pc \in {"idle", "waiting"} /\ next.known = {} /\ next.quiet = FALSE
           \/ /\ next.pc \in {"pending", "exited", "withdrawal"}
              /\ updates[u].pc # "withdrawal"
              /\ Assigned(next.pc) = Assigned(updates[u].pc) \cup {updates[u].pc}
              /\ next.known = updates[u].known \cup answer
              /\ next.quiet = updates[u].quiet /\ next.managed = updates[u].managed
  <1> DEFINE next == AfterAnswer(u, answer)
  <1>1. updates[u] \in Update
    BY DEF TypeOK, TrackerTypeOK
  <1>2. ASSUME NEW g \in {"pending", "exited", "withdrawal"},
               next = [updates[u] EXCEPT !.pc = g, !.known = @ \cup answer]
        PROVE  /\ next.pc = g /\ next.known = updates[u].known \cup answer
               /\ next.quiet = updates[u].quiet /\ next.managed = updates[u].managed
    BY <1>1, <1>2 DEF Update
  <1>3. CASE updates[u].pc = "active"
    <2>1. next = [updates[u] EXCEPT !.pc = "pending", !.known = @ \cup answer]
      BY <1>3 DEF AfterAnswer
    <2>2. Assigned("pending") = Assigned("active") \cup {"active"}
      BY DEF Assigned
    <2> QED
      BY <1>2, <1>3, <2>1, <2>2
  <1>4. CASE updates[u].pc = "pending" /\ updates[u].minimal
    <2>1. next = WaitingUpdate(FALSE)
      BY <1>4 DEF AfterAnswer
    <2> QED
      BY <2>1, WaitingType
  <1>5. CASE updates[u].pc = "pending" /\ ~updates[u].minimal
    <2>1. next = [updates[u] EXCEPT !.pc = "exited", !.known = @ \cup answer]
      BY <1>5 DEF AfterAnswer
    <2>2. Assigned("exited") = Assigned("pending") \cup {"pending"}
      BY DEF Assigned
    <2> QED
      BY <1>2, <1>5, <2>1, <2>2
  <1>6. CASE updates[u].pc = "exited"
    <2>1. next = [updates[u] EXCEPT !.pc = "withdrawal", !.known = @ \cup answer]
      BY <1>6 DEF AfterAnswer
    <2>2. Assigned("withdrawal") = Assigned("exited") \cup {"exited"}
      BY DEF Assigned
    <2> QED
      BY <1>2, <1>6, <2>1, <2>2
  <1>7. CASE updates[u].pc = "withdrawal"
    <2>1. next = IdleUpdate
      BY <1>7 DEF AfterAnswer
    <2> QED
      BY <2>1, WaitingType
  <1> QED
    BY <1>3, <1>4, <1>5, <1>6, <1>7 DEF Groups

\* A quiet update gets the managed validators of the group it asks for: those of the
\* groups before are not asked for any more.
LEMMA QuietAnswer ==
    ASSUME TypeOK, NEW u \in Updates, QuietSoFar(u), updates[u].pc \in Groups
    PROVE  AnswerOf(chain, u) = {v \in Validators : Listed(v, updates[u].pc)}
  <1> DEFINE g == updates[u].pc
  <1>1. g \in Groups /\ Assigned(g) \subseteq Groups /\ g \notin Assigned(g)
    BY DEF Assigned, Groups
  <1>2. managed \subseteq Validators
    BY DEF TypeOK, TrackerTypeOK
  <1>3. \A v : v \in Ids(u) <=> v \in managed /\ ~\E h \in Assigned(g) : Listed(v, h)
    BY <1>2 DEF QuietSoFar, Ids
  <1>4. \A v : Listed(v, g) => ~\E h \in Assigned(g) : Listed(v, h)
    BY <1>1, GroupsDisjoint
  <1>5. \A v : v \in AnswerOf(chain, u) <=> Listed(v, g)
    BY <1>3, <1>4 DEF AnswerOf, Listed
  <1> QED
    BY <1>2, <1>5 DEF Listed

\* The list a quiet update assigns is exact, and no other list changes.
LEMMA QuietWrites ==
    ASSUME TypeOK, NEW u \in Updates, QuietSoFar(u), ReceiveGroup(u),
           NEW pc, pc = updates[u].pc
    PROVE  /\ updates' = [updates EXCEPT
                              ![u] = AfterAnswer(u, {v \in Validators : Listed(v, pc)})]
           /\ Exact(pc)'
           /\ \A g \in Groups : Exact(g) => Exact(g)'
  <1>1. PICK statuses \in Seen :
            /\ lists' = Replaced(pc, AnswerOf(statuses, u))
            /\ updates' = [updates EXCEPT ![u] = AfterAnswer(u, AnswerOf(statuses, u))]
    BY DEF ReceiveGroup
  <1>2. statuses = chain
    BY SyncedAnswer DEF QuietSoFar
  <1>3. pc \in Groups /\ UNCHANGED worldVars
    BY DEF ReceiveGroup
  <1>4. AnswerOf(chain, u) = {v \in Validators : Listed(v, pc)}
    BY <1>3, QuietAnswer
  <1>5. lists' = [lists EXCEPT ![pc] = {v \in Validators : Listed(v, pc)}]
    BY <1>1, <1>2, <1>4 DEF Replaced
  <1>6. lists \in [Groups -> SUBSET Validators]
    BY DEF TypeOK, TrackerTypeOK
  <1>7. Exact(pc)'
    BY <1>3, <1>5, <1>6 DEF Exact, Listed, worldVars
  <1>8. ASSUME NEW g \in Groups, Exact(g) PROVE Exact(g)'
    <2>1. CASE g = pc
      BY <1>7, <2>1
    <2>2. CASE g # pc
      <3>1. lists'[g] = lists[g]
        BY <1>3, <1>5, <1>6, <2>2
      <3> QED
        BY <1>3, <1>8, <3>1 DEF Exact, Listed, worldVars
    <2> QED
      BY <2>1, <2>2
  <1> QED
    BY <1>1, <1>2, <1>4, <1>7, <1>8

\* The four lists are exact, and a slashing was noticed.
LEMMA ListsMatchIs ==
    ListsMatch <=> (\A g \in Groups : Exact(g)) /\ SlashingNoticed
  BY DEF ListsMatch, Exact, SlashingNoticed

LEMMA QuietReceivesGroup ==
    ASSUME TypeOK, TrackerInv, NEW u \in Updates, updates[u].quiet, ReceiveGroup(u)
    PROVE  TrackerInv'
  <1> DEFINE answer == {v \in Validators : Listed(v, updates[u].pc)}
  <1>1. PICK pc : pc = updates[u].pc
    OBVIOUS
  <1>2. QuietSoFar(u)
    BY DEF TrackerInv
  <1>3. /\ pc \in Groups /\ UNCHANGED <<worldVars, slashingDetected>>
        /\ settled' = (settled \/ pc = "withdrawal")
    BY <1>1 DEF ReceiveGroup
  <1>4. /\ updates' = [updates EXCEPT ![u] = AfterAnswer(u, answer)]
        /\ Exact(pc)' /\ \A g \in Groups : Exact(g) => Exact(g)'
    BY <1>1, <1>2, QuietWrites
  <1>5. PICK next : next = AfterAnswer(u, answer)
    OBVIOUS
  <1>6. updates'[u] = next /\ \A w \in Updates \ {u} : updates'[w] = updates[w]
    BY <1>4, <1>5 DEF TypeOK, TrackerTypeOK
  <1>7. \/ /\ next.pc \in {"idle", "waiting"} /\ next.known = {} /\ next.quiet = FALSE
        \/ /\ next.pc \in {"pending", "exited", "withdrawal"}
           /\ pc # "withdrawal"
           /\ Assigned(next.pc) = Assigned(pc) \cup {pc}
           /\ next.known = updates[u].known \cup answer
           /\ next.quiet /\ next.managed = managed
    <2>1. answer \in SUBSET Validators
      OBVIOUS
    <2>2. updates[u].pc \in Groups /\ updates[u].quiet /\ updates[u].managed = managed
      BY <1>1, <1>2, <1>3 DEF QuietSoFar
    <2> HIDE DEF answer
    <2>3. \/ /\ next.pc \in {"idle", "waiting"} /\ next.known = {} /\ next.quiet = FALSE
          \/ /\ next.pc \in {"pending", "exited", "withdrawal"}
             /\ updates[u].pc # "withdrawal"
             /\ Assigned(next.pc) = Assigned(updates[u].pc) \cup {updates[u].pc}
             /\ next.known = updates[u].known \cup answer
             /\ next.quiet = updates[u].quiet /\ next.managed = updates[u].managed
      BY <1>5, <2>1, <2>2, NextRequest
    <2> QED
      BY <1>1, <2>2, <2>3
  <1>8. Synced' /\ SlashingNoticed'
    BY <1>1, <1>2, <1>3 DEF QuietSoFar, Synced, SlashingNoticed, Listed, Groups, worldVars
  <1>9. \A w \in Updates \ {u} : ~Running(w)'
    BY <1>2, <1>6 DEF QuietSoFar, Running
  <1>10. \A w \in Updates \ {u} : ~updates'[w].quiet
    BY <1>2, <1>6, OnlyOneQuiet DEF QuietSoFar
  <1>11. ASSUME next.quiet PROVE QuietSoFar(u)'
    <2>1. /\ next.pc \in {"pending", "exited", "withdrawal"}
          /\ Assigned(next.pc) = Assigned(pc) \cup {pc}
          /\ next.known = updates[u].known \cup answer
          /\ next.managed = managed'
      BY <1>3, <1>7, <1>11 DEF worldVars
    <2>2. Running(u)'
      BY <1>6, <2>1 DEF Running
    <2>3. \A g \in Assigned(next.pc) : Exact(g)'
      <3>1. Assigned(pc) \subseteq Groups
        BY <1>3 DEF Assigned, Groups
      <3>2. \A g \in Assigned(pc) : Exact(g)
        BY <1>1, <1>2 DEF QuietSoFar
      <3> QED
        BY <1>4, <2>1, <3>1, <3>2
    <2>4. next.known = {v \in Validators : \E g \in Assigned(next.pc) : Listed(v, g)}
      <3>1. updates[u].known = {v \in Validators : \E g \in Assigned(pc) : Listed(v, g)}
        BY <1>1, <1>2 DEF QuietSoFar
      <3> QED
        BY <1>1, <2>1, <3>1
    <2>5. next.known = {v \in Validators : \E g \in Assigned(next.pc) : Listed(v, g)'}
      BY <1>3, <2>4 DEF Listed, worldVars
    <2> QED
      BY <1>6, <1>8, <1>9, <2>1, <2>2, <2>3, <2>5 DEF QuietSoFar
  <1>12. ASSUME settled'
         PROVE  Synced' /\ ListsMatch' /\ \A w \in Updates : Running(w)' => updates'[w].quiet
    <2>1. \A g \in Groups : Exact(g)'
      <3>1. CASE settled
        <4>1. \A g \in Groups : Exact(g)
          BY <3>1, ListsMatchIs DEF TrackerInv
        <4> QED
          BY <1>4, <4>1
      <3>2. CASE pc = "withdrawal"
        <4>1. \A g \in {"active", "pending", "exited"} : Exact(g)
          BY <1>1, <1>2, <3>2 DEF QuietSoFar, Assigned
        <4> QED
          BY <1>4, <3>2, <4>1 DEF Groups
      <3> QED
        BY <1>3, <1>12, <3>1, <3>2
    <2>2. ListsMatch'
      BY <1>8, <2>1 DEF ListsMatch, Exact, SlashingNoticed
    <2>3. Running(u)' => updates'[u].quiet
      BY <1>6, <1>7 DEF Running
    <2> QED
      BY <1>8, <1>9, <2>2, <2>3
  <1>13. \A w \in Updates : updates'[w].pc = "waiting" => updates'[w].known = {}
    BY <1>6, <1>7 DEF TrackerInv
  <1>14. ASSUME NEW w \in Updates, updates'[w].quiet PROVE QuietSoFar(w)'
    BY <1>6, <1>10, <1>11, <1>14
  <1> QED
    BY <1>12, <1>13, <1>14 DEF TrackerInv

\* An update that is not quiet may write anything, but then nothing was settled.
LEMMA ReceiveGroupTrackerInv ==
    ASSUME TypeOK, TrackerInv, NEW u \in Updates, ReceiveGroup(u)
    PROVE  TrackerInv'
  <1>1. CASE updates[u].quiet
    BY <1>1, QuietReceivesGroup
  <1>2. CASE ~updates[u].quiet
    <2>1. PICK answer \in SUBSET Validators :
              updates' = [updates EXCEPT ![u] = AfterAnswer(u, answer)]
      BY AnswerType DEF ReceiveGroup
    <2>2. updates[u].pc \in Groups /\ Running(u)
      BY DEF ReceiveGroup, Running, Groups
    <2>3. settled' = FALSE
      BY <1>2, <2>2 DEF ReceiveGroup, TrackerInv, TypeOK, TrackerTypeOK
    <2>4. PICK next : next = AfterAnswer(u, answer)
      OBVIOUS
    <2>5. updates'[u] = next /\ \A w \in Updates \ {u} : updates'[w] = updates[w]
      BY <2>1, <2>4 DEF TypeOK, TrackerTypeOK
    <2>6. /\ next.pc = "waiting" => next.known = {}
          /\ ~next.quiet
      <3>1. \/ next.known = {} /\ next.quiet = FALSE
            \/ next.pc # "waiting" /\ next.quiet = updates[u].quiet
        BY <2>2, <2>4, NextRequest
      <3> QED
        BY <1>2, <3>1
    <2>7. \A w \in Updates : ~updates'[w].quiet
      BY <2>2, <2>5, <2>6, OnlyOneQuiet
    <2>8. \A w \in Updates : updates'[w].pc = "waiting" => updates'[w].known = {}
      BY <2>5, <2>6 DEF TrackerInv
    <2> QED
      BY <2>3, <2>7, <2>8 DEF TrackerInv
  <1> QED
    BY <1>1, <1>2

LEMMA TrackerInvStep ==
    ASSUME TypeOK, TrackerInv, [Next]_vars
    PROVE  TrackerInv'
  <1>1. CASE UNCHANGED vars
    BY <1>1, TrackerFrame DEF vars, trackerVars
  <1>2. CASE WorldStep
    BY <1>2, WorldTrackerInv
  <1>3. CASE RivalStep
    BY <1>3, TrackerFrame DEF RivalStep, trackerVars
  <1>4. CASE AdvanceClock
    <2>1. CASE UNCHANGED trackerVars
      BY <2>1, TrackerFrame DEF trackerVars
    <2>2. CASE Create
      <3> DEFINE x == First({u \in Updates : updates[u].pc = "idle"})
      <3>1. x \in Updates
        BY <2>2, FirstIn DEF Create
      <3>2. /\ updates' = [updates EXCEPT ![x] = WaitingUpdate(FALSE)]
            /\ UNCHANGED <<worldVars, lists, slashingDetected, settled>>
        BY <2>2 DEF Create
      <3> HIDE DEF x
      <3> QED
        BY <3>1, <3>2, WaitTrackerInv
    <2> QED
      BY <1>4, <2>1, <2>2 DEF AdvanceClock
  <1>5. CASE SlashingEvent
    <2>1. /\ UNCHANGED <<worldVars, lists, updates, settled>>
          /\ slashingDetected => slashingDetected'
      BY <1>5 DEF SlashingEvent, HandleSlashingEvent
    <2> QED
      BY <2>1, TrackerFrame
  <1>6. ASSUME NEW u \in Updates, InitializeEnds(u) PROVE TrackerInv'
    BY <1>6, ReceiveGroupTrackerInv DEF InitializeEnds
  <1>7. ASSUME NEW u \in Updates, UpdateStep(u) PROVE TrackerInv'
    BY <1>7, BeginTrackerInv, ReceiveSlashedTrackerInv, ReceiveGroupTrackerInv DEF UpdateStep
  <1>8. ASSUME NEW u \in Updates, FailUpdate(u) PROVE TrackerInv'
    <2>1. CASE Fail
      BY <2>1, FailTrackerInv
    <2>2. CASE FailRequest(u)
      BY <2>2, WaitTrackerInv DEF FailRequest
    <2> QED
      BY <1>8, <2>1, <2>2 DEF FailUpdate
  <1>9. CASE DetectStep
    BY <1>9, TrackerFrame DEF DetectStep, trackerVars
  <1>10. CASE StartServices
    BY <1>10, TrackerFrame DEF StartServices, trackerVars
  <1>11. CASE FailLiveness
    BY <1>11, FailTrackerInv DEF FailLiveness
  <1> QED
    BY <1>1, <1>2, <1>3, <1>4, <1>5, <1>6, <1>7, <1>8, <1>9, <1>10, <1>11 DEF Next

-----------------------------------------------------------------------------
(* The detector *)

\* The invariant reads the time, the detector, the rival and where startup is.
LEMMA DetectorFrame ==
    ASSUME DetectorInv, UNCHANGED <<clock, rival, detector, phase, overlooked>>
    PROVE  DetectorInv'
  BY DEF DetectorInv, CurrentEpoch, LastInclusion, Monitored, StopsForRivalOnly

LEMMA DetectorInvInit == Init => DetectorInv
  <1> SUFFICES ASSUME Init PROVE DetectorInv
    OBVIOUS
  <1>1. clock = 0 /\ phase = "status" /\ overlooked = {}
    BY DEF Init, DetectorInit
  <1>2. CurrentEpoch = 0
    <2>1. \A n \in Nat \ {0} : 0 \div n = 0
      OBVIOUS
    <2> QED
      BY <1>1, <2>1, EpochLength DEF CurrentEpoch
  <1> QED
    BY <1>1, <1>2, LastEpochAssumption DEF DetectorInv, StopsForRivalOnly

\* Times are natural numbers, and so are the epochs they are in.
LEMMA CurrentEpochType ==
    ASSUME TypeOK
    PROVE  clock \in Nat /\ CurrentEpoch \in Nat
  <1>1. clock \in Nat
    BY DEF TypeOK, DetectorTypeOK, Times
  <1> QED
    BY <1>1, EpochLength, Division DEF CurrentEpoch

\* Time that has passed the last inclusion does not come back before it.
LEMMA ClockDetectorInv ==
    ASSUME TypeOK, DetectorInv, AdvanceClock
    PROVE  DetectorInv'
  <1>1. clock' = NextTime /\ UNCHANGED <<rival, detector, phase, overlooked>>
    BY DEF AdvanceClock, startupVars
  <1>2. phase' = "status" => CurrentEpoch' + 3 <= LastEpoch
    BY <1>1 DEF AdvanceClock, CurrentEpoch
  <1>3. ASSUME phase' = "detect", detector'.pc \in {"recheck", "clear"}
        PROVE  clock' >= LastInclusion'
    <2>1. detector.epoch \in 1..(LastEpoch - 2) /\ clock >= LastInclusion
      BY <1>1, <1>3 DEF DetectorInv
    <2>2. /\ NextTime \in Nat /\ clock \in Nat
          /\ NextTime >= clock \/ NextTime = StartOf(LastEpoch)
      BY TimeGoesOn DEF TypeOK, DetectorTypeOK, Times
    <2>3. LastInclusion \in Nat /\ LastInclusion <= StartOf(LastEpoch)
      BY <2>1, <2>2, AfterLastInclusion DEF LastInclusion
    <2>4. LastInclusion' = LastInclusion
      BY <1>1 DEF LastInclusion
    <2>5. NextTime >= LastInclusion
      <3>1. CASE NextTime >= clock
        BY <2>1, <2>2, <2>3, <3>1
      <3>2. CASE NextTime = StartOf(LastEpoch)
        BY <2>2, <2>3, <3>2
      <3> QED
        BY <2>2, <3>1, <3>2
    <2> QED
      BY <1>1, <2>4, <2>5
  <1>4. /\ phase' = "detect" => detector'.epoch \in 1..(LastEpoch - 2)
        /\ phase' = "detect" /\ detector'.pc = "clear" => ~Monitored(rival)'
        /\ overlooked' = {}
        /\ StopsForRivalOnly'
    BY <1>1 DEF DetectorInv, Monitored, StopsForRivalOnly
  <1> QED
    BY <1>2, <1>3, <1>4 DEF DetectorInv

\* Another instance that attests once the detector is about to finish attests in a
\* later epoch than the monitored one.
LEMMA RivalDetectorInv ==
    ASSUME TypeOK, DetectorInv, RivalStep
    PROVE  DetectorInv'
  <1>1. /\ phase = "detect" /\ UNCHANGED <<clock, detector, phase, overlooked>>
        /\ \E v \in Validators : rival' = [validator |-> v, epoch |-> CurrentEpoch]
    BY DEF RivalStep, RivalAttests, startupVars
  <1>2. ASSUME detector.pc = "clear" PROVE ~Monitored(rival)'
    <2>1. detector.epoch \in 1..(LastEpoch - 2) /\ clock >= LastInclusion
      BY <1>1, <1>2 DEF DetectorInv
    <2>2. CurrentEpoch \in Nat /\ CurrentEpoch >= detector.epoch + 1
      BY <2>1, CurrentEpochType, AfterLastInclusion DEF CurrentEpoch, LastInclusion
    <2>3. rival'.epoch = CurrentEpoch
      BY <1>1
    <2>4. CurrentEpoch # detector.epoch
      <3>1. detector.epoch \in Nat
        BY DEF TypeOK, DetectorTypeOK, Detector
      <3> QED
        BY <2>2, <3>1
    <2> QED
      BY <1>1, <2>3, <2>4 DEF Monitored
  <1>3. /\ phase' = "detect" => detector'.epoch \in 1..(LastEpoch - 2)
        /\ phase' = "detect" /\ detector'.pc \in {"recheck", "clear"} =>
               clock' >= LastInclusion'
        /\ phase' # "status" /\ overlooked' = {}
        /\ StopsForRivalOnly'
    BY <1>1 DEF DetectorInv, LastInclusion, StopsForRivalOnly
  <1> QED
    BY <1>1, <1>2, <1>3 DEF DetectorInv

\* An undisturbed initialize lets the detector watch all who need it.
LEMMA WatchesAll ==
    ASSUME TypeOK, TrackerInv, NEW u \in Updates, updates[u].quiet,
           updates[u].pc = "pending", ReceiveGroup(u),
           NEW v \in Validators, NeedsWatching(v)
    PROVE  v \in Watched
  <1>1. QuietSoFar(u)
    BY DEF TrackerInv
  <1>2. Exact("active")
    BY <1>1 DEF QuietSoFar, Assigned
  <1>3. Exact("pending")' /\ Exact("active")'
    BY <1>1, <1>2, QuietWrites DEF Groups
  <1>4. UNCHANGED worldVars
    BY DEF ReceiveGroup
  <1> QED
    BY <1>3, <1>4 DEF Exact, Listed, NeedsWatching, Watched, ActiveOrPending, worldVars

LEMMA InitializeEndsDetectorInv ==
    ASSUME TypeOK, TrackerInv, DetectorInv, NEW u \in Updates, InitializeEnds(u)
    PROVE  DetectorInv'
  <1>1. CASE ~enableDoppelgangerDetection
    <2>1. phase' = "running" /\ overlooked' = {}
      BY <1>1 DEF InitializeEnds, DetectorInv
    <2> QED
      BY <2>1 DEF DetectorInv, StopsForRivalOnly
  <1>2. CASE enableDoppelgangerDetection
    <2>1. /\ phase' = "detect"
          /\ detector' = [pc |-> "probe", indices |-> Watched, epoch |-> CurrentEpoch + 1]
          /\ overlooked' = {v \in Validators \ detector'.indices :
                                updates[u].quiet /\ NeedsWatching(v)}
      BY <1>2 DEF InitializeEnds, BeginDetection, MonitoredEpoch
    <2>2. CurrentEpoch + 1 \in 1..(LastEpoch - 2)
      <3>1. CurrentEpoch \in Nat /\ CurrentEpoch + 3 <= LastEpoch
        BY CurrentEpochType DEF InitializeEnds, DetectorInv
      <3> QED
        BY <3>1, LastEpochAssumption
    <2>3. overlooked' = {}
      BY <2>1, WatchesAll DEF InitializeEnds
    <2>4. detector'.pc = "probe" /\ detector'.epoch \in 1..(LastEpoch - 2)
      BY <2>1, <2>2
    <2> QED
      BY <2>1, <2>3, <2>4 DEF DetectorInv, StopsForRivalOnly
  <1> QED
    BY <1>1, <1>2

\* What the node reports is another instance's attestation of the monitored epoch; and
\* the second check does not miss it.
LEMMA LivenessDetectorInv ==
    ASSUME TypeOK, DetectorInv, phase = "detect", ReceiveLiveness,
           phase' = IF detector'.pc = "found" THEN "stopped" ELSE phase,
           overlooked' = overlooked
    PROVE  DetectorInv'
  <1>1. PICK live \in LivenessData(detector.indices, detector.epoch) :
            detector' = [detector EXCEPT !.pc =
                IF live # {} THEN "found"
                ELSE IF detector.pc = "check" THEN "slot" ELSE "clear"]
    BY DEF ReceiveLiveness
  <1>2. /\ detector \in Detector /\ UNCHANGED <<clock, rival>>
        /\ detector.epoch \in 1..(LastEpoch - 2)
        /\ detector.pc \in {"check", "recheck"}
        /\ rival \in Attestation \cup {Nobody}
    BY DEF ReceiveLiveness, TypeOK, DetectorTypeOK, DetectorInv
  <1>3. /\ detector'.epoch = detector.epoch /\ detector'.indices = detector.indices
        /\ detector'.pc = IF live # {} THEN "found"
                          ELSE IF detector.pc = "check" THEN "slot" ELSE "clear"
    BY <1>1, <1>2 DEF Detector
  <1>4. detector.epoch \in Epochs /\ detector.epoch # 0
    BY <1>2, LastEpochAssumption DEF Epochs
  <1>5. CASE live # {}
    <2>1. PICK v \in live : TRUE
      BY <1>5
    <2>2. /\ v \in Validators /\ v \in detector.indices
          /\ rival = [validator |-> v, epoch |-> detector.epoch]
      BY <1>1, <1>4, <2>1 DEF LivenessData, MayBeLive
    <2>3. rival \in Attestation
      BY <1>4, <2>2 DEF Attestation
    <2>4. rival # Nobody
      BY <2>3, NobodyAssumption
    <2>5. Monitored(rival)'
      BY <1>2, <1>3, <2>2, <2>4 DEF Monitored
    <2>6. phase' = "stopped"
      BY <1>3, <1>5
    <2> QED
      BY <2>5, <2>6 DEF DetectorInv, StopsForRivalOnly
  <1>6. CASE live = {} /\ detector.pc = "check"
    <2>1. detector'.pc = "slot" /\ phase' = "detect"
      BY <1>3, <1>6
    <2> QED
      BY <1>2, <1>3, <2>1 DEF DetectorInv, StopsForRivalOnly
  <1>7. CASE live = {} /\ detector.pc = "recheck"
    <2>1. detector'.pc = "clear" /\ phase' = "detect"
      BY <1>3, <1>7
    <2>2. clock >= LastInclusion
      BY <1>7 DEF DetectorInv
    <2>3. LastInclusion \in Nat /\ clock \in Nat
      BY <1>2, CurrentEpochType, AfterLastInclusion DEF LastInclusion
    <2>4. ASSUME Monitored(rival) PROVE FALSE
      <3>1. rival \in Attestation /\ rival.validator \in detector.indices
            /\ rival.epoch = detector.epoch
        BY <1>2, <2>4 DEF Monitored
      <3>2. /\ rival.validator \in Validators
            /\ rival = [validator |-> rival.validator, epoch |-> detector.epoch]
        BY <3>1 DEF Attestation
      <3>3. rival.validator \in AreLive(detector.epoch)
        BY <2>2, <2>3, <3>2 DEF AreLive, LastInclusion
      <3>4. rival.validator \in live
        BY <3>1, <3>3 DEF LivenessData
      <3> QED
        BY <1>7, <3>4
    <2>5. ~Monitored(rival)'
      BY <1>2, <1>3, <2>4 DEF Monitored
    <2>6. clock' >= LastInclusion'
      BY <1>2, <1>3, <2>2 DEF LastInclusion
    <2> QED
      BY <1>2, <1>3, <2>1, <2>5, <2>6 DEF DetectorInv, StopsForRivalOnly
  <1> QED
    BY <1>2, <1>5, <1>6, <1>7

LEMMA DetectStepDetectorInv ==
    ASSUME TypeOK, DetectorInv, DetectStep
    PROVE  DetectorInv'
  <1>1. /\ phase = "detect" /\ overlooked' = overlooked
        /\ phase' = IF detector'.pc = "found" THEN "stopped" ELSE phase
        /\ detector \in Detector
    BY DEF DetectStep, TypeOK, DetectorTypeOK
  <1>2. ASSUME NEW label \in {"epoch", "check", "recheck"},
               detector' = [detector EXCEPT !.pc = label], UNCHANGED <<clock, rival>>,
               label = "recheck" => clock >= LastInclusion
        PROVE  DetectorInv'
    <2>1. /\ detector'.pc = label /\ detector'.epoch = detector.epoch
          /\ phase' = "detect"
      BY <1>1, <1>2 DEF Detector
    <2>2. label = "recheck" => clock' >= LastInclusion'
      BY <1>2, <2>1 DEF LastInclusion
    <2> QED
      BY <1>1, <2>1, <2>2 DEF DetectorInv, StopsForRivalOnly
  <1>3. CASE EndProbe
    BY <1>2, <1>3 DEF EndProbe
  <1>4. CASE EndWaitForEpoch
    BY <1>2, <1>4 DEF EndWaitForEpoch
  <1>5. CASE EndWaitForSlot
    BY <1>2, <1>5 DEF EndWaitForSlot
  <1>6. CASE ReceiveLiveness
    BY <1>1, <1>6, LivenessDetectorInv
  <1> QED
    BY <1>3, <1>4, <1>5, <1>6 DEF DetectStep, DetectorStep

LEMMA DetectorInvStep ==
    ASSUME TypeOK, TrackerInv, DetectorInv, [Next]_vars
    PROVE  DetectorInv'
  <1>1. ASSUME Fail PROVE DetectorInv'
    BY <1>1 DEF Fail, DetectorInv, StopsForRivalOnly
  <1>2. CASE UNCHANGED vars
    BY <1>2, DetectorFrame DEF vars, detectorVars, startupVars
  <1>3. CASE WorldStep
    BY <1>3, DetectorFrame DEF WorldStep, detectorVars, startupVars
  <1>4. CASE RivalStep
    BY <1>4, RivalDetectorInv
  <1>5. CASE AdvanceClock
    BY <1>5, ClockDetectorInv
  <1>6. CASE SlashingEvent
    BY <1>6, DetectorFrame DEF SlashingEvent, detectorVars, startupVars
  <1>7. ASSUME NEW u \in Updates, InitializeEnds(u) PROVE DetectorInv'
    BY <1>7, InitializeEndsDetectorInv
  <1>8. ASSUME NEW u \in Updates, UpdateStep(u) PROVE DetectorInv'
    BY <1>8, DetectorFrame DEF UpdateStep, detectorVars, startupVars
  <1>9. ASSUME NEW u \in Updates, FailUpdate(u) PROVE DetectorInv'
    BY <1>1, <1>9, DetectorFrame DEF FailUpdate, detectorVars, startupVars
  <1>10. CASE DetectStep
    BY <1>10, DetectStepDetectorInv
  <1>11. CASE StartServices
    BY <1>11 DEF StartServices, DetectorInv, StopsForRivalOnly
  <1>12. CASE FailLiveness
    BY <1>1, <1>12 DEF FailLiveness
  <1> QED
    BY <1>2, <1>3, <1>4, <1>5, <1>6, <1>7, <1>8, <1>9, <1>10, <1>11, <1>12 DEF Next

-----------------------------------------------------------------------------
(* The properties *)

LEMMA IndInvAlways == Spec => []IndInv
  <1>1. Init => IndInv
    BY InitType, TrackerInvInit, DetectorInvInit DEF IndInv
  <1>2. IndInv /\ [Next]_vars => IndInv'
    BY TypeStep, TrackerInvStep, DetectorInvStep DEF IndInv
  <1> QED
    BY <1>1, <1>2, PTL DEF Spec

\* The tracker, the detector and the time keep their types; time stays within the
\* last epoch it repeats.
THEOREM TypeCorrect == Spec => []TypeOK
  <1>1. IndInv => TypeOK
    BY DEF IndInv
  <1> QED
    BY <1>1, IndInvAlways, PTL

\* However updates overlap, fail, retry and are answered by lagging nodes: once one
\* ran undisturbed, the lists hold exactly the managed validators of their statuses, a
\* slashed one was noticed, and that remains so until the world changes.
THEOREM SettledCorrect == Spec => []SettledListsMatch
  <1>1. IndInv => SettledListsMatch
    BY DEF IndInv, TrackerInv, SettledListsMatch
  <1> QED
    BY <1>1, IndInvAlways, PTL

\* run_services only raises DoppelgangersDetected for an attestation that another
\* instance made in the monitored epoch, for a validator that is watched.
THEOREM StopsRightly == Spec => []StopsForRivalOnly
  <1>1. IndInv => StopsForRivalOnly
    BY DEF IndInv, DetectorInv
  <1> QED
    BY <1>1, IndInvAlways, PTL

\* Detection only ends without alarm when no other instance attested in the monitored
\* epoch for a watched validator; and none that should be watched is not.
THEOREM RivalKeepsDutiesOff == Spec => NoDutiesBesideRival
  <1>1. ASSUME IndInv, [Next]_vars, phase = "detect", phase' = "running"
        PROVE  ~(/\ rival # Nobody
                 /\ rival.epoch = detector.epoch
                 /\ rival.validator \in detector.indices \cup overlooked)
    <2>1. StartServices
      BY <1>1 DEF Next, vars, WorldStep, RivalStep, AdvanceClock, SlashingEvent,
                  InitializeEnds, UpdateStep, FailUpdate, Fail, DetectStep, FailLiveness,
                  startupVars
    <2>2. detector.pc = "clear"
      BY <2>1 DEF StartServices
    <2>3. ~Monitored(rival) /\ overlooked = {}
      BY <1>1, <2>2 DEF IndInv, DetectorInv
    <2> QED
      BY <2>3 DEF Monitored
  <1>2. IndInv /\ [Next]_vars =>
            [phase = "detect" /\ phase' = "running" =>
                ~(/\ rival # Nobody
                  /\ rival.epoch = detector.epoch
                  /\ rival.validator \in detector.indices \cup overlooked)]_vars
    BY <1>1
  <1> QED
    BY <1>2, IndInvAlways, PTL DEF Spec, NoDutiesBesideRival
=============================================================================
