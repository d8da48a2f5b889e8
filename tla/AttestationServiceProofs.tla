---------------------- MODULE AttestationServiceProofs ----------------------
(***************************************************************************)
(* Theorems about AttestationService, for every number of validators, any  *)
(* schedule of duties, any epoch length and any horizon MaxSlot.           *)
(***************************************************************************)
EXTENDS AttestationService, TLAPS

-----------------------------------------------------------------------------
(* Slots, epochs and duties *)

\* Integer division and multiplication by a natural number are monotone.
LEMMA DivMonotone ==
    ASSUME NEW n \in Nat \ {0}, NEW a \in Nat, NEW b \in Nat, a <= b
    PROVE  /\ a \div n \in Nat
           /\ a \div n <= b \div n
  OBVIOUS

LEMMA ProductMonotone ==
    ASSUME NEW n \in Nat, NEW a \in Nat, NEW b \in Nat, a <= b
    PROVE  /\ a * n \in Nat
           /\ a * n <= b * n
  OBVIOUS

\* The epoch of a slot is one of the epochs with duties.
LEMMA EpochOfSlot ==
    ASSUME NEW s \in Slots
    PROVE  /\ EpochOf(MaxSlot) \in Nat
           /\ EpochOf(s) \in 0..EpochOf(MaxSlot)
           /\ EpochOf(s) \in Epochs
  <1>1. s \in Nat /\ s <= MaxSlot /\ MaxSlot \in Nat /\ SlotsPerEpoch \in Nat \ {0}
    BY MaxSlotAssumption, SlotsPerEpochAssumption DEF Slots
  <1>2. EpochOf(s) \in Nat /\ EpochOf(MaxSlot) \in Nat /\ EpochOf(s) <= EpochOf(MaxSlot)
    BY <1>1, DivMonotone DEF EpochOf
  <1> QED
    BY <1>2 DEF Epochs

\* The epochs of the horizon, and the one after each of them, have duties.
LEMMA EpochBounds ==
    /\ 0 \in Slots
    /\ 0 \in 0..EpochOf(MaxSlot)
    /\ 0 \in Epochs
    /\ \A e \in 0..EpochOf(MaxSlot) : e \in Epochs /\ e + 1 \in Epochs
  <1>1. 0 \in Slots /\ MaxSlot \in Slots
    BY MaxSlotAssumption DEF Slots
  <1>2. EpochOf(MaxSlot) \in Nat
    BY <1>1, EpochOfSlot
  <1> QED
    BY <1>1, <1>2 DEF Epochs

\* A time within the horizon is in one of the slots.
LEMMA SlotOfTime ==
    ASSUME NEW c \in 0..(3 * MaxSlot + 2)
    PROVE  c \div 3 \in Slots
  BY MaxSlotAssumption DEF Slots

\* The current slot and epoch of a clock within the horizon.
LEMMA CurrentTypes ==
    ASSUME clock \in 0..(3 * MaxSlot + 2)
    PROVE  /\ CurrentSlot \in Slots
           /\ CurrentEpoch \in 0..EpochOf(MaxSlot)
           /\ CurrentEpoch + 1 \in Epochs
           /\ CurrentEpoch \in Epochs
  <1>1. CurrentSlot \in Slots
    BY SlotOfTime DEF CurrentSlot
  <1> QED
    BY <1>1, EpochOfSlot, EpochBounds DEF CurrentEpoch

\* A beacon node only returns duties for the slots of the epoch.
LEMMA DutiesOfType ==
    ASSUME NEW r \in Roots, NEW e \in Epochs, NEW idx \in SUBSET Validators
    PROVE  DutiesOf(r, e, idx) \in SUBSET Duty
  <1> DEFINE last == EpochOf(MaxSlot) + 2
  <1>1. MaxSlot \in Slots
    BY MaxSlotAssumption DEF Slots
  <1>2. EpochOf(MaxSlot) \in Nat
    BY <1>1, EpochOfSlot
  <1>3. e \in Nat /\ e + 1 \in Nat /\ e + 1 <= last /\ last \in Nat
    BY <1>2 DEF Epochs
  <1>4. SlotsPerEpoch \in Nat
    BY SlotsPerEpochAssumption
  <1>5. /\ (e + 1) * SlotsPerEpoch <= last * SlotsPerEpoch
        /\ (e + 1) * SlotsPerEpoch \in Nat
        /\ last * SlotsPerEpoch \in Nat
        /\ e * SlotsPerEpoch \in Nat
    BY <1>3, <1>4, ProductMonotone
  <1>6. e * SlotsPerEpoch .. ((e + 1) * SlotsPerEpoch - 1) \subseteq DutySlots
    BY <1>5 DEF DutySlots
  <1>7. \A v \in idx : Schedule(r, e, v) \in DutySlots
    BY <1>6, ScheduleAssumption
  <1> QED
    BY <1>7 DEF DutiesOf, Duty

\* The batches of fetched duties are at most two sets of them.
LEMMA BatchesType ==
    ASSUME NEW D \in SUBSET Duty
    PROVE  /\ Batches(D) \in Seq(SUBSET Duty)
           /\ \A i \in DOMAIN Batches(D) : Batches(D)[i] \subseteq D
  <1> DEFINE soon  == {d \in D : d.slot \in CurrentSlot..(CurrentSlot + 1)}
             later == {d \in D : d.slot > CurrentSlot + 1}
  <1>1. Batches(D) = Batch(soon) \o Batch(later)
    BY DEF Batches
  <1>2. ASSUME NEW S \in SUBSET Duty PROVE Batch(S) \in Seq(SUBSET Duty)
    <2>1. <<>> \in Seq(SUBSET Duty) /\ <<S>> \in Seq(SUBSET Duty)
      OBVIOUS
    <2> QED
      BY <2>1 DEF Batch
  <1>3. \A S \in SUBSET D : \A i \in DOMAIN Batch(S) : Batch(S)[i] \subseteq D
    BY DEF Batch
  <1> HIDE DEF soon, later
  <1>4. soon \in SUBSET D /\ later \in SUBSET D
    BY DEF soon, later
  <1> QED
    BY <1>1, <1>2, <1>3, <1>4

\* The duties in the table for a slot.
LEMMA TableType ==
    ASSUME TypeOK, NEW s \in Slots
    PROVE  DutiesInTable(s) \in SUBSET Duty
  BY EpochOfSlot DEF TypeOK, DutiesInTable

-----------------------------------------------------------------------------
(* Type correctness *)

\* An idle update_duties is one of its states.
LEMMA IdleUpdateType ==
    ASSUME NEW e \in 0..EpochOf(MaxSlot)
    PROVE  IdleUpdate(e) \in UpdateState
  <1>1. <<>> \in Seq(SUBSET Duty) /\ 0 \in Epochs
    BY EpochBounds
  <1> QED
    BY <1>1 DEF IdleUpdate, UpdateState

LEMMA InitType == Init => TypeOK
  <1> SUFFICES ASSUME Init PROVE TypeOK
    OBVIOUS
  <1>1. 0 \in Slots /\ 0 \in Epochs /\ 0 \in 0..EpochOf(MaxSlot)
    BY EpochBounds
  <1>2. attesterDuties \in [Epochs -> SUBSET Duty]
    <2>1. PICK r \in [{0, 1} -> Roots], idx \in [{0, 1} -> SUBSET Validators] :
             attesterDuties = [e \in Epochs |->
                 IF e \in {0, 1} THEN DutiesOf(r[e], e, idx[e]) ELSE {}]
      BY DEF Init
    <2>2. \A e \in {0, 1} : e \in Epochs => DutiesOf(r[e], e, idx[e]) \in SUBSET Duty
      BY DutiesOfType
    <2> QED
      BY <2>1, <2>2
  <1>3. update \in UpdateState
    BY <1>1, IdleUpdateType DEF Init
  <1>4. clock \in 0..(3 * MaxSlot + 2) /\ indices \in SUBSET Validators
    BY MaxSlotAssumption DEF Init
  <1>5. /\ deadlineJobs \in SUBSET Slots
        /\ aggregateJobs \in SUBSET [slot : Slots, duties : SUBSET Duty]
        /\ attests \in SUBSET Attest
        /\ promised \in SUBSET Duty
        /\ asked \in [Duty -> Nat]
    BY DEF Init
  <1>6. waiter \in [pc : {"idle", "waiting", "done"}, slot : Slots]
    BY <1>1 DEF Init
  <1>7. dependentRoots \in [Epochs -> Roots \cup {NoRoot}]
    BY DEF Init
  <1> QED
    BY <1>1, <1>2, <1>3, <1>4, <1>5, <1>6, <1>7 DEF Init, TypeOK

\* One lemma per part of the system, below one step per action.
LEMMA EnvironmentType == TypeOK /\ EnvironmentStep => TypeOK'
  <1> SUFFICES ASSUME TypeOK, EnvironmentStep PROVE TypeOK'
    OBVIOUS
  <1>1. CASE AdvanceClock
    <2>1. clock' \in 0..(3 * MaxSlot + 2)
      BY <1>1, MaxSlotAssumption DEF TypeOK, AdvanceClock
    <2>2. CurrentSlot' \in Slots
      BY <2>1, SlotOfTime DEF CurrentSlot
    <2>3. promised' \in SUBSET Duty
      BY <1>1, <2>2, TableType DEF AdvanceClock, TypeOK
    <2> QED
      BY <1>1, <2>1, <2>3
         DEF TypeOK, AdvanceClock, envVars, jobVars, tableVars, updateVars, attestVars, historyVars
  <1>2. ASSUME NEW idx \in SUBSET Validators, ChangeIndices(idx) PROVE TypeOK'
    BY <1>2
       DEF TypeOK, ChangeIndices, jobVars, tableVars, updateVars, attestVars, historyVars
  <1>3. CASE DetectSlashing
    BY <1>3
       DEF TypeOK, DetectSlashing, jobVars, tableVars, updateVars, attestVars, historyVars
  <1> QED
    BY <1>1, <1>2, <1>3 DEF EnvironmentStep

\* Starting to attest to a slot moves its duties from the table to a task.
LEMMA AttestStartType ==
    ASSUME TypeOK, NEW s \in Slots, AttestIfNotYetAttested(s)
    PROVE  /\ attesterDuties' \in [Epochs -> SUBSET Duty]
           /\ started' \in Slots \cup {-1}
           /\ completed' = completed
           /\ attests' \in SUBSET Attest
  <1>1. DutiesInTable(s) \in SUBSET Duty
    BY TableType
  <1> QED
    BY <1>1, EpochOfSlot DEF AttestIfNotYetAttested, TypeOK, Attest, attestVars

LEMMA TriggerType == TypeOK /\ TriggerStep => TypeOK'
  <1> SUFFICES ASSUME TypeOK, TriggerStep PROVE TypeOK'
    OBVIOUS
  <1>1. CASE OnNewSlot
    <2>1. CurrentSlot \in Slots
      BY CurrentTypes DEF TypeOK
    <2> QED
      BY <1>1, <2>1 DEF TypeOK, OnNewSlot, envVars, tableVars, attestVars, historyVars
  <1>2. ASSUME NEW s \in Slots, RunDeadlineJob(s) PROVE TypeOK'
    <2>1. AttestIfNotYetAttested(s)
      BY <1>2 DEF RunDeadlineJob
    <2> QED
      BY <1>2, <2>1, AttestStartType
         DEF TypeOK, RunDeadlineJob, envVars, updateVars, historyVars
  <1>3. ASSUME NEW s \in Slots, NEW p \in Roots, NEW c \in Roots, HandleHeadEvent(s, p, c)
        PROVE  TypeOK'
    <2>1. CASE s <= started
      BY <1>3, <2>1
         DEF TypeOK, HandleHeadEvent, envVars, attestVars, historyVars
    <2>2. CASE ~(s <= started)
      <3>1. AttestIfNotYetAttested(s)
        BY <1>3, <2>2 DEF HandleHeadEvent
      <3> QED
        BY <1>3, <2>2, <3>1, AttestStartType
           DEF TypeOK, HandleHeadEvent, envVars, historyVars
    <2> QED
      BY <2>1, <2>2
  <1>4. CASE HandleReorgEvent
    BY <1>4
       DEF TypeOK, HandleReorgEvent, envVars, jobVars, tableVars, attestVars, historyVars
  <1> QED
    BY <1>1, <1>2, <1>3, <1>4 DEF TriggerStep

LEMMA AttestType == TypeOK /\ AttestStep => TypeOK'
  <1> SUFFICES ASSUME TypeOK, AttestStep PROVE TypeOK'
    OBVIOUS
  <1>1. ASSUME NEW t \in attests, ProduceSucceeds(t) PROVE TypeOK'
    <2>1. asked' \in [Duty -> Nat]
      BY <1>1 DEF TypeOK, Attest, ProduceSucceeds
    <2>2. attests' \in SUBSET Attest
      BY <1>1 DEF TypeOK, Attest, ProduceSucceeds
    <2>3. aggregateJobs' \in SUBSET [slot : Slots, duties : SUBSET Duty]
      BY <1>1 DEF TypeOK, Attest, ProduceSucceeds
    <2> QED
      BY <1>1, <2>1, <2>2, <2>3 DEF TypeOK, ProduceSucceeds, envVars, tableVars, updateVars
  <1>2. ASSUME NEW t \in attests, ProduceFails(t) \/ SignAndPublish(t) PROVE TypeOK'
    BY <1>2
       DEF TypeOK, Attest, ProduceFails, SignAndPublish, Finish, envVars, jobVars, tableVars,
           updateVars, historyVars
  <1>3. ASSUME NEW j \in aggregateJobs, Aggregate(j) PROVE TypeOK'
    BY <1>3
       DEF TypeOK, Aggregate, envVars, tableVars, updateVars, attestVars, historyVars
  <1> QED
    BY <1>1, <1>2, <1>3 DEF AttestStep

\* The value of update after an update_duties call begins.
LEMMA BeginUpdateType ==
    ASSUME TypeOK, BeginUpdate
    PROVE  update' \in UpdateState
  <1>1. CurrentEpoch \in 0..EpochOf(MaxSlot) /\ CurrentEpoch \in Epochs /\ 0 \in Epochs
    BY CurrentTypes, EpochBounds DEF TypeOK
  <1> QED
    <2> DEFINE idle == IdleUpdate(CurrentEpoch)
    <2>1. idle \in UpdateState
      BY <1>1, IdleUpdateType
    <2>2. indices \in SUBSET Validators
      BY DEF TypeOK
    <2> HIDE DEF idle
    <2>3. [idle EXCEPT !.pc = "fetch", !.indices = indices, !.fetching = CurrentEpoch]
              \in UpdateState
      BY <1>1, <2>1, <2>2 DEF UpdateState
    <2> QED
      BY <2>1, <2>3 DEF BeginUpdate, idle

\* The tables and update after an epoch is dealt with.
LEMMA EpochDoneType ==
    ASSUME TypeOK,
           NEW D \in [Epochs -> SUBSET Duty], NEW R \in [Epochs -> Roots \cup {NoRoot}],
           EpochDone(D, R)
    PROVE  /\ update' \in UpdateState
           /\ attesterDuties' \in [Epochs -> SUBSET Duty]
           /\ dependentRoots' \in [Epochs -> Roots \cup {NoRoot}]
  <1>1. update.epoch + 1 \in Epochs /\ 0 \in Epochs /\ <<>> \in Seq(SUBSET Duty)
    BY EpochBounds DEF TypeOK, UpdateState
  <1>2. CASE update.fetching = update.epoch
    BY <1>1, <1>2 DEF EpochDone, TypeOK, UpdateState
  <1>3. CASE update.fetching # update.epoch
    <2>1. IdleUpdate(update.epoch) \in UpdateState
      BY IdleUpdateType DEF TypeOK, UpdateState
    <2>2. Pruned(D, {}) \in [Epochs -> SUBSET Duty] /\ Pruned(R, NoRoot) \in [Epochs -> Roots \cup {NoRoot}]
      BY DEF Pruned
    <2> QED
      BY <1>3, <2>1, <2>2 DEF EpochDone
  <1> QED
    BY <1>2, <1>3

\* Selection proofs are only waited for with duties to get them for.
BatchesLeft == update.pc = "proofs" => update.batches # <<>>

LEMMA UpdateType == TypeOK /\ BatchesLeft /\ UpdateStep => TypeOK'
  <1> SUFFICES ASSUME TypeOK, BatchesLeft, UpdateStep PROVE TypeOK'
    OBVIOUS
  <1>1. CASE StartUpdate
    <2>1. CASE update.pc # "idle"
      BY <1>1, <2>1
         DEF TypeOK, StartUpdate, envVars, jobVars, tableVars, attestVars, historyVars
    <2>2. CASE update.pc = "idle"
      BY <1>1, <2>2, BeginUpdateType
         DEF TypeOK, StartUpdate, envVars, jobVars, tableVars, attestVars, historyVars
    <2> QED
      BY <2>1, <2>2
  <1>2. ASSUME NEW r \in Roots, FetchSucceeds(r) PROVE TypeOK'
    <2> DEFINE e == update.fetching
               B == Batches(DutiesOf(r, e, update.indices))
    <2>1. e \in Epochs /\ update.indices \in SUBSET Validators
      BY DEF TypeOK, UpdateState
    <2>2. B \in Seq(SUBSET Duty)
      BY <2>1, DutiesOfType, BatchesType
    <2>3. Cleared(e) \in [Epochs -> SUBSET Duty]
      BY <2>1 DEF Cleared, TypeOK
    <2>4. [dependentRoots EXCEPT ![e] = r] \in [Epochs -> Roots \cup {NoRoot}]
      BY <2>1 DEF TypeOK
    <2>5. promised' \in SUBSET Duty
      BY <1>2 DEF FetchSucceeds, TypeOK
    <2>6. CASE EpochDone(attesterDuties, dependentRoots)
      BY <1>2, <2>5, <2>6, EpochDoneType
         DEF FetchSucceeds, TypeOK, envVars, jobVars, attestVars
    <2>7. CASE EpochDone(Cleared(e), [dependentRoots EXCEPT ![e] = r])
      BY <1>2, <2>3, <2>4, <2>5, <2>7, EpochDoneType
         DEF FetchSucceeds, TypeOK, envVars, jobVars, attestVars
    <2>8. CASE /\ attesterDuties' = Cleared(e)
               /\ update' = [update EXCEPT !.pc = "proofs", !.root = r, !.batches = B]
               /\ UNCHANGED dependentRoots
      BY <1>2, <2>2, <2>3, <2>5, <2>8
         DEF FetchSucceeds, TypeOK, UpdateState, envVars, jobVars, attestVars
    <2> QED
      BY <1>2, <2>6, <2>7, <2>8 DEF FetchSucceeds
  <1>3. CASE ProofsSucceed
    <2> DEFINE e == update.fetching
               T == [attesterDuties EXCEPT ![e] = @ \cup Head(update.batches)]
    <2>1. e \in Epochs /\ update.root \in Roots \cup {NoRoot}
      BY DEF TypeOK, UpdateState
    <2>2. Head(update.batches) \in SUBSET Duty /\ Tail(update.batches) \in Seq(SUBSET Duty)
      BY <1>3 DEF ProofsSucceed, BatchesLeft, TypeOK, UpdateState
    <2>3. T \in [Epochs -> SUBSET Duty]
      BY <2>1, <2>2 DEF TypeOK
    <2>4. [dependentRoots EXCEPT ![e] = update.root] \in [Epochs -> Roots \cup {NoRoot}]
      BY <2>1 DEF TypeOK
    <2>5. CASE EpochDone(T, [dependentRoots EXCEPT ![e] = update.root])
      BY <1>3, <2>3, <2>4, <2>5, EpochDoneType
         DEF ProofsSucceed, TypeOK, envVars, jobVars, attestVars, historyVars
    <2>6. CASE /\ attesterDuties' = T
               /\ update' = [update EXCEPT !.batches = Tail(@)]
               /\ UNCHANGED dependentRoots
      BY <1>3, <2>2, <2>3, <2>6
         DEF ProofsSucceed, TypeOK, UpdateState, envVars, jobVars, attestVars, historyVars
    <2> QED
      BY <1>3, <2>5, <2>6 DEF ProofsSucceed
  <1>4. CASE UpdateFails
    <2> DEFINE idle == IdleUpdate(update.epoch)
    <2>1. idle \in UpdateState
      BY IdleUpdateType DEF TypeOK, UpdateState
    <2> HIDE DEF idle
    <2>2. [idle EXCEPT !.pc = "backoff"] \in UpdateState
      BY <2>1 DEF UpdateState
    <2>3. update' \in UpdateState
      BY <1>4, <2>2 DEF UpdateFails, idle
    <2> QED
      BY <1>4, <2>3 DEF TypeOK, UpdateFails, envVars, jobVars, tableVars, attestVars,
           historyVars
  <1>5. CASE RetryUpdate
    <2>1. CASE CurrentEpoch = update.epoch
      BY <1>5, <2>1, BeginUpdateType
         DEF TypeOK, RetryUpdate, envVars, jobVars, tableVars, attestVars, historyVars
    <2>2. CASE CurrentEpoch # update.epoch
      <3>1. IdleUpdate(update.epoch) \in UpdateState
        BY IdleUpdateType DEF TypeOK, UpdateState
      <3> QED
        BY <1>5, <2>2, <3>1 DEF TypeOK, RetryUpdate, envVars, jobVars, tableVars, attestVars,
             historyVars
    <2> QED
      BY <2>1, <2>2
  <1> QED
    BY <1>1, <1>2, <1>3, <1>4, <1>5 DEF UpdateStep

LEMMA WaitType == TypeOK /\ WaitStep => TypeOK'
  <1> SUFFICES ASSUME TypeOK, WaitStep PROVE TypeOK'
    OBVIOUS
  <1>1. CurrentSlot \in Slots
    BY CurrentTypes DEF TypeOK
  <1> QED
    BY <1>1
       DEF TypeOK, WaitStep, StartWait, EndWait, envVars, jobVars, tableVars, updateVars,
           attestVars, historyVars

-----------------------------------------------------------------------------
(* The table of duties comes from one dependent root per epoch *)

\* While selection proofs are waited for, the table of that epoch only has duties
\* of the dependent root they were fetched for.
FetchedFromOneRoot ==
    update.pc = "proofs" =>
        /\ \A d \in attesterDuties[update.fetching] : d.root = update.root
        /\ \A i \in DOMAIN update.batches : \A d \in update.batches[i] : d.root = update.root

TableInv == BatchesLeft /\ FetchedFromOneRoot /\ DutiesFromOneRoot

LEMMA InitTable == Init => TableInv
  <1> SUFFICES ASSUME Init PROVE TableInv
    OBVIOUS
  <1>1. update.pc = "idle"
    BY DEF Init, IdleUpdate
  <1>2. DutiesFromOneRoot
    BY DEF Init, DutiesFromOneRoot, DutiesOf
  <1> QED
    BY <1>1, <1>2 DEF TableInv, BatchesLeft, FetchedFromOneRoot

\* Taking duties away keeps the invariant.
LEMMA ShrinkTable ==
    ASSUME TypeOK, TableInv, UNCHANGED update,
           \A e \in Epochs : attesterDuties'[e] \subseteq attesterDuties[e]
    PROVE  TableInv'
  <1>1. update.fetching \in Epochs
    BY DEF TypeOK, UpdateState
  <1> QED
    BY <1>1 DEF TableInv, BatchesLeft, FetchedFromOneRoot, DutiesFromOneRoot

\* A call that is not waiting for selection proofs has nothing to keep but the table.
LEMMA QuietTable ==
    ASSUME \A e \in Epochs : \A d1, d2 \in attesterDuties'[e] : d1.root = d2.root,
           update'.pc # "proofs"
    PROVE  TableInv'
  BY DEF TableInv, BatchesLeft, FetchedFromOneRoot, DutiesFromOneRoot

\* So does an epoch that is dealt with, if the table it leaves has one root.
LEMMA EpochDoneTable ==
    ASSUME TypeOK, NEW D \in [Epochs -> SUBSET Duty], NEW R, EpochDone(D, R),
           \A e \in Epochs : \A d1, d2 \in D[e] : d1.root = d2.root
    PROVE  TableInv'
  <1>1. CASE update.fetching = update.epoch
    <2>1. update'.pc = "fetch" /\ attesterDuties' = D
      BY <1>1 DEF EpochDone, TypeOK, UpdateState
    <2> QED
      BY <2>1, QuietTable
  <1>2. CASE update.fetching # update.epoch
    <2>1. update'.pc = "idle" /\ attesterDuties' = Pruned(D, {})
      BY <1>2 DEF EpochDone, IdleUpdate
    <2>2. \A e \in Epochs : Pruned(D, {})[e] \subseteq D[e]
      BY DEF Pruned
    <2> QED
      BY <2>1, <2>2, QuietTable
  <1> QED
    BY <1>1, <1>2

LEMMA FetchTable ==
    ASSUME TypeOK, TableInv, NEW r \in Roots, FetchSucceeds(r)
    PROVE  TableInv'
  <1> DEFINE e == update.fetching
             F == DutiesOf(r, e, update.indices)
             B == Batches(F)
  <1>1. e \in Epochs /\ update.indices \in SUBSET Validators
    BY DEF TypeOK, UpdateState
  <1>2. F \in SUBSET Duty /\ \A d \in F : d.root = r
    BY <1>1, DutiesOfType DEF DutiesOf
  <1>3. B \in Seq(SUBSET Duty) /\ \A i \in DOMAIN B : B[i] \subseteq F
    BY <1>2, BatchesType
  <1>4. Cleared(e) \in [Epochs -> SUBSET Duty] /\ Cleared(e)[e] = {}
    BY <1>1 DEF Cleared, TypeOK
  <1>5. \A f \in Epochs : \A d1, d2 \in attesterDuties[f] : d1.root = d2.root
    BY DEF TableInv, DutiesFromOneRoot
  <1>6. \A f \in Epochs : \A d1, d2 \in Cleared(e)[f] : d1.root = d2.root
    BY <1>1, <1>4, <1>5 DEF Cleared, TypeOK
  <1>7. CASE EpochDone(attesterDuties, dependentRoots)
    BY <1>5, <1>7, EpochDoneTable DEF TypeOK
  <1>8. CASE EpochDone(Cleared(e), [dependentRoots EXCEPT ![e] = r])
    BY <1>4, <1>6, <1>8, EpochDoneTable
  <1>9. CASE /\ attesterDuties' = Cleared(e)
             /\ update' = [update EXCEPT !.pc = "proofs", !.root = r, !.batches = B]
             /\ B # <<>>
    <2> HIDE DEF B, F
    <2>1. update'.fetching = e /\ update'.root = r /\ update'.batches = B
      BY <1>9 DEF TypeOK, UpdateState
    <2> QED
      BY <1>1, <1>2, <1>3, <1>4, <1>6, <1>9, <2>1
         DEF TableInv, BatchesLeft, FetchedFromOneRoot, DutiesFromOneRoot
  <1> QED
    BY <1>7, <1>8, <1>9 DEF FetchSucceeds

LEMMA ProofsTable ==
    ASSUME TypeOK, TableInv, ProofsSucceed
    PROVE  TableInv'
  <1> DEFINE e == update.fetching
             b == update.batches
             T == [attesterDuties EXCEPT ![e] = @ \cup Head(b)]
  <1>1. e \in Epochs /\ b \in Seq(SUBSET Duty) /\ update.pc = "proofs" /\ b # <<>>
    BY DEF TypeOK, UpdateState, ProofsSucceed, TableInv, BatchesLeft
  <1>2. /\ Head(b) = b[1] /\ 1 \in DOMAIN b /\ Head(b) \in SUBSET Duty
        /\ Tail(b) \in Seq(SUBSET Duty)
        /\ \A i \in DOMAIN Tail(b) : i + 1 \in DOMAIN b /\ Tail(b)[i] = b[i + 1]
    BY <1>1
  <1>3. \A i \in DOMAIN b : \A d \in b[i] : d.root = update.root
    BY <1>1 DEF TableInv, FetchedFromOneRoot
  <1>4. \A d \in attesterDuties[e] : d.root = update.root
    BY <1>1 DEF TableInv, FetchedFromOneRoot
  <1>5. T \in [Epochs -> SUBSET Duty] /\ \A d \in T[e] : d.root = update.root
    BY <1>1, <1>2, <1>3, <1>4 DEF TypeOK
  <1>6. \A f \in Epochs : \A d1, d2 \in T[f] : d1.root = d2.root
    BY <1>1, <1>5 DEF TypeOK, TableInv, DutiesFromOneRoot
  <1>7. CASE EpochDone(T, [dependentRoots EXCEPT ![e] = update.root])
    BY <1>5, <1>6, <1>7, EpochDoneTable
  <1>8. CASE /\ attesterDuties' = T
             /\ update' = [update EXCEPT !.batches = Tail(@)]
             /\ Len(b) # 1
    <2>1. /\ update'.fetching = e /\ update'.root = update.root
          /\ update'.batches = Tail(b)
      BY <1>8 DEF TypeOK, UpdateState
    <2>2. Tail(b) # <<>>
      <3>1. Len(b) \in Nat /\ Len(b) # 0 /\ Len(b) # 1
        BY <1>1, <1>8
      <3>2. Len(Tail(b)) = Len(b) - 1 /\ Len(<<>>) = 0
        BY <1>1
      <3>3. ASSUME Tail(b) = <<>> PROVE Len(Tail(b)) = Len(<<>>)
        BY <3>3, Zenon
      <3>4. Len(Tail(b)) # Len(<<>>)
        BY <3>1, <3>2
      <3> QED
        BY <3>3, <3>4
    <2>3. \A i \in DOMAIN Tail(b) : \A d \in Tail(b)[i] : d.root = update.root
      BY <1>2, <1>3
    <2> HIDE DEF T
    <2> QED
      BY <1>5, <1>6, <1>8, <2>1, <2>2, <2>3
         DEF TableInv, BatchesLeft, FetchedFromOneRoot, DutiesFromOneRoot
  <1> QED
    BY <1>7, <1>8 DEF ProofsSucceed

LEMMA TableStep == TypeOK /\ TableInv /\ [Next]_vars => TableInv'
  <1> SUFFICES ASSUME TypeOK, TableInv, [Next]_vars PROVE TableInv'
    OBVIOUS
  <1>1. ASSUME UNCHANGED <<attesterDuties, update>> PROVE TableInv'
    BY <1>1, ShrinkTable
  <1>2. CASE EnvironmentStep
    BY <1>1, <1>2
       DEF EnvironmentStep, AdvanceClock, ChangeIndices, DetectSlashing, tableVars, updateVars
  <1>3. CASE TriggerStep
    <2>1. ASSUME NEW s \in Slots, AttestIfNotYetAttested(s), UNCHANGED update PROVE TableInv'
      <3>1. \A e \in Epochs : attesterDuties'[e] \subseteq attesterDuties[e]
        BY <2>1, EpochOfSlot DEF AttestIfNotYetAttested, TypeOK
      <3> QED
        BY <2>1, <3>1, ShrinkTable
    <2>2. CASE OnNewSlot \/ HandleReorgEvent
      BY <1>1, <2>2 DEF OnNewSlot, HandleReorgEvent, tableVars
    <2>3. ASSUME NEW s \in Slots, RunDeadlineJob(s) PROVE TableInv'
      BY <2>1, <2>3 DEF RunDeadlineJob, updateVars
    <2>4. ASSUME NEW s \in Slots, NEW q \in Roots, NEW c \in Roots, HandleHeadEvent(s, q, c)
          PROVE  TableInv'
      BY <1>1, <2>1, <2>4 DEF HandleHeadEvent
    <2> QED
      BY <1>3, <2>2, <2>3, <2>4 DEF TriggerStep
  <1>4. CASE AttestStep
    BY <1>1, <1>4
       DEF AttestStep, ProduceSucceeds, ProduceFails, SignAndPublish, Aggregate, tableVars,
           updateVars
  <1>5. CASE UpdateStep
    <2>1. ASSUME UNCHANGED attesterDuties, update'.pc # "proofs" PROVE TableInv'
      BY <2>1, QuietTable DEF TableInv, DutiesFromOneRoot
    <2>2. ASSUME BeginUpdate PROVE update'.pc # "proofs"
      <3>1. CASE indices = {}
        BY <2>2, <3>1 DEF BeginUpdate, IdleUpdate
      <3>2. CASE indices # {}
        <4>1. update' = [IdleUpdate(CurrentEpoch) EXCEPT
                  !.pc = "fetch", !.indices = indices, !.fetching = CurrentEpoch]
          BY <2>2, <3>2 DEF BeginUpdate
        <4>2. update'.pc = "fetch"
          BY <4>1 DEF IdleUpdate
        <4> QED
          BY <4>2
      <3> QED
        BY <3>1, <3>2
    <2>3. CASE StartUpdate
      BY <1>1, <2>1, <2>2, <2>3 DEF StartUpdate, tableVars
    <2>4. CASE UpdateFails
      BY <2>1, <2>4 DEF UpdateFails, IdleUpdate, tableVars
    <2>5. CASE RetryUpdate
      BY <2>1, <2>2, <2>5 DEF RetryUpdate, IdleUpdate, tableVars
    <2> QED
      BY <1>5, <2>3, <2>4, <2>5, FetchTable, ProofsTable DEF UpdateStep
  <1>6. CASE WaitStep
    BY <1>1, <1>6 DEF WaitStep, StartWait, EndWait, tableVars, updateVars
  <1>7. CASE UNCHANGED vars
    BY <1>1, <1>7 DEF vars, tableVars, updateVars
  <1> QED
    BY <1>2, <1>3, <1>4, <1>5, <1>6, <1>7 DEF Next

\* Type correctness with what it needs of the update.
TypeInv == TypeOK /\ TableInv

LEMMA TypeStep == TypeInv /\ [Next]_vars => TypeInv'
  <1> SUFFICES ASSUME TypeInv, [Next]_vars PROVE TypeOK'
    BY TableStep DEF TypeInv
  <1>1. TypeOK /\ BatchesLeft
    BY DEF TypeInv, TableInv
  <1>2. CASE UNCHANGED vars
    BY <1>1, <1>2
       DEF vars, envVars, jobVars, tableVars, updateVars, attestVars, historyVars, TypeOK
  <1> QED
    BY <1>1, <1>2, EnvironmentType, TriggerType, AttestType, UpdateType, WaitType DEF Next

THEOREM TypeInvHolds == Spec => []TypeInv
  <1>1. Init => TypeInv
    BY InitType, InitTable DEF TypeInv
  <1> QED
    BY <1>1, TypeStep, PTL DEF Spec

\* AttestationService keeps to its types for every schedule, however many validators.
THEOREM TypeCorrect == Spec => []TypeOK
  BY TypeInvHolds, PTL DEF TypeInv

\* A validator is never due at the slots of two shufflings of one epoch.
THEOREM OneRootPerEpoch == Spec => []DutiesFromOneRoot
  BY TypeInvHolds, PTL DEF TypeInv, TableInv

-----------------------------------------------------------------------------
(* Attestation signatures are requested once *)

\* Attesting tasks are for slots attesting was started for, for duties of that slot
\* which all come from one dependent root, and there is one per slot.
AttestsAreStarted ==
    \A t \in attests :
        /\ t.slot <= started
        /\ \A d1, d2 \in t.duties : d1.slot = t.slot /\ d1.root = d2.root

OneAttestPerSlot == \A t1, t2 \in attests : t1.slot = t2.slot => t1 = t2

\* Signatures are only requested for slots attesting was started for ...
AskedWasStarted == \A d \in Duty : asked[d] > 0 => d.slot <= started

\* ... and not before AttestationData was produced.
ProducedFirst ==
    \A t \in attests : t.pc = "produce" =>
        \A d \in Duty : d.slot = t.slot => asked[d] = 0

AttestInv ==
    /\ AttestsAreStarted
    /\ OneAttestPerSlot
    /\ AskedWasStarted
    /\ ProducedFirst
    /\ AskedOnce

LEMMA InitAttest == Init => AttestInv
  BY DEF Init, AttestInv, AttestsAreStarted, OneAttestPerSlot, AskedWasStarted, ProducedFirst,
         AskedOnce

LEMMA FrameAttest ==
    ASSUME AttestInv, UNCHANGED <<attests, started, asked>>
    PROVE  AttestInv'
  BY DEF AttestInv, AttestsAreStarted, OneAttestPerSlot, AskedWasStarted, ProducedFirst, AskedOnce

\* Starting to attest: the slot is later than all those before, so no task and no
\* signature request is for it.
LEMMA StartAttest ==
    ASSUME TypeInv, AttestInv, NEW s \in Slots, AttestIfNotYetAttested(s), UNCHANGED asked
    PROVE  AttestInv'
  <1>1. CASE ~MayAttest(s) \/ DutiesInTable(s) = {}
    BY <1>1, FrameAttest DEF AttestIfNotYetAttested, attestVars
  <1>2. CASE MayAttest(s) /\ DutiesInTable(s) # {}
    <2> DEFINE new == [slot |-> s, pc |-> "produce", duties |-> DutiesInTable(s)]
    <2>1. started' = s /\ attests' = attests \cup {new} /\ asked' = asked
      BY <1>2 DEF AttestIfNotYetAttested
    <2>2. s > started /\ s \in Int /\ started \in Int
      BY <1>2 DEF MayAttest, TypeInv, TypeOK, Slots
    <2>3. \A d1, d2 \in DutiesInTable(s) : d1.slot = s /\ d1.root = d2.root
      BY EpochOfSlot DEF DutiesInTable, TypeInv, TableInv, DutiesFromOneRoot
    <2>4. \A t \in attests : t.slot \in Int /\ t.slot <= started
      BY DEF AttestInv, AttestsAreStarted, TypeInv, TypeOK, Attest, Slots
    <2>5. \A d \in Duty : d.slot \in Int /\ asked[d] \in Nat
      <3>1. \A n \in DutySlots : n \in Int
        BY DEF DutySlots
      <3>2. \A d \in Duty : d.slot \in DutySlots
        BY DEF Duty
      <3>3. \A d \in Duty : asked[d] \in Nat
        BY DEF TypeInv, TypeOK
      <3> QED
        BY <3>1, <3>2, <3>3
    <2>6. AttestsAreStarted'
      BY <2>1, <2>2, <2>3, <2>4 DEF AttestInv, AttestsAreStarted
    <2>7. OneAttestPerSlot'
      BY <2>1, <2>2, <2>4 DEF AttestInv, OneAttestPerSlot
    <2>8. AskedWasStarted'
      BY <2>1, <2>2, <2>5 DEF AttestInv, AskedWasStarted
    <2>9. ProducedFirst'
      <3>1. \A d \in Duty : d.slot = s => asked[d] = 0
        BY <2>2, <2>5 DEF AttestInv, AskedWasStarted
      <3> QED
        BY <2>1, <3>1 DEF AttestInv, ProducedFirst
    <2>10. AskedOnce'
      BY <2>1 DEF AttestInv, AskedOnce
    <2> QED
      BY <2>6, <2>7, <2>8, <2>9, <2>10 DEF AttestInv
  <1> QED
    BY <1>1, <1>2

\* Requesting the signatures of a task: none was requested for its slot before, and
\* its duties have one dependent root.
LEMMA ProduceAttest ==
    ASSUME TypeInv, AttestInv, NEW t \in attests, ProduceSucceeds(t)
    PROVE  AttestInv'
  <1> DEFINE new == [t EXCEPT !.pc = "sign"]
  <1>1. /\ attests' = (attests \ {t}) \cup {new}
        /\ asked' = [d \in Duty |-> IF d \in t.duties THEN asked[d] + 1 ELSE asked[d]]
        /\ started' = started /\ t.pc = "produce"
    BY DEF ProduceSucceeds
  <1>2. t \in Attest /\ attests \subseteq Attest
    BY DEF TypeInv, TypeOK
  <1>3. new.slot = t.slot /\ new.duties = t.duties /\ new.pc = "sign"
    BY <1>2 DEF Attest
  <1>4. \A d \in Duty : d.slot = t.slot => asked[d] = 0
    BY <1>1 DEF AttestInv, ProducedFirst
  <1>5. \A d1, d2 \in t.duties : d1.slot = t.slot /\ d1.root = d2.root /\ d1 \in Duty
    BY <1>2 DEF AttestInv, AttestsAreStarted, Attest
  <1>6. \A d \in Duty : asked[d] \in Nat
    BY DEF TypeInv, TypeOK
  <1> HIDE DEF new
  <1>7. AttestsAreStarted'
    BY <1>1, <1>3 DEF AttestInv, AttestsAreStarted
  <1>8. OneAttestPerSlot'
    BY <1>1, <1>3 DEF AttestInv, OneAttestPerSlot
  <1>9. AskedWasStarted'
    <2> SUFFICES ASSUME NEW d \in Duty, asked'[d] > 0 PROVE d.slot <= started
      BY <1>1 DEF AskedWasStarted
    <2>1. CASE d \in t.duties
      BY <1>5, <2>1 DEF AttestInv, AttestsAreStarted
    <2>2. CASE d \notin t.duties
      BY <1>1, <2>2 DEF AttestInv, AskedWasStarted
    <2> QED
      BY <2>1, <2>2
  <1>10. ProducedFirst'
    <2> SUFFICES ASSUME NEW u \in attests', u.pc = "produce", NEW d \in Duty, d.slot = u.slot
                 PROVE  asked'[d] = 0
      BY DEF ProducedFirst
    <2>1. u \in attests /\ u # t
      BY <1>1, <1>3
    <2>2. u.slot # t.slot
      BY <2>1 DEF AttestInv, OneAttestPerSlot
    <2>3. asked[d] = 0 /\ d \notin t.duties
      BY <1>5, <2>1, <2>2 DEF AttestInv, ProducedFirst
    <2> QED
      BY <1>1, <2>3
  <1>11. AskedOnce'
    <2> SUFFICES ASSUME NEW d1 \in Duty, NEW d2 \in Duty,
                        d1.validator = d2.validator, d1.slot = d2.slot
                 PROVE  IF d1 = d2 THEN asked'[d1] <= 1 ELSE asked'[d1] = 0 \/ asked'[d2] = 0
      BY DEF AskedOnce
    <2>1. CASE d1.slot = t.slot
      <3>1. asked[d1] = 0 /\ asked[d2] = 0
        BY <1>4, <2>1
      <3>2. d1 \in t.duties /\ d2 \in t.duties => d1 = d2
        BY <1>5 DEF Duty
      <3> QED
        BY <1>1, <3>1, <3>2
    <2>2. CASE d1.slot # t.slot
      <3>1. asked'[d1] = asked[d1] /\ asked'[d2] = asked[d2]
        BY <1>1, <1>5, <2>2
      <3> QED
        BY <3>1 DEF AttestInv, AskedOnce
    <2> QED
      BY <2>1, <2>2
  <1> QED
    BY <1>7, <1>8, <1>9, <1>10, <1>11 DEF AttestInv

LEMMA AttestInvStep == TypeInv /\ AttestInv /\ [Next]_vars => AttestInv'
  <1> SUFFICES ASSUME TypeInv, AttestInv, [Next]_vars PROVE AttestInv'
    OBVIOUS
  <1>1. CASE EnvironmentStep
    BY <1>1, FrameAttest
       DEF EnvironmentStep, AdvanceClock, ChangeIndices, DetectSlashing, attestVars, historyVars
  <1>2. CASE TriggerStep
    <2>1. CASE OnNewSlot \/ HandleReorgEvent
      BY <2>1, FrameAttest DEF OnNewSlot, HandleReorgEvent, attestVars, historyVars
    <2>2. ASSUME NEW s \in Slots, RunDeadlineJob(s) PROVE AttestInv'
      BY <2>2, StartAttest DEF RunDeadlineJob, historyVars
    <2>3. ASSUME NEW s \in Slots, NEW p \in Roots, NEW c \in Roots, HandleHeadEvent(s, p, c)
          PROVE  AttestInv'
      BY <2>3, StartAttest, FrameAttest DEF HandleHeadEvent, attestVars, historyVars
    <2> QED
      BY <1>2, <2>1, <2>2, <2>3 DEF TriggerStep
  <1>3. CASE AttestStep
    <2>1. ASSUME NEW t \in attests, ProduceFails(t) \/ SignAndPublish(t) PROVE AttestInv'
      <3>1. attests' = attests \ {t} /\ UNCHANGED <<started, asked>>
        BY <2>1 DEF ProduceFails, SignAndPublish, Finish, historyVars
      <3> QED
        BY <3>1 DEF AttestInv, AttestsAreStarted, OneAttestPerSlot, AskedWasStarted,
                    ProducedFirst, AskedOnce
    <2>2. ASSUME NEW j \in aggregateJobs, Aggregate(j) PROVE AttestInv'
      BY <2>2, FrameAttest DEF Aggregate, attestVars, historyVars
    <2> QED
      BY <1>3, <2>1, <2>2, ProduceAttest DEF AttestStep
  <1>4. CASE UpdateStep
    BY <1>4, FrameAttest
       DEF UpdateStep, StartUpdate, FetchSucceeds, ProofsSucceed, UpdateFails, RetryUpdate,
           attestVars, historyVars
  <1>5. CASE WaitStep
    BY <1>5, FrameAttest DEF WaitStep, StartWait, EndWait, attestVars, historyVars
  <1>6. CASE UNCHANGED vars
    BY <1>6, FrameAttest DEF vars, attestVars, historyVars
  <1> QED
    BY <1>1, <1>2, <1>3, <1>4, <1>5, <1>6 DEF Next

\* An attestation signature is requested at most once per validator and slot, for
\* every interleaving of head events, late jobs, duty updates and reorgs.
THEOREM SignaturesAskedOnce == Spec => []AskedOnce
  <1>1. Init => TypeInv /\ AttestInv
    BY InitType, InitTable, InitAttest DEF TypeInv
  <1>2. TypeInv /\ AttestInv /\ [Next]_vars => (TypeInv /\ AttestInv)'
    BY TypeStep, AttestInvStep
  <1>3. AttestInv => AskedOnce
    BY DEF AttestInv
  <1> QED
    BY <1>1, <1>2, <1>3, PTL DEF Spec

-----------------------------------------------------------------------------
(* Duties stay due, and attesting starts in time *)

\* The past: attesting was not started, and no tick was handled, ahead of time.
PastInv == started <= CurrentSlot /\ ticked <= CurrentSlot

\* A promised duty whose attesting did not start is in the table, and the tick or the
\* deadline job of its slot is still to come.
PromiseInv ==
    promised # {} /\ ~StopOnSlashing =>
        \/ started = CurrentSlot
        \/ /\ promised \subseteq DutiesInTable(CurrentSlot)
           /\ started < CurrentSlot
           /\ TickDue \/ CurrentSlot \in deadlineJobs

LEMMA InitPromise == Init => PastInv /\ PromiseInv
  BY DEF Init, PastInv, PromiseInv, CurrentSlot

\* The steps that leave time, the table, jobs and attesting alone.
LEMMA FramePromise ==
    ASSUME PastInv, PromiseInv,
           UNCHANGED <<clock, slashingDetected, ticked, deadlineJobs, attesterDuties, started>>,
           promised' \in {promised, {}}
    PROVE  PastInv' /\ PromiseInv'
  BY DEF PastInv, PromiseInv, CurrentSlot, StopOnSlashing, DutiesInTable, TickDue

LEMMA ClockPromise ==
    ASSUME TypeOK, PastInv, PromiseInv, AdvanceClock
    PROVE  PastInv' /\ PromiseInv'
  <1>1. /\ CurrentSlot \in Int /\ CurrentSlot' \in Int /\ CurrentSlot <= CurrentSlot'
        /\ started \in Int /\ ticked \in Int
    <2>1. clock \in Nat /\ clock' = clock + 1 /\ started \in Int /\ ticked \in Int
      BY MaxSlotAssumption DEF TypeOK, AdvanceClock, Slots
    <2> QED
      BY <2>1, DivMonotone DEF CurrentSlot
  <1>2. UNCHANGED <<slashingDetected, ticked, deadlineJobs, attesterDuties, started>>
    BY DEF AdvanceClock, jobVars, tableVars, attestVars
  <1>3. PastInv'
    BY <1>1, <1>2 DEF PastInv
  <1>4. CASE CurrentSlot' = CurrentSlot
    BY <1>2, <1>3, <1>4
       DEF AdvanceClock, PromiseInv, StopOnSlashing, DutiesInTable, TickDue
  <1>5. CASE CurrentSlot' # CurrentSlot
    <2>1. promised' = DutiesInTable(CurrentSlot)'
      BY <1>2, <1>5 DEF AdvanceClock, DutiesInTable
    <2>2. started < CurrentSlot' /\ ticked < CurrentSlot'
      BY <1>1, <1>5 DEF PastInv
    <2> QED
      BY <1>2, <1>3, <2>1, <2>2 DEF PromiseInv, TickDue
  <1> QED
    BY <1>4, <1>5

\* The job of a slot is lost only when attesting starts or nothing was promised.
LEMMA TriggerPromise ==
    ASSUME TypeOK, PastInv, PromiseInv, NEW s \in Slots, AttestIfNotYetAttested(s),
           s > started,
           UNCHANGED <<clock, slashingDetected, ticked, promised>>,
           deadlineJobs' = deadlineJobs \ {s}
    PROVE  PastInv' /\ PromiseInv'
  <1>1. UNCHANGED <<CurrentSlot, StopOnSlashing, TickDue>>
    BY DEF CurrentSlot, StopOnSlashing, TickDue
  <1>2. CASE MayAttest(s) /\ DutiesInTable(s) # {}
    BY <1>1, <1>2 DEF AttestIfNotYetAttested, MayAttest, PastInv, PromiseInv, CurrentSlot
  <1>3. CASE ~(MayAttest(s) /\ DutiesInTable(s) # {})
    <2>1. UNCHANGED <<attesterDuties, started>>
      BY <1>3 DEF AttestIfNotYetAttested, attestVars
    <2>2. ASSUME promised # {}, ~StopOnSlashing, started # CurrentSlot PROVE s # CurrentSlot
      BY <1>3, <2>2 DEF PromiseInv, MayAttest
    <2>3. DutiesInTable(CurrentSlot)' = DutiesInTable(CurrentSlot)
      BY <1>1, <2>1 DEF DutiesInTable
    <2> QED
      BY <1>1, <2>1, <2>2, <2>3 DEF PastInv, PromiseInv
  <1> QED
    BY <1>2, <1>3

\* Duty updates add duties of the current slot, or break the promise.
LEMMA UpdatePromise ==
    ASSUME TypeOK, PastInv, PromiseInv,
           UNCHANGED <<clock, slashingDetected, ticked, deadlineJobs, started>>,
           \/ promised' = promised /\ attesterDuties[CurrentEpoch] \subseteq attesterDuties'[CurrentEpoch]
           \/ promised' = {}
    PROVE  PastInv' /\ PromiseInv'
  <1>1. UNCHANGED <<CurrentSlot, StopOnSlashing, TickDue>>
    BY DEF CurrentSlot, StopOnSlashing, TickDue
  <1>2. promised' = promised =>
            DutiesInTable(CurrentSlot) \subseteq DutiesInTable(CurrentSlot)' \/ promised' = {}
    BY <1>1 DEF DutiesInTable, CurrentEpoch
  <1> QED
    BY <1>1, <1>2 DEF PastInv, PromiseInv

LEMMA EpochDoneKeeps ==
    ASSUME TypeOK, NEW D \in [Epochs -> SUBSET Duty], NEW R, EpochDone(D, R)
    PROVE  attesterDuties'[CurrentEpoch] = D[CurrentEpoch]
  <1>1. CurrentEpoch \in Epochs /\ ~(CurrentEpoch < CurrentEpoch)
    BY CurrentTypes DEF TypeOK, Epochs
  <1> QED
    BY <1>1 DEF EpochDone, Pruned

LEMMA FetchPromise ==
    ASSUME TypeOK, PastInv, PromiseInv, NEW r \in Roots, FetchSucceeds(r)
    PROVE  PastInv' /\ PromiseInv'
  <1> DEFINE e == update.fetching
  <1>1. UNCHANGED <<clock, slashingDetected, ticked, deadlineJobs, started>>
    BY DEF FetchSucceeds, envVars, jobVars, attestVars
  <1>2. e \in Epochs /\ CurrentEpoch \in Epochs
    BY CurrentTypes DEF TypeOK, UpdateState
  <1>3. Cleared(e) \in [Epochs -> SUBSET Duty]
    BY <1>2 DEF Cleared, TypeOK
  <1>4. CASE EpochDone(attesterDuties, dependentRoots) /\ UNCHANGED promised
    BY <1>1, <1>4, EpochDoneKeeps, UpdatePromise DEF TypeOK
  <1>5. CASE e = CurrentEpoch /\ promised' = {}
    BY <1>1, <1>5, UpdatePromise
  <1>6. CASE /\ e # CurrentEpoch /\ promised' = promised
             /\ \/ EpochDone(Cleared(e), [dependentRoots EXCEPT ![e] = r])
                \/ attesterDuties' = Cleared(e)
    <2>1. Cleared(e)[CurrentEpoch] = attesterDuties[CurrentEpoch]
      BY <1>2, <1>6 DEF Cleared, TypeOK
    <2> QED
      BY <1>1, <1>3, <1>6, <2>1, EpochDoneKeeps, UpdatePromise
  <1> QED
    BY <1>4, <1>5, <1>6 DEF FetchSucceeds

LEMMA ProofsPromise ==
    ASSUME TypeInv, PastInv, PromiseInv, ProofsSucceed
    PROVE  PastInv' /\ PromiseInv'
  <1> DEFINE e == update.fetching
             T == [attesterDuties EXCEPT ![e] = @ \cup Head(update.batches)]
  <1>1. UNCHANGED <<clock, slashingDetected, ticked, deadlineJobs, started, promised>>
    BY DEF ProofsSucceed, envVars, jobVars, attestVars, historyVars
  <1>2. e \in Epochs /\ CurrentEpoch \in Epochs /\ Head(update.batches) \in SUBSET Duty
    BY CurrentTypes DEF TypeInv, TypeOK, UpdateState, TableInv, BatchesLeft, ProofsSucceed
  <1>3. T \in [Epochs -> SUBSET Duty] /\ attesterDuties[CurrentEpoch] \subseteq T[CurrentEpoch]
    BY <1>2 DEF TypeInv, TypeOK
  <1>4. attesterDuties'[CurrentEpoch] = T[CurrentEpoch]
    BY <1>3, EpochDoneKeeps DEF ProofsSucceed, TypeInv
  <1> QED
    BY <1>1, <1>3, <1>4, UpdatePromise DEF TypeInv

LEMMA PromiseStep == TypeInv /\ PastInv /\ PromiseInv /\ [Next]_vars => PastInv' /\ PromiseInv'
  <1> SUFFICES ASSUME TypeInv, PastInv, PromiseInv, [Next]_vars PROVE PastInv' /\ PromiseInv'
    OBVIOUS
  <1>0. TypeOK
    BY DEF TypeInv
  <1>1. CASE EnvironmentStep
    <2>1. ASSUME NEW idx \in SUBSET Validators, ChangeIndices(idx) PROVE PastInv' /\ PromiseInv'
      BY <2>1, FramePromise
         DEF ChangeIndices, jobVars, tableVars, attestVars, historyVars
    <2>2. CASE DetectSlashing
      BY <2>2 DEF DetectSlashing, PastInv, PromiseInv, CurrentSlot, StopOnSlashing, DutiesInTable,
                  TickDue, jobVars, tableVars, attestVars, historyVars
    <2> QED
      BY <1>0, <1>1, <2>1, <2>2, ClockPromise DEF EnvironmentStep
  <1>2. CASE TriggerStep
    <2>1. CASE OnNewSlot
      BY <2>1 DEF OnNewSlot, PastInv, PromiseInv, CurrentSlot, StopOnSlashing, DutiesInTable,
                  TickDue, envVars, tableVars, attestVars, historyVars
    <2>2. ASSUME NEW s \in Slots, RunDeadlineJob(s) PROVE PastInv' /\ PromiseInv'
      <3>1. CASE s > started
        BY <1>0, <2>2, <3>1, TriggerPromise DEF RunDeadlineJob, envVars, historyVars
      <3>2. CASE ~(s > started)
        BY <2>2, <3>2
           DEF RunDeadlineJob, AttestIfNotYetAttested, MayAttest, PastInv, PromiseInv, CurrentSlot,
               StopOnSlashing, DutiesInTable, TickDue, envVars, attestVars, historyVars
      <3> QED
        BY <3>1, <3>2
    <2>3. ASSUME NEW s \in Slots, NEW p \in Roots, NEW c \in Roots, HandleHeadEvent(s, p, c)
          PROVE  PastInv' /\ PromiseInv'
      <3>1. CASE s <= started
        BY <2>3, <3>1, FramePromise DEF HandleHeadEvent, envVars, attestVars, historyVars
      <3>2. CASE ~(s <= started)
        <4>1. s > started
          BY <1>0, <3>2 DEF TypeOK, Slots
        <4> QED
          BY <1>0, <2>3, <3>2, <4>1, TriggerPromise DEF HandleHeadEvent, envVars, historyVars
      <3> QED
        BY <3>1, <3>2
    <2>4. CASE HandleReorgEvent
      BY <2>4, FramePromise
         DEF HandleReorgEvent, envVars, jobVars, tableVars, attestVars, historyVars
    <2> QED
      BY <1>2, <2>1, <2>2, <2>3, <2>4 DEF TriggerStep
  <1>3. CASE AttestStep
    BY <1>3, FramePromise
       DEF AttestStep, ProduceSucceeds, ProduceFails, SignAndPublish, Aggregate, Finish, envVars,
           jobVars, tableVars, attestVars, historyVars
  <1>4. CASE UpdateStep
    <2>1. CASE StartUpdate \/ UpdateFails \/ RetryUpdate
      BY <2>1, FramePromise
         DEF StartUpdate, UpdateFails, RetryUpdate, envVars, jobVars, tableVars, attestVars,
             historyVars
    <2> QED
      BY <1>0, <1>4, <2>1, FetchPromise, ProofsPromise DEF UpdateStep
  <1>5. CASE WaitStep
    BY <1>5, FramePromise
       DEF WaitStep, StartWait, EndWait, envVars, jobVars, tableVars, attestVars, historyVars
  <1>6. CASE UNCHANGED vars
    BY <1>6, FramePromise DEF vars, envVars, jobVars, tableVars, attestVars, historyVars
  <1> QED
    BY <1>1, <1>2, <1>3, <1>4, <1>5, <1>6 DEF Next

\* However late, early or out of order ticks, jobs and events are handled, a promised duty
\* whose attesting did not start is in the table, and something is still to start it.
THEOREM DutiesStayDue == Spec => []PromisedDutiesAreDue
  <1>1. Init => TypeInv /\ PastInv /\ PromiseInv
    BY InitType, InitTable, InitPromise DEF TypeInv
  <1>2. TypeInv /\ PastInv /\ PromiseInv /\ [Next]_vars => (TypeInv /\ PastInv /\ PromiseInv)'
    BY TypeStep, PromiseStep
  <1>3. PromiseInv => PromisedDutiesAreDue
    BY DEF PromiseInv, PromisedDutiesAreDue
  <1> QED
    BY <1>1, <1>2, <1>3, PTL DEF Spec

\* If the event loop is never blocked, a duty that is in the table when its slot begins
\* and is not taken away is started before the slot ends: for every schedule, every
\* length of epochs, and whatever head events and duty updates do.
THEOREM PromisesKept == "lag" \notin Environment => (Spec => PromisedDutiesStarted)
  <1> SUFFICES ASSUME "lag" \notin Environment PROVE Spec => PromisedDutiesStarted
    OBVIOUS
  <1> DEFINE Kept == CurrentSlot' # CurrentSlot /\ promised # {} /\ ~StopOnSlashing =>
                         started = CurrentSlot
  <1>1. Init => TypeInv /\ PastInv /\ PromiseInv
    BY InitType, InitTable, InitPromise DEF TypeInv
  <1>2. TypeInv /\ PastInv /\ PromiseInv /\ [Next]_vars => (TypeInv /\ PastInv /\ PromiseInv)'
    BY TypeStep, PromiseStep
  <1>3. TypeInv /\ PastInv /\ PromiseInv /\ [Next]_vars => Kept
    <2> SUFFICES ASSUME TypeInv, PromiseInv, [Next]_vars, CurrentSlot' # CurrentSlot
                 PROVE  Kept
      OBVIOUS
    <2>1. AdvanceClock
      BY DEF CurrentSlot, Next, EnvironmentStep, TriggerStep, AttestStep, UpdateStep, WaitStep,
             ChangeIndices, DetectSlashing, OnNewSlot, RunDeadlineJob, HandleHeadEvent,
             HandleReorgEvent, ProduceSucceeds, ProduceFails, SignAndPublish, Aggregate,
             StartUpdate, FetchSucceeds, ProofsSucceed, UpdateFails, RetryUpdate, StartWait,
             EndWait, vars, envVars
    <2>2. ~TickDue /\ \A s \in deadlineJobs : ~DeadlineDue(s)
      BY <2>1 DEF AdvanceClock, WorkDue
    <2>3. clock \in Nat /\ clock' = clock + 1
      BY <2>1, MaxSlotAssumption DEF AdvanceClock, TypeInv, TypeOK
    <2>4. clock >= 3 * CurrentSlot + 1
      BY <2>3 DEF CurrentSlot
    <2>5. CurrentSlot \notin deadlineJobs
      BY <2>2, <2>4 DEF DeadlineDue
    <2> QED
      BY <2>2, <2>5 DEF PromiseInv
  <1> QED
    BY <1>1, <1>2, <1>3, PTL DEF Spec, PromisedDutiesStarted

=============================================================================
