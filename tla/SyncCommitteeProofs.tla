------------------------ MODULE SyncCommitteeProofs ------------------------
(***************************************************************************)
(* Theorems about SyncCommittee, for any validators, committees, lengths   *)
(* of epochs and periods, and any horizon MaxSlot.                         *)
(***************************************************************************)
EXTENDS SyncCommittee, TLAPS

-----------------------------------------------------------------------------
(* Slots, epochs and periods *)

\* Integer division is monotone and keeps naturals natural.
LEMMA Division ==
    ASSUME NEW n \in Nat \ {0}, NEW a \in Nat, NEW b \in Nat, a <= b
    PROVE  a \div n \in Nat /\ b \div n \in Nat /\ a \div n <= b \div n
  OBVIOUS

\* Periods grow with slots.
LEMMA PeriodsGrow ==
    ASSUME NEW a \in Nat, NEW b \in Nat, a <= b
    PROVE  /\ EpochOf(a) \in Nat /\ EpochOf(b) \in Nat /\ EpochOf(a) <= EpochOf(b)
           /\ PeriodOf(a) \in Nat /\ PeriodOf(b) \in Nat /\ PeriodOf(a) <= PeriodOf(b)
  <1>1. EpochOf(a) \in Nat /\ EpochOf(b) \in Nat /\ EpochOf(a) <= EpochOf(b)
    BY LengthsAssumption, Division DEF EpochOf
  <1>2. /\ PeriodOfEpoch(EpochOf(a)) \in Nat /\ PeriodOfEpoch(EpochOf(b)) \in Nat
        /\ PeriodOfEpoch(EpochOf(a)) <= PeriodOfEpoch(EpochOf(b))
    BY <1>1, LengthsAssumption, Division DEF PeriodOfEpoch
  <1> QED
    BY <1>1, <1>2 DEF PeriodOf

\* The epochs and periods of the horizon have entries in the table.
LEMMA SlotPeriods ==
    ASSUME NEW s \in Slots
    PROVE  /\ s \in Int
           /\ EpochOf(s) \in 0..EpochOf(MaxSlot)
           /\ PeriodOf(s) \in Periods /\ SigningPeriod(s) \in Periods
           /\ PeriodOf(s) \in Int /\ SigningPeriod(s) \in Int
           /\ PeriodOf(s) <= SigningPeriod(s)
  <1>1. s \in Nat /\ MaxSlot \in Nat /\ s <= MaxSlot
    BY MaxSlotAssumption DEF Slots
  <1>2. s + 1 \in Nat /\ MaxSlot + 1 \in Nat /\ s + 1 <= MaxSlot + 1 /\ s <= MaxSlot + 1
    BY <1>1
  <1>3. EpochOf(s) \in 0..EpochOf(MaxSlot)
    BY <1>1, PeriodsGrow
  <1>4. PeriodOf(s) \in Periods /\ PeriodOf(s) \in Int
    BY <1>1, <1>2, PeriodsGrow DEF Periods
  <1>5. SigningPeriod(s) \in Periods /\ SigningPeriod(s) \in Int
    BY <1>2, PeriodsGrow DEF Periods, SigningPeriod
  <1>6. PeriodOf(s) <= SigningPeriod(s)
    BY <1>1, <1>2, PeriodsGrow DEF SigningPeriod
  <1> QED
    BY <1>1, <1>3, <1>4, <1>5, <1>6

LEMMA EpochPeriods ==
    ASSUME NEW e \in 0..EpochOf(MaxSlot)
    PROVE  PeriodOfEpoch(e) \in Periods
  <1>1. /\ MaxSlot \in Nat /\ MaxSlot + 1 \in Nat /\ EpochOf(MaxSlot) \in Nat
        /\ EpochOf(MaxSlot + 1) \in Nat /\ EpochOf(MaxSlot) <= EpochOf(MaxSlot + 1)
    BY MaxSlotAssumption, PeriodsGrow
  <1>2. e \in Nat /\ e <= EpochOf(MaxSlot + 1)
    BY <1>1
  <1> QED
    BY <1>1, <1>2, LengthsAssumption, Division DEF Periods, PeriodOf, PeriodOfEpoch

-----------------------------------------------------------------------------
(* Type correctness *)

LEMMA InitType == Init => TypeOK
  <1> SUFFICES ASSUME Init PROVE TypeOK
    OBVIOUS
  <1>1. 0 \in Slots /\ 0 \in 0..EpochOf(MaxSlot) /\ 0 \in Periods
    BY MaxSlotAssumption, PeriodsGrow DEF Slots, Periods
  <1>2. syncDuties \in [Periods -> SUBSET Validators]
    BY <1>1, CommitteeAssumption DEF Init
  <1>3. update \in UpdateState
    BY <1>1 DEF Init, IdleUpdate, UpdateState
  <1> QED
    BY <1>1, <1>2, <1>3 DEF Init, TypeOK

\* What produce_sync_message starts.
LEMMA ProduceType ==
    ASSUME TypeOK, NEW s \in Slots, NEW h \in Heads \cup {NoHead}, ProduceSyncMessage(s, h)
    PROVE  started' \in Slots \cup {-1} /\ messages' \in SUBSET Message
           /\ contributions' \in SUBSET Contribution
  <1>1. Members(s) \in SUBSET Validators
    BY SlotPeriods DEF Members, TypeOK
  <1>2. CASE MayProduce(s) /\ Members(s) # {}
    <2>1. [slot |-> s, head |-> h, members |-> Members(s),
           pc |-> IF h = NoHead THEN "root" ELSE "sign"] \in Message
      BY <1>1 DEF Message
    <2>2. Contribute(s, h, Members(s)) \in Contribution
      BY <1>1 DEF Contribute, Contribution
    <2> HIDE DEF Message, Contribution
    <2> QED
      BY <1>2, <2>1, <2>2 DEF ProduceSyncMessage, TypeOK
  <1>3. CASE ~(MayProduce(s) /\ Members(s) # {})
    BY <1>3 DEF ProduceSyncMessage, TypeOK
  <1> QED
    BY <1>2, <1>3

LEMMA MessageType == TypeOK /\ MessageStep => TypeOK'
  <1> SUFFICES ASSUME TypeOK, MessageStep PROVE TypeOK'
    OBVIOUS
  <1>1. CASE OnNewSlot
    <2>1. updateQueued' \in BOOLEAN
      BY <1>1 DEF OnNewSlot
    <2> QED
      BY <1>1, <2>1 DEF OnNewSlot, TypeOK, envVars, messageVars, slotVars
  <1>2. ASSUME NEW s \in jobs, RunDeadlineJob(s) PROVE TypeOK'
    <2>1. s \in Slots /\ NoHead \in Heads \cup {NoHead} /\ ProduceSyncMessage(s, NoHead)
      BY <1>2 DEF TypeOK, RunDeadlineJob
    <2>2. /\ started' \in Slots \cup {-1} /\ messages' \in SUBSET Message
          /\ contributions' \in SUBSET Contribution
      BY <2>1, ProduceType
    <2> QED
      BY <1>2, <2>2 DEF RunDeadlineJob, TypeOK, envVars, updateVars
  <1>3. ASSUME NEW h \in Heads, HandleHeadEvent(h) PROVE TypeOK'
    <2>1. /\ started' \in Slots \cup {-1} /\ messages' \in SUBSET Message
          /\ contributions' \in SUBSET Contribution
      BY <1>3, ProduceType DEF TypeOK, HandleHeadEvent
    <2>2. jobs' \in SUBSET Slots
      BY <1>3 DEF TypeOK, HandleHeadEvent
    <2> QED
      BY <1>3, <2>1, <2>2 DEF HandleHeadEvent, TypeOK, envVars, updateVars
  <1>4. ASSUME NEW m \in messages, GetHeadBlockRoot(m) PROVE TypeOK'
    <2>1. m \in Message /\ m.slot \in Slots /\ m.head \in Heads \cup {NoHead}
      BY DEF TypeOK, Message
    <2>2. [m EXCEPT !.pc = "sign"] \in Message
      BY <2>1 DEF Message
    <2>3. Contribute(m.slot, m.head, Members(m.slot)) \in Contribution
      <3>1. Members(m.slot) \in SUBSET Validators
        BY <2>1, SlotPeriods DEF Members, TypeOK
      <3> QED
        BY <2>1, <3>1 DEF Contribute, Contribution
    <2>4. messages' \in SUBSET Message /\ contributions' \in SUBSET Contribution
      BY <1>4, <2>2, <2>3 DEF GetHeadBlockRoot, TypeOK
    <2> QED
      BY <1>4, <2>4 DEF GetHeadBlockRoot, TypeOK, envVars, tickVars, slotVars, updateVars
  <1>5. ASSUME NEW m \in messages, EndMessage(m) PROVE TypeOK'
    <2>1. m.slot \in Slots
      BY DEF TypeOK, Message
    <2> QED
      BY <1>5, <2>1 DEF EndMessage, TypeOK, envVars, tickVars, updateVars
  <1> QED
    BY <1>1, <1>2, <1>3, <1>4, <1>5 DEF MessageStep

LEMMA ContributionType == TypeOK /\ ContributionStep => TypeOK'
  <1> SUFFICES ASSUME TypeOK, NEW c \in contributions, PrepareContributions(c) \/ EndContributions(c)
      PROVE  TypeOK'
    BY DEF ContributionStep
  <1>1. [c EXCEPT !.pc = "job"] \in Contribution
    BY DEF TypeOK, Contribution
  <1>2. contributions' \in SUBSET Contribution
    BY <1>1 DEF PrepareContributions, EndContributions, TypeOK
  <1> QED
    BY <1>2 DEF PrepareContributions, EndContributions, TypeOK, envVars, tickVars, slotVars,
                updateVars

\* The states of an update.
LEMMA UpdateStates ==
    ASSUME TypeOK
    PROVE  /\ IdleUpdate \in UpdateState
           /\ BeginUpdate => update' \in UpdateState
           /\ [update EXCEPT !.pc = "backoff", !.indices = {}] \in UpdateState
           /\ FetchedPeriod \in Periods
  <1>1. 0 \in 0..EpochOf(MaxSlot) /\ EpochOf(currentSlot) \in 0..EpochOf(MaxSlot)
    BY SlotPeriods, MaxSlotAssumption DEF TypeOK, Slots
  <1>2. update.epoch \in 0..EpochOf(MaxSlot)
    BY DEF TypeOK, UpdateState
  <1>3. IdleUpdate \in UpdateState
    BY <1>1 DEF IdleUpdate, UpdateState
  <1>4. BeginUpdate => update' \in UpdateState
    BY <1>1, <1>3 DEF BeginUpdate, UpdateState, UpdateEpoch, TypeOK
  <1>5. [update EXCEPT !.pc = "backoff", !.indices = {}] \in UpdateState
    BY DEF TypeOK, UpdateState
  <1> QED
    BY <1>2, <1>3, <1>4, <1>5, EpochPeriods DEF FetchedPeriod

LEMMA UpdateType == TypeOK /\ UpdateStep => TypeOK'
  <1> SUFFICES ASSUME TypeOK, UpdateStep PROVE TypeOK'
    OBVIOUS
  <1>1. CASE HandleReorgEvent
    BY <1>1 DEF HandleReorgEvent, TypeOK, envVars, tickVars, messageVars, slotVars
  <1>2. CASE StartUpdate
    <2>1. update' \in UpdateState
      BY <1>2, UpdateStates DEF StartUpdate, TypeOK
    <2> QED
      BY <1>2, <2>1 DEF StartUpdate, TypeOK, envVars, tickVars, messageVars, slotVars
  <1>3. CASE FetchSucceeds
    <2> DEFINE duties == Committee(FetchedPeriod) \cap update.indices
    <2>1. duties \in SUBSET Validators
      BY UpdateStates, CommitteeAssumption
    <2> HIDE DEF duties
    <2>2. Stored(duties) \in [Periods -> SUBSET Validators]
      BY <2>1, UpdateStates DEF Stored, TypeOK
    <2>3. Pruned(Stored(duties)) \in [Periods -> SUBSET Validators]
      BY <2>2 DEF Pruned
    <2>4. syncDuties' \in [Periods -> SUBSET Validators] /\ update' \in UpdateState
      BY <1>3, <2>3, UpdateStates DEF FetchSucceeds, duties
    <2> QED
      BY <1>3, <2>4 DEF FetchSucceeds, TypeOK, envVars, tickVars, messageVars, slotVars
  <1>4. CASE FetchFails
    BY <1>4, UpdateStates DEF FetchFails, TypeOK, envVars, tickVars, messageVars, slotVars
  <1>5. CASE RetryUpdate
    <2>1. update' \in UpdateState
      BY <1>5, UpdateStates DEF RetryUpdate
    <2> QED
      BY <1>5, <2>1 DEF RetryUpdate, TypeOK, envVars, tickVars, messageVars, slotVars
  <1> QED
    BY <1>1, <1>2, <1>3, <1>4, <1>5 DEF UpdateStep

LEMMA NextType == TypeOK /\ [Next]_vars => TypeOK'
  <1> SUFFICES ASSUME TypeOK, [Next]_vars PROVE TypeOK'
    OBVIOUS
  <1>1. CASE UNCHANGED vars
    BY <1>1 DEF vars, envVars, tickVars, messageVars, slotVars, updateVars, TypeOK
  <1>2. CASE AdvanceClock
    <2>1. currentSlot' \in Slots /\ promised' \in BOOLEAN
      BY <1>2, MaxSlotAssumption DEF AdvanceClock, TypeOK, Slots
    <2> QED
      BY <1>2, <2>1 DEF AdvanceClock, TypeOK, tickVars, messageVars, slotVars, updateVars
  <1>3. ASSUME NEW idx \in SUBSET Validators, ChangeIndices(idx) PROVE TypeOK'
    BY <1>3 DEF ChangeIndices, TypeOK, tickVars, messageVars, slotVars, updateVars
  <1>4. CASE StartWait
    <2>1. waiter' \in [pc : {"idle", "waiting", "done"}, slot : Slots]
      BY <1>4 DEF StartWait, TypeOK
    <2> QED
      BY <1>4, <2>1 DEF StartWait, TypeOK, envVars, tickVars, messageVars, slotVars, updateVars
  <1>5. CASE EndWait
    BY <1>5 DEF EndWait, TypeOK, envVars, tickVars, messageVars, slotVars, updateVars
  <1> QED
    BY <1>1, <1>2, <1>3, <1>4, <1>5, MessageType, ContributionType, UpdateType DEF Next

\* The variables have their types: the periods that are looked up, the next slot's
\* included, are those of the table.
THEOREM TypeCorrect == Spec => []TypeOK
  BY InitType, NextType, PTL DEF Spec

-----------------------------------------------------------------------------
(* The committee that signs *)

\* The table holds members of the right committees: signers are copies of its entries.
TableInv == \A p \in Periods : syncDuties[p] \subseteq Committee(p)

\* A fetch stores members under the period they were asked for.
LEMMA FetchedTable ==
    ASSUME TypeOK, TableInv, FetchSucceeds
    PROVE  TableInv'
  <1> DEFINE duties == Committee(FetchedPeriod) \cap update.indices
  <1>1. duties \subseteq Committee(FetchedPeriod) /\ FetchedPeriod \in Periods
    BY UpdateStates
  <1>2. syncDuties' = Pruned(Stored(duties))
    BY DEF FetchSucceeds
  <1> HIDE DEF duties
  <1>3. ASSUME NEW p \in Periods PROVE Stored(duties)[p] \subseteq Committee(p)
    BY <1>1, <1>3 DEF Stored, TableInv, TypeOK
  <1>4. ASSUME NEW p \in Periods PROVE syncDuties'[p] \subseteq Committee(p)
    BY <1>2, <1>3, <1>4 DEF Pruned
  <1> QED
    BY <1>4 DEF TableInv

LEMMA TableNext == TypeOK /\ TableInv /\ [Next]_vars => TableInv'
  <1> SUFFICES ASSUME TypeOK, TableInv, [Next]_vars PROVE TableInv'
    OBVIOUS
  <1>1. CASE syncDuties' = syncDuties
    BY <1>1 DEF TableInv
  <1>2. CASE FetchSucceeds
    BY <1>2, FetchedTable
  <1>3. FetchSucceeds \/ syncDuties' = syncDuties
    <2>1. CASE MessageStep
      BY <2>1 DEF MessageStep, OnNewSlot, RunDeadlineJob, HandleHeadEvent, GetHeadBlockRoot,
                  EndMessage, updateVars
    <2>2. CASE UpdateStep
      BY <2>2 DEF UpdateStep, HandleReorgEvent, StartUpdate, FetchFails, RetryUpdate
    <2>3. CASE ~MessageStep /\ ~UpdateStep
      BY <2>3 DEF Next, vars, updateVars, AdvanceClock, ChangeIndices, ContributionStep,
                  PrepareContributions, EndContributions, StartWait, EndWait
    <2> QED
      BY <2>1, <2>2, <2>3
  <1> QED
    BY <1>1, <1>2, <1>3

\* The entries a message or a contribution copies are members of the committee.
LEMMA MembersSign ==
    ASSUME TypeOK, TableInv, NEW s \in Slots
    PROVE  Members(s) \subseteq Committee(SigningPeriod(s))
  BY SlotPeriods DEF Members, TableInv

LEMMA ProduceSigners ==
    ASSUME TypeOK, TableInv, SignersAreMembers, NEW s \in Slots, NEW h, ProduceSyncMessage(s, h)
    PROVE  SignersAreMembers'
  <1>1. CASE MayProduce(s) /\ Members(s) # {}
    <2>1. ASSUME NEW m \in messages' PROVE m.members \subseteq Committee(SigningPeriod(m.slot))
      BY <1>1, <2>1, MembersSign DEF ProduceSyncMessage, SignersAreMembers
    <2>2. ASSUME NEW c \in contributions' PROVE c.duties \subseteq Committee(SigningPeriod(c.slot))
      BY <1>1, <2>2, MembersSign DEF ProduceSyncMessage, SignersAreMembers, Contribute
    <2> QED
      BY <2>1, <2>2 DEF SignersAreMembers
  <1>2. CASE ~(MayProduce(s) /\ Members(s) # {})
    BY <1>2 DEF ProduceSyncMessage, SignersAreMembers
  <1> QED
    BY <1>1, <1>2

LEMMA SignersNext ==
    TypeOK /\ TableInv /\ SignersAreMembers /\ [Next]_vars => SignersAreMembers'
  <1> SUFFICES ASSUME TypeOK, TableInv, SignersAreMembers, [Next]_vars
      PROVE  SignersAreMembers'
    OBVIOUS
  <1>1. CASE UNCHANGED messageVars
    BY <1>1 DEF messageVars, SignersAreMembers
  <1>2. ASSUME NEW s \in jobs, RunDeadlineJob(s) PROVE SignersAreMembers'
    BY <1>2, ProduceSigners DEF RunDeadlineJob, TypeOK
  <1>3. ASSUME NEW h \in Heads, HandleHeadEvent(h) PROVE SignersAreMembers'
    BY <1>3, ProduceSigners DEF HandleHeadEvent, TypeOK
  <1>4. ASSUME NEW m \in messages, GetHeadBlockRoot(m) PROVE SignersAreMembers'
    <2>1. m.slot \in Slots
      BY DEF TypeOK, Message
    <2>2. ASSUME NEW n \in messages' PROVE n.members \subseteq Committee(SigningPeriod(n.slot))
      <3>1. m \in Message
        BY DEF TypeOK
      <3>2. CASE n = [m EXCEPT !.pc = "sign"]
        <4>1. n.members = m.members /\ n.slot = m.slot
          BY <3>1, <3>2 DEF Message
        <4> QED
          BY <4>1 DEF SignersAreMembers
      <3> QED
        BY <1>4, <2>2, <3>2 DEF GetHeadBlockRoot, SignersAreMembers
    <2>3. ASSUME NEW c \in contributions' PROVE c.duties \subseteq Committee(SigningPeriod(c.slot))
      BY <1>4, <2>1, <2>3, MembersSign DEF GetHeadBlockRoot, SignersAreMembers, Contribute
    <2> QED
      BY <2>2, <2>3 DEF SignersAreMembers
  <1>5. ASSUME NEW m \in messages, EndMessage(m) PROVE SignersAreMembers'
    BY <1>5 DEF EndMessage, SignersAreMembers
  <1>6. ASSUME NEW c \in contributions, PrepareContributions(c) PROVE SignersAreMembers'
    <2>1. c \in Contribution
      BY DEF TypeOK
    <2>2. /\ [c EXCEPT !.pc = "job"].duties = c.duties
          /\ [c EXCEPT !.pc = "job"].slot = c.slot
      BY <2>1 DEF Contribution
    <2> QED
      BY <1>6, <2>2 DEF PrepareContributions, SignersAreMembers
  <1>7. ASSUME NEW c \in contributions, EndContributions(c) PROVE SignersAreMembers'
    BY <1>7 DEF EndContributions, SignersAreMembers
  <1>8. CASE UpdateStep \/ OnNewSlot
    BY <1>1, <1>8 DEF UpdateStep, HandleReorgEvent, StartUpdate, FetchSucceeds, FetchFails,
                      RetryUpdate, OnNewSlot
  <1>9. CASE ~UpdateStep /\ ~MessageStep /\ ~ContributionStep
    BY <1>1, <1>9 DEF Next, vars, AdvanceClock, ChangeIndices, StartWait, EndWait
  <1> QED
    BY <1>2, <1>3, <1>4, <1>5, <1>6, <1>7, <1>8, <1>9 DEF MessageStep, ContributionStep

LEMMA SignersInit == Init => TableInv /\ SignersAreMembers
  <1> SUFFICES ASSUME Init PROVE TableInv /\ SignersAreMembers
    OBVIOUS
  <1>1. ASSUME NEW p \in Periods PROVE syncDuties[p] \subseteq Committee(p)
    BY <1>1 DEF Init
  <1> QED
    BY <1>1 DEF Init, TableInv, SignersAreMembers

\* Only members of the signing committee are asked for signatures: messages and
\* contributions copy the table, in which a fetch stores members under their period.
THEOREM SignersCorrect == Spec => []SignersAreMembers
  BY InitType, NextType, SignersInit, SignersNext, TableNext, PTL DEF Spec

-----------------------------------------------------------------------------
(* Known duties are started *)

\* Ticks and messages are of the current slot or earlier ones.  In a slot whose duties
\* were known when it began they are still known, and until a message is started the
\* tick or the job that starts it is outstanding.
PromiseInv ==
    /\ started <= currentSlot
    /\ ticked <= currentSlot
    /\ promised => /\ Members(currentSlot) # {}
                   /\ started = currentSlot \/ TickDue \/ currentSlot \in jobs

\* Pruning keeps the signing period's duties, and an empty answer replaces nothing.
LEMMA FetchKeepsMembers ==
    ASSUME TypeOK, FetchSucceeds, Members(currentSlot) # {}
    PROVE  Members(currentSlot)' # {}
  <1> DEFINE duties == Committee(FetchedPeriod) \cap update.indices
             period == SigningPeriod(currentSlot)
  <1>1. period \in Periods /\ ~(period < PeriodOf(currentSlot))
    BY SlotPeriods DEF TypeOK
  <1>2. syncDuties' = Pruned(Stored(duties)) /\ currentSlot' = currentSlot
    BY DEF FetchSucceeds, envVars
  <1> HIDE DEF duties
  <1>3. Stored(duties)[period] # {}
    BY <1>1, UpdateStates DEF Stored, Members, TypeOK
  <1> HIDE DEF period
  <1>4. syncDuties'[period] = Stored(duties)[period]
    BY <1>1, <1>2 DEF Pruned
  <1> QED
    BY <1>2, <1>3, <1>4 DEF Members, period

\* Whoever takes the job of the current slot starts its message.
LEMMA ProduceKeepsPromise ==
    ASSUME TypeOK, PromiseInv, NEW s \in Slots, NEW h, ProduceSyncMessage(s, h),
           UNCHANGED <<currentSlot, ticked, syncDuties, promised>>,
           jobs' = jobs \/ jobs' = jobs \ {s}
    PROVE  PromiseInv'
  <1>1. /\ currentSlot \in Int /\ started \in Int
        /\ started' <= currentSlot /\ (started = currentSlot => started' = currentSlot)
    BY DEF ProduceSyncMessage, MayProduce, PromiseInv, TypeOK, Slots
  <1>2. Members(currentSlot)' = Members(currentSlot) /\ TickDue' = TickDue
    BY DEF Members, TickDue
  <1>3. promised /\ s = currentSlot => started' = currentSlot
    BY <1>1 DEF ProduceSyncMessage, MayProduce, PromiseInv
  <1> QED
    BY <1>1, <1>2, <1>3 DEF PromiseInv

LEMMA PromiseNext == TypeOK /\ PromiseInv /\ [Next]_vars => PromiseInv'
  <1> SUFFICES ASSUME TypeOK, PromiseInv, [Next]_vars PROVE PromiseInv'
    OBVIOUS
  <1>1. CASE UNCHANGED <<currentSlot, tickVars, started, syncDuties, promised>>
    BY <1>1 DEF tickVars, PromiseInv, Members, TickDue
  <1>2. CASE AdvanceClock
    <2>1. currentSlot \in Int /\ started \in Int /\ ticked \in Int
      BY DEF TypeOK, Slots
    <2>2. /\ currentSlot' = currentSlot + 1 /\ started' = started /\ ticked' = ticked
          /\ TickDue'
      BY <1>2, <2>1 DEF AdvanceClock, slotVars, tickVars, TickDue, PromiseInv
    <2>3. promised' => Members(currentSlot)' # {}
      BY <1>2 DEF AdvanceClock, Members, updateVars
    <2> QED
      BY <2>1, <2>2, <2>3 DEF PromiseInv
  <1>3. CASE OnNewSlot
    <2>1. /\ currentSlot' = currentSlot /\ started' = started /\ ticked' = currentSlot
          /\ currentSlot \in jobs' /\ promised' = promised /\ syncDuties' = syncDuties
      BY <1>3 DEF OnNewSlot, envVars, slotVars
    <2> QED
      BY <2>1 DEF PromiseInv, Members, TypeOK, Slots
  <1>4. ASSUME NEW s \in jobs, RunDeadlineJob(s) PROVE PromiseInv'
    BY <1>4, ProduceKeepsPromise DEF RunDeadlineJob, TypeOK, envVars, updateVars
  <1>5. ASSUME NEW h \in Heads, HandleHeadEvent(h) PROVE PromiseInv'
    BY <1>5, ProduceKeepsPromise DEF HandleHeadEvent, TypeOK, envVars, updateVars
  <1>6. CASE FetchSucceeds
    <2>1. /\ UNCHANGED <<currentSlot, ticked, jobs, started, promised>>
          /\ promised => Members(currentSlot)' # {}
      BY <1>6, FetchKeepsMembers DEF FetchSucceeds, envVars, tickVars, slotVars, PromiseInv
    <2> QED
      BY <2>1 DEF PromiseInv, TickDue
  <1>7. CASE UpdateStep /\ ~FetchSucceeds
    BY <1>1, <1>7 DEF UpdateStep, HandleReorgEvent, StartUpdate, FetchFails, RetryUpdate,
                      envVars, slotVars
  <1>8. ASSUME NEW m \in messages, GetHeadBlockRoot(m) \/ EndMessage(m) PROVE PromiseInv'
    BY <1>1, <1>8 DEF GetHeadBlockRoot, EndMessage, envVars, slotVars, updateVars
  <1>9. CASE ~AdvanceClock /\ ~MessageStep /\ ~UpdateStep
    BY <1>1, <1>9 DEF Next, vars, envVars, slotVars, updateVars, ChangeIndices,
          ContributionStep, PrepareContributions, EndContributions, StartWait, EndWait
  <1> QED
    BY <1>2, <1>3, <1>4, <1>5, <1>6, <1>7, <1>8, <1>9 DEF MessageStep

LEMMA PromiseInit == Init => PromiseInv
  BY DEF Init, PromiseInv

\* A slot whose duties were known at its start does not end without a message: neither
\* updates and pruning nor the removal of its job take the duty away.
THEOREM DutiesStarted == Spec => KnownDutiesStarted
  <1>1. ASSUME PromiseInv, [Next]_vars, currentSlot' # currentSlot, promised, ~WorkDue
        PROVE  started = currentSlot
    BY <1>1 DEF PromiseInv, WorkDue
  <1>2. PromiseInv /\ [Next]_vars =>
           [currentSlot' # currentSlot /\ promised /\ ~WorkDue => started = currentSlot]_vars
    BY <1>1
  <1> QED
    BY <1>2, InitType, NextType, PromiseInit, PromiseNext, PTL DEF Spec, KnownDutiesStarted
=============================================================================
