------------------------ MODULE BlockProposalProofs ------------------------
(***************************************************************************)
(* Theorems about BlockProposal, for every number of validators, any       *)
(* assignment of proposers, any epoch length and any horizon MaxSlot.      *)
(***************************************************************************)
EXTENDS BlockProposal, TLAPS

-----------------------------------------------------------------------------
(* Slots, epochs and duties *)

\* Integer division: monotone, bounded, and one more at most for a successor.
LEMMA Division ==
    ASSUME NEW n \in Nat \ {0}, NEW a \in Nat, NEW b \in Nat, a <= b
    PROVE  /\ a \div n \in Nat
           /\ a \div n <= b \div n
           /\ (a + 1) \div n \in Nat
           /\ (a + 1) \div n <= (a \div n) + 1
           /\ a < (a \div n) * n + n
  OBVIOUS

\* The epoch of a slot, and of the slot after it, are epochs with duties.
LEMMA EpochOfSlot ==
    ASSUME NEW s \in Slots
    PROVE  /\ EpochOf(MaxSlot) \in Nat
           /\ EpochOf(s) \in 0..EpochOf(MaxSlot)
           /\ EpochOf(s) \in Epochs
           /\ EpochOf(s + 1) \in Epochs
  <1>1. s \in Nat /\ s <= MaxSlot /\ MaxSlot \in Nat /\ SlotsPerEpoch \in Nat \ {0}
    BY MaxSlotAssumption, SlotsPerEpochAssumption DEF Slots
  <1>2. /\ EpochOf(s) \in Nat /\ EpochOf(MaxSlot) \in Nat /\ EpochOf(s) <= EpochOf(MaxSlot)
        /\ EpochOf(s + 1) \in Nat /\ EpochOf(s + 1) <= EpochOf(s) + 1
    BY <1>1, Division DEF EpochOf
  <1> QED
    BY <1>2 DEF Epochs

\* The epochs of the horizon, and the one after each of them, have duties.
LEMMA EpochBounds ==
    /\ 0 \in Slots
    /\ 0 \in 0..EpochOf(MaxSlot)
    /\ 0 \in Epochs
    /\ \A e \in 0..EpochOf(MaxSlot) : e \in Epochs /\ e + 1 \in Epochs
  <1>1. 0 \in Slots /\ MaxSlot \in Slots
    BY MaxSlotAssumption DEF Slots
  <1>2. EpochOf(MaxSlot) \in Nat
    BY <1>1, EpochOfSlot
  <1> QED
    BY <1>1, <1>2 DEF Epochs

\* There may be duties for each slot of the horizon and the one after it.
LEMMA SlotsHaveDuties ==
    ASSUME NEW s \in Slots
    PROVE  s \in DutySlots /\ s + 1 \in DutySlots
  <1> DEFINE n == SlotsPerEpoch
             E == EpochOf(MaxSlot)
  <1>1. s \in Nat /\ s <= MaxSlot /\ MaxSlot \in Nat /\ n \in Nat \ {0}
    BY MaxSlotAssumption, SlotsPerEpochAssumption DEF Slots
  <1>2. E \in Nat /\ MaxSlot < E * n + n
    BY <1>1, Division DEF EpochOf
  <1>3. E * n \in Nat /\ (E + 2) * n = E * n + n + n
    BY <1>1, <1>2
  <1> HIDE DEF n, E
  <1>4. s \in 0..((E + 2) * n - 1) /\ s + 1 \in 0..((E + 2) * n - 1)
    BY <1>1, <1>2, <1>3
  <1> QED
    BY <1>4 DEF DutySlots, n, E

\* A beacon node's duties of an epoch.
LEMMA DutiesOfType ==
    ASSUME NEW r, NEW e
    PROVE  DutiesOf(r, e) \in SUBSET Duty
  BY DEF DutiesOf

\* The duties in the table for a slot.
LEMMA DutiesForSlotType ==
    ASSUME TypeOK, NEW s, EpochOf(s) \in Epochs
    PROVE  /\ DutiesForSlot(s) \in SUBSET Duty
           /\ \A d \in DutiesForSlot(s) :
                 d.slot = s /\ d.validator \in Validators /\ d \in proposerDuties[EpochOf(s)]
  BY DEF TypeOK, DutiesForSlot, Duty

-----------------------------------------------------------------------------
(* Type correctness *)

LEMMA InitType == Init => TypeOK
  <1> SUFFICES ASSUME Init PROVE TypeOK
    OBVIOUS
  <1>1. 0 \in Slots /\ 0 \in Epochs /\ 0 \in 0..EpochOf(MaxSlot) /\ 0 \in DutySlots
    BY EpochBounds, SlotsHaveDuties
  <1>2. proposerDuties \in [Epochs -> SUBSET Duty] /\ dependentRoots \in [Epochs -> Roots \cup {NoRoot}]
    BY DutiesOfType DEF Init
  <1>3. update \in UpdateState /\ shutdown \in ShutdownState
    BY <1>1 DEF Init, IdleUpdate, UpdateState, ShutdownState
  <1>4. randaoCache \in [DutySlots -> MaybeValidator]
    BY DEF Init, MaybeValidator
  <1> QED
    BY <1>1, <1>2, <1>3, <1>4 DEF Init, TypeOK

\* One lemma per part of the system, below one step per action.
LEMMA EnvironmentType == TypeOK /\ EnvironmentStep => TypeOK'
  <1> SUFFICES ASSUME TypeOK, EnvironmentStep PROVE TypeOK'
    OBVIOUS
  <1>1. CASE AdvanceClock
    <2>1. currentSlot' \in Slots
      BY <1>1, MaxSlotAssumption DEF TypeOK, AdvanceClock, Slots
    <2>2. DutiesForSlot(currentSlot') \in SUBSET Duty
      BY <2>1, EpochOfSlot, DutiesForSlotType
    <2>3. promised' \in SUBSET Duty
      BY <1>1, <2>2 DEF AdvanceClock, TypeOK
    <2> QED
      BY <1>1, <2>1, <2>3 DEF TypeOK, AdvanceClock, tableVars, slotVars, updateVars
  <1>2. ASSUME NEW idx \in SUBSET Validators, ChangeIndices(idx) PROVE TypeOK'
    BY <1>2 DEF TypeOK, ChangeIndices, tableVars, slotVars, updateVars
  <1>3. CASE DetectSlashing
    BY <1>3 DEF TypeOK, DetectSlashing, tableVars, slotVars, updateVars
  <1> QED
    BY <1>1, <1>2, <1>3 DEF EnvironmentStep

\* A step of the on_new_slot call t ends it or leaves a later state u of it.
Moved(t) ==
    \/ handlers' = handlers \ {t}
    \/ \E u \in Handler : u.slot = t.slot /\ u.pc # "start" /\ handlers' = (handlers \ {t}) \cup {u}

LEMMA AfterProposalMoves ==
    ASSUME TypeOK, NEW t \in handlers, AfterProposal(t)
    PROVE  /\ updateQueued' \in BOOLEAN
           /\ \/ handlers' = handlers \ {t}
              \/ \E u \in Handler : /\ u.slot = t.slot /\ u.pc = "reveal"
                                    /\ handlers' = (handlers \ {t}) \cup {u}
  <1>1. t \in Handler /\ t.slot \in Slots /\ updateQueued \in BOOLEAN
    BY DEF TypeOK, Handler
  <1>2. CASE handlers' = handlers \ {t} /\ EpochStart(t.slot)
    BY <1>1, <1>2 DEF EpochStart
  <1>3. CASE \E d \in DutiesForSlot(t.slot + 1) :
                /\ handlers' = (handlers \ {t}) \cup
                      {[t EXCEPT !.pc = "reveal", !.validator = d.validator,
                                 !.reveal = NoValidator]}
                /\ UNCHANGED updateQueued
    <2>1. PICK d \in DutiesForSlot(t.slot + 1) :
                /\ handlers' = (handlers \ {t}) \cup
                      {[t EXCEPT !.pc = "reveal", !.validator = d.validator,
                                 !.reveal = NoValidator]}
                /\ UNCHANGED updateQueued
      BY <1>3
    <2>2. d.validator \in Validators
      BY <1>1, EpochOfSlot, DutiesForSlotType
    <2> DEFINE u == [t EXCEPT !.pc = "reveal", !.validator = d.validator, !.reveal = NoValidator]
    <2>3. u \in Handler /\ u.slot = t.slot /\ u.pc = "reveal"
      BY <1>1, <2>2 DEF Handler, MaybeValidator
    <2> HIDE DEF u
    <2>4. handlers' = (handlers \ {t}) \cup {u}
      BY <2>1 DEF u
    <2> QED
      BY <1>1, <2>1, <2>3, <2>4
  <1> QED
    BY <1>2, <1>3 DEF AfterProposal

\* The three ways a call starts, with what each of them needs and does.
LEMMA StartMoves ==
    ASSUME TypeOK, NEW t \in handlers, StartHandler(t)
    PROVE  \/ /\ Moved(t)
              /\ \A u \in handlers' : Proposing(u) => u \in handlers /\ u # t
              /\ \/ ~MayPropose(t.slot)
                 \/ DutiesForSlot(t.slot) = {}
              /\ UNCHANGED <<proposerDuties, randaoCache, started>>
              /\ updateQueued' \in BOOLEAN
           \/ /\ Moved(t)
              /\ MayPropose(t.slot)
              /\ started' = t.slot
              /\ \E d \in DutiesForSlot(t.slot) :
                    proposerDuties' = [proposerDuties EXCEPT ![EpochOf(t.slot)] = @ \ {d}]
              /\ randaoCache' \in [DutySlots -> MaybeValidator]
              /\ UNCHANGED updateQueued
  <1>1. t \in Handler /\ t.slot \in Slots /\ updateQueued \in BOOLEAN /\ t.slot \in DutySlots
    BY SlotsHaveDuties DEF TypeOK, Handler
  <1>2. CASE /\ ~MayPropose(t.slot)
             /\ handlers' = handlers \ {t}
             /\ UNCHANGED <<proposerDuties, randaoCache, started, updateQueued>>
    BY <1>1, <1>2 DEF Moved
  <1>3. CASE /\ MayPropose(t.slot) /\ DutiesForSlot(t.slot) = {}
             /\ AfterProposal(t)
             /\ UNCHANGED <<proposerDuties, randaoCache, started>>
    BY <1>3, AfterProposalMoves DEF Moved, Proposing
  <1>4. CASE \E d \in DutiesForSlot(t.slot) :
          /\ MayPropose(t.slot)
          /\ proposerDuties' = [proposerDuties EXCEPT ![EpochOf(t.slot)] = @ \ {d}]
          /\ started' = t.slot
          /\ randaoCache' = [randaoCache EXCEPT ![t.slot] = NoValidator]
          /\ handlers' = (handlers \ {t}) \cup
                {[t EXCEPT !.pc = IF randaoCache[t.slot] = NoValidator
                                  THEN "randao" ELSE "produce",
                           !.validator = d.validator, !.reveal = randaoCache[t.slot]]}
          /\ UNCHANGED updateQueued
    <2>1. PICK d \in DutiesForSlot(t.slot) :
          /\ MayPropose(t.slot)
          /\ proposerDuties' = [proposerDuties EXCEPT ![EpochOf(t.slot)] = @ \ {d}]
          /\ started' = t.slot
          /\ randaoCache' = [randaoCache EXCEPT ![t.slot] = NoValidator]
          /\ handlers' = (handlers \ {t}) \cup
                {[t EXCEPT !.pc = IF randaoCache[t.slot] = NoValidator
                                  THEN "randao" ELSE "produce",
                           !.validator = d.validator, !.reveal = randaoCache[t.slot]]}
          /\ UNCHANGED updateQueued
      BY <1>4
    <2>2. d.validator \in Validators
      BY <1>1, EpochOfSlot, DutiesForSlotType
    <2>3. randaoCache \in [DutySlots -> MaybeValidator] /\ randaoCache[t.slot] \in MaybeValidator
      BY <1>1 DEF TypeOK
    <2> DEFINE u == [t EXCEPT !.pc = IF randaoCache[t.slot] = NoValidator
                                     THEN "randao" ELSE "produce",
                              !.validator = d.validator, !.reveal = randaoCache[t.slot]]
    <2>4. u \in Handler /\ u.slot = t.slot /\ u.pc # "start"
      BY <1>1, <2>2, <2>3 DEF Handler, MaybeValidator
    <2>5. randaoCache' \in [DutySlots -> MaybeValidator]
      BY <2>1, <2>3 DEF MaybeValidator
    <2> HIDE DEF u
    <2>6. handlers' = (handlers \ {t}) \cup {u}
      BY <2>1 DEF u
    <2> QED
      BY <2>1, <2>4, <2>5, <2>6 DEF Moved
  <1> QED
    BY <1>2, <1>3, <1>4 DEF StartHandler

\* The steps of a call after it started: those of a proposal that goes on, those
\* that end a proposal, and those of the preparation of the next one.
LEMMA ProposalMoves ==
    ASSUME TypeOK, NEW t \in handlers, RevealForProposal(t) \/ ProduceBlock(t)
    PROVE  Moved(t) /\ Proposing(t) /\ randaoCache' \in [DutySlots -> MaybeValidator]
  <1>1. t \in Handler /\ t.slot \in Slots /\ randaoCache \in [DutySlots -> MaybeValidator]
    BY DEF TypeOK, Handler
  <1>2. CASE RevealForProposal(t)
    BY <1>1, <1>2 DEF RevealForProposal, Moved, Handler, Proposing, MaybeValidator
  <1>3. CASE ProduceBlock(t)
    BY <1>1, <1>3 DEF ProduceBlock, Moved, Handler, Proposing
  <1> QED
    BY <1>2, <1>3

LEMMA ProposalEndMoves ==
    ASSUME TypeOK, NEW t \in handlers, SignAndPublish(t) \/ ProposalFails(t)
    PROVE  /\ Moved(t) /\ Proposing(t)
           /\ \A u \in handlers' : Proposing(u) => u \in handlers /\ u # t
           /\ updateQueued' \in BOOLEAN
  <1>1. updateQueued \in BOOLEAN
    BY DEF TypeOK
  <1>2. CASE SignAndPublish(t)
    BY <1>2, AfterProposalMoves DEF SignAndPublish, Moved, Proposing
  <1>3. CASE ProposalFails(t)
    BY <1>1, <1>3 DEF ProposalFails, Moved, updateVars
  <1> QED
    BY <1>2, <1>3

LEMMA PreparationMoves ==
    ASSUME TypeOK, NEW t \in handlers,
           RevealForNextSlot(t) \/ PrepareBeaconProposer(t) \/ PreparationFails(t)
    PROVE  /\ Moved(t) /\ t.pc # "start" /\ ~Proposing(t)
           /\ \A u \in handlers' : Proposing(u) => u \in handlers /\ u # t
           /\ updateQueued' \in BOOLEAN
           /\ randaoCache' \in [DutySlots -> MaybeValidator]
  <1>1. /\ t \in Handler /\ t.slot \in Slots /\ updateQueued \in BOOLEAN
        /\ randaoCache \in [DutySlots -> MaybeValidator]
    BY DEF TypeOK, Handler
  <1>2. CASE RevealForNextSlot(t)
    BY <1>1, <1>2 DEF RevealForNextSlot, Moved, Handler, Proposing, MaybeValidator, updateVars
  <1>3. CASE PrepareBeaconProposer(t)
    BY <1>1, <1>3 DEF PrepareBeaconProposer, EpochStart, Moved, Proposing
  <1>4. CASE PreparationFails(t)
    BY <1>1, <1>4 DEF PreparationFails, Moved, Proposing, updateVars
  <1> QED
    BY <1>2, <1>3, <1>4

LEMMA MovedType ==
    ASSUME TypeOK, NEW t \in handlers, Moved(t)
    PROVE  handlers' \in SUBSET Handler
  BY DEF TypeOK, Moved

LEMMA SlotType == TypeOK /\ SlotStep => TypeOK'
  <1> SUFFICES ASSUME TypeOK, SlotStep PROVE TypeOK'
    OBVIOUS
  <1>1. CASE OnNewSlot
    <2>1. handlers' \in SUBSET Handler
      BY <1>1 DEF TypeOK, OnNewSlot, Handler, MaybeValidator
    <2> QED
      BY <1>1, <2>1 DEF TypeOK, OnNewSlot, envVars, tableVars, slotVars, updateVars
  <1>2. ASSUME NEW t \in handlers, StartHandler(t) PROVE TypeOK'
    <2>1. /\ handlers' \in SUBSET Handler
          /\ proposerDuties' \in [Epochs -> SUBSET Duty]
          /\ randaoCache' \in [DutySlots -> MaybeValidator]
          /\ started' \in Slots \cup {-1}
          /\ updateQueued' \in BOOLEAN
      <3>1. t.slot \in Slots
        BY DEF TypeOK, Handler
      <3>2. EpochOf(t.slot) \in Epochs
        BY <3>1, EpochOfSlot
      <3> QED
        BY <1>2, <3>1, <3>2, StartMoves, MovedType DEF TypeOK
    <2> QED
      BY <1>2, <2>1 DEF TypeOK, StartHandler, envVars
  <1>3. ASSUME NEW t \in handlers, RevealForProposal(t) \/ ProduceBlock(t) PROVE TypeOK'
    BY <1>3, ProposalMoves, MovedType
       DEF TypeOK, RevealForProposal, ProduceBlock, envVars, tableVars, slotVars, updateVars
  <1>4. ASSUME NEW t \in handlers, SignAndPublish(t) \/ ProposalFails(t) PROVE TypeOK'
    <2>1. t.slot \in Slots
      BY DEF TypeOK, Handler
    <2>2. handlers' \in SUBSET Handler /\ updateQueued' \in BOOLEAN
      BY <1>4, ProposalEndMoves, MovedType
    <2> QED
      BY <1>4, <2>1, <2>2
         DEF TypeOK, SignAndPublish, ProposalFails, envVars, tableVars, slotVars, updateVars
  <1>5. ASSUME NEW t \in handlers,
               RevealForNextSlot(t) \/ PrepareBeaconProposer(t) \/ PreparationFails(t)
        PROVE  TypeOK'
    <2>1. /\ handlers' \in SUBSET Handler /\ updateQueued' \in BOOLEAN
          /\ randaoCache' \in [DutySlots -> MaybeValidator]
      BY <1>5, PreparationMoves, MovedType
    <2> QED
      BY <1>5, <2>1
         DEF TypeOK, RevealForNextSlot, PrepareBeaconProposer, PreparationFails, envVars,
             tableVars, slotVars, updateVars
  <1> QED
    BY <1>1, <1>2, <1>3, <1>4, <1>5 DEF SlotStep

\* An update that begins or gives up is one of its states.
LEMMA UpdateStateTypes ==
    ASSUME TypeOK
    PROVE  /\ \A e \in 0..EpochOf(MaxSlot) :
                /\ IdleUpdate(e) \in UpdateState
                /\ [IdleUpdate(e) EXCEPT !.pc = "backoff"] \in UpdateState
           /\ update.epoch \in 0..EpochOf(MaxSlot) /\ update.epoch + 1 \in Epochs
           /\ update.fetching \in Epochs
           /\ BeginUpdate => update' \in UpdateState
  <1>1. /\ EpochOf(currentSlot) \in 0..EpochOf(MaxSlot) /\ EpochOf(currentSlot) \in Epochs
        /\ 0 \in Epochs
    BY EpochOfSlot, EpochBounds DEF TypeOK
  <1>2. update.epoch \in 0..EpochOf(MaxSlot) /\ update.fetching \in Epochs
    BY DEF TypeOK, UpdateState
  <1>3. \A e \in 0..EpochOf(MaxSlot) : /\ IdleUpdate(e) \in UpdateState
                                       /\ [IdleUpdate(e) EXCEPT !.pc = "backoff"] \in UpdateState
    BY <1>1 DEF IdleUpdate, UpdateState
  <1>4. ASSUME BeginUpdate PROVE update' \in UpdateState
    <2>1. CASE indices = {}
      BY <1>1, <1>3, <1>4, <2>1 DEF BeginUpdate
    <2>2. CASE indices # {}
      BY <1>1, <1>4, <2>2 DEF BeginUpdate, TypeOK, UpdateState
    <2> QED
      BY <2>1, <2>2
  <1> QED
    BY <1>2, <1>3, <1>4, EpochBounds

\* The tables and update after a response.
LEMMA FetchType ==
    ASSUME TypeOK, NEW r \in Roots, FetchSucceeds(r)
    PROVE  /\ update' \in UpdateState
           /\ proposerDuties' \in [Epochs -> SUBSET Duty]
           /\ dependentRoots' \in [Epochs -> Roots \cup {NoRoot}]
           /\ promised' \in SUBSET Duty
  <1> DEFINE e == update.fetching
             duties == [proposerDuties EXCEPT ![e] = DueDuties(DutiesOf(r, e))]
             roots == RootOf(r)
  <1>1. DueDuties(DutiesOf(r, e)) \in SUBSET Duty
    BY DutiesOfType DEF DueDuties
  <1>2. duties \in [Epochs -> SUBSET Duty] /\ roots \in [Epochs -> Roots \cup {NoRoot}]
    BY <1>1, UpdateStateTypes DEF TypeOK, RootOf
  <1>3. /\ update' = IF IsLast(e) THEN IdleUpdate(update.epoch)
                     ELSE [update EXCEPT !.fetching = e + 1]
        /\ proposerDuties' = IF IsLast(e) THEN Pruned(duties, {}) ELSE duties
        /\ dependentRoots' = IF IsLast(e) THEN Pruned(roots, NoRoot) ELSE roots
        /\ promised' \in SUBSET promised
    BY DEF FetchSucceeds
  <1> HIDE DEF duties, roots
  <1>4. /\ Pruned(duties, {}) \in [Epochs -> SUBSET Duty]
        /\ Pruned(roots, NoRoot) \in [Epochs -> Roots \cup {NoRoot}]
    BY <1>2 DEF Pruned
  <1>5. update' \in UpdateState
    <2>1. CASE IsLast(e)
      BY <1>3, <2>1, UpdateStateTypes
    <2>2. CASE ~IsLast(e)
      BY <1>3, <2>2, UpdateStateTypes DEF IsLast, TypeOK, UpdateState
    <2> QED
      BY <2>1, <2>2
  <1> QED
    BY <1>2, <1>3, <1>4, <1>5 DEF TypeOK

LEMMA UpdateType == TypeOK /\ UpdateStep => TypeOK'
  <1> SUFFICES ASSUME TypeOK, UpdateStep PROVE TypeOK'
    OBVIOUS
  <1>1. ASSUME NEW r \in Roots, HandleHeadEvent(r) PROVE TypeOK'
    BY <1>1 DEF TypeOK, HandleHeadEvent, envVars, tableVars, slotVars
  <1>2. CASE HandleReorgEvent
    BY <1>2 DEF TypeOK, HandleReorgEvent, envVars, tableVars, slotVars
  <1>3. CASE StartUpdate
    <2>1. update' \in UpdateState
      BY <1>3, UpdateStateTypes DEF StartUpdate, TypeOK
    <2> QED
      BY <1>3, <2>1 DEF TypeOK, StartUpdate, envVars, tableVars, slotVars
  <1>4. ASSUME NEW r \in Roots, FetchSucceeds(r) PROVE TypeOK'
    BY <1>4, FetchType DEF TypeOK, FetchSucceeds, envVars, slotVars
  <1>5. CASE FetchFails
    BY <1>5, UpdateStateTypes DEF TypeOK, FetchFails, envVars, tableVars, slotVars
  <1>6. CASE RetryUpdate
    <2>1. update' \in UpdateState
      BY <1>6, UpdateStateTypes DEF RetryUpdate
    <2> QED
      BY <1>6, <2>1 DEF TypeOK, RetryUpdate, envVars, tableVars, slotVars
  <1> QED
    BY <1>1, <1>2, <1>3, <1>4, <1>5, <1>6 DEF UpdateStep

\* Where the loop of shut_down goes on: to the slot of the first future proposal, to
\* an ongoing one, or to the next slot.
LEMMA NextWaitTypes ==
    ASSUME TypeOK, NextWait
    PROVE  /\ shutdown' \in ShutdownState
           /\ shutdown'.pc \in {"slot", "duty", "next slot"}
           /\ shutdown'.pc = "next slot" => ~HasUpcomingDuty
  <1>1. /\ currentSlot \in Slots /\ currentSlot \in DutySlots /\ currentSlot + 1 \in DutySlots
    BY SlotsHaveDuties DEF TypeOK
  <1>2. CASE HasUpcomingDuty
    <2>1. PICK s \in NextDutySlot :
              shutdown' = IF currentSlot < s THEN [pc |-> "slot", slot |-> s]
                          ELSE [pc |-> "duty", slot |-> currentSlot]
      BY <1>2 DEF NextWait
    <2>2. currentSlot < s => s \in DutySlots
      <3>1. CASE HasOngoingDuty
        BY <1>1, <3>1 DEF NextDutySlot, HasOngoingDuty, Slots
      <3>2. CASE ~HasOngoingDuty
        BY <3>2 DEF NextDutySlot, FutureSlots
      <3> QED
        BY <3>1, <3>2
    <2> QED
      BY <1>1, <1>2, <2>1, <2>2 DEF ShutdownState
  <1>3. CASE ~HasUpcomingDuty
    <2>1. shutdown' = [pc |-> "next slot", slot |-> currentSlot + 1]
      BY <1>3, Zenon DEF NextWait
    <2> QED
      BY <1>1, <1>3, <2>1 DEF ShutdownState
  <1> QED
    BY <1>2, <1>3

LEMMA ShutdownType == TypeOK /\ ShutdownStep => TypeOK'
  <1> SUFFICES ASSUME TypeOK, ShutdownStep PROVE TypeOK'
    OBVIOUS
  <1>1. currentSlot \in DutySlots
    BY SlotsHaveDuties DEF TypeOK
  <1>2. CASE StartShutdown
    <2>1. \A s \in Slots : DutiesForSlot(s) \in SUBSET Duty
      BY EpochOfSlot, DutiesForSlotType
    <2>2. promised' \in SUBSET Duty
      BY <1>2, <2>1 DEF StartShutdown, TypeOK
    <2>3. shutdown' \in ShutdownState
      BY <1>2, NextWaitTypes DEF StartShutdown
    <2> QED
      BY <1>2, <2>2, <2>3 DEF TypeOK, StartShutdown, envVars, tableVars, slotVars, updateVars
  <1>3. CASE ProposalSlotBegins \/ ProposalCompletes
    <2>1. shutdown' \in ShutdownState
      <3>1. CASE NextWait
        BY <3>1, NextWaitTypes
      <3>2. CASE shutdown' = [pc |-> "duty", slot |-> currentSlot]
        BY <1>1, <3>2 DEF ShutdownState
      <3> QED
        BY <1>3, <3>1, <3>2, Zenon DEF ProposalSlotBegins, ProposalCompletes
    <2> QED
      BY <1>3, <2>1
         DEF TypeOK, ProposalSlotBegins, ProposalCompletes, envVars, tableVars, slotVars, updateVars
  <1>4. CASE LastSlotBegins \/ LastDutyCompletes
    <2>1. shutdown' \in ShutdownState
      <3>1. CASE LastSlotBegins
        <4>1. \/ shutdown' = [pc |-> "down", slot |-> currentSlot]
              \/ shutdown' = [pc |-> "final", slot |-> currentSlot]
          BY <3>1, Zenon DEF LastSlotBegins
        <4>2. /\ [pc |-> "down", slot |-> currentSlot] \in ShutdownState
              /\ [pc |-> "final", slot |-> currentSlot] \in ShutdownState
          BY <1>1 DEF ShutdownState
        <4> QED
          BY <4>1, <4>2
      <3>2. CASE LastDutyCompletes
        BY <3>2 DEF LastDutyCompletes, ShutdownState, TypeOK
      <3> QED
        BY <1>4, <3>1, <3>2
    <2> QED
      BY <1>4, <2>1
         DEF TypeOK, LastSlotBegins, LastDutyCompletes, envVars, tableVars, slotVars, updateVars
  <1> QED
    BY <1>2, <1>3, <1>4 DEF ShutdownStep

LEMMA NextType == TypeOK /\ [Next]_vars => TypeOK'
  <1> SUFFICES ASSUME TypeOK, [Next]_vars PROVE TypeOK'
    OBVIOUS
  <1>1. CASE UNCHANGED vars
    BY <1>1 DEF vars, envVars, tableVars, slotVars, updateVars, TypeOK
  <1> QED
    BY <1>1, EnvironmentType, SlotType, UpdateType, ShutdownType DEF Next

\* The variables have their types: the slots and epochs of duties, reveals, updates
\* and waits stay within the tables across epoch boundaries.
THEOREM TypeCorrect == Spec => []TypeOK
  BY InitType, NextType, PTL DEF Spec

-----------------------------------------------------------------------------
(* Duties and dependent roots *)

LEMMA RootsInit == Init => DutiesMatchRoot
  <1> SUFFICES ASSUME Init, NEW e \in Epochs
      PROVE  IF dependentRoots[e] = NoRoot THEN proposerDuties[e] = {}
             ELSE proposerDuties[e] \subseteq DutiesOf(dependentRoots[e], e)
    BY DEF DutiesMatchRoot
  <1>1. proposerDuties = [x \in Epochs |-> IF dependentRoots[x] = NoRoot THEN {}
                                          ELSE DutiesOf(dependentRoots[x], x)]
    BY DEF Init
  <1> QED
    BY <1>1

LEMMA RootsNext == TypeOK /\ DutiesMatchRoot /\ [Next]_vars => DutiesMatchRoot'
  <1> SUFFICES ASSUME TypeOK, DutiesMatchRoot, [Next]_vars PROVE DutiesMatchRoot'
    OBVIOUS
  <1>1. CASE UNCHANGED tableVars
    BY <1>1 DEF DutiesMatchRoot, tableVars
  <1>2. ASSUME NEW t \in handlers, StartHandler(t) PROVE DutiesMatchRoot'
    <2>1. UNCHANGED dependentRoots
      BY <1>2 DEF StartHandler
    <2>2. \A e \in Epochs : proposerDuties'[e] \subseteq proposerDuties[e]
      BY <1>2, StartMoves DEF TypeOK
    <2> QED
      BY <2>1, <2>2 DEF DutiesMatchRoot
  <1>3. ASSUME NEW r \in Roots, FetchSucceeds(r) PROVE DutiesMatchRoot'
    <2> DEFINE f == update.fetching
               duties == [proposerDuties EXCEPT ![f] = DueDuties(DutiesOf(r, f))]
               roots == RootOf(r)
    <2>1. /\ proposerDuties' = IF IsLast(f) THEN Pruned(duties, {}) ELSE duties
          /\ dependentRoots' = IF IsLast(f) THEN Pruned(roots, NoRoot) ELSE roots
      BY <1>3 DEF FetchSucceeds
    <2>2. f \in Epochs /\ r # NoRoot
      BY UpdateStateTypes, NobodyAssumption
    <2>3. ASSUME NEW e \in Epochs
          PROVE  IF roots[e] = NoRoot THEN duties[e] = {}
                 ELSE duties[e] \subseteq DutiesOf(roots[e], e)
      <3>1. CASE e = f
        BY <2>2, <3>1 DEF RootOf, DueDuties, TypeOK
      <3>2. CASE e # f
        BY <2>2, <3>2 DEF RootOf, DutiesMatchRoot, TypeOK
      <3> QED
        BY <3>1, <3>2
    <2> HIDE DEF duties, roots
    <2>4. ASSUME NEW e \in Epochs
          PROVE  \/ proposerDuties'[e] = duties[e] /\ dependentRoots'[e] = roots[e]
                 \/ proposerDuties'[e] = {} /\ dependentRoots'[e] = NoRoot
      BY <2>1 DEF Pruned
    <2> QED
      BY <2>3, <2>4 DEF DutiesMatchRoot
  <1>4. CASE EnvironmentStep
    BY <1>1, <1>4
       DEF EnvironmentStep, AdvanceClock, ChangeIndices, DetectSlashing
  <1>5. CASE SlotStep
    BY <1>1, <1>2, <1>5
       DEF SlotStep, OnNewSlot, RevealForProposal, ProduceBlock, SignAndPublish, ProposalFails,
           RevealForNextSlot, PrepareBeaconProposer, PreparationFails
  <1>6. CASE UpdateStep
    BY <1>1, <1>3, <1>6
       DEF UpdateStep, HandleHeadEvent, HandleReorgEvent, StartUpdate, FetchFails, RetryUpdate
  <1>7. CASE ShutdownStep
    BY <1>1, <1>7
       DEF ShutdownStep, StartShutdown, ProposalSlotBegins, ProposalCompletes, LastSlotBegins,
           LastDutyCompletes
  <1> QED
    BY <1>1, <1>4, <1>5, <1>6, <1>7 DEF Next, vars

\* The duties of an epoch are duties under its recorded dependent root.
THEOREM DutiesUnderRoot == Spec => []DutiesMatchRoot
  <1>1. Init => TypeOK /\ DutiesMatchRoot
    BY InitType, RootsInit
  <1>2. TypeOK /\ DutiesMatchRoot /\ [Next]_vars => (TypeOK /\ DutiesMatchRoot)'
    BY NextType, RootsNext
  <1> QED
    BY <1>1, <1>2, PTL DEF Spec

-----------------------------------------------------------------------------
(* Slots of calls and proposals *)

\* Slots only grow from completed to started to the current slot, there is one
\* on_new_slot call per slot, and a proposal in progress is not completed.
SlotInv ==
    /\ ticked <= currentSlot
    /\ started <= currentSlot
    /\ completed <= started
    /\ \A t \in handlers : t.slot <= ticked
    /\ \A t1, t2 \in handlers : t1.slot = t2.slot => t1 = t2
    /\ \A t \in handlers : Proposing(t) => t.slot <= started /\ t.slot # completed


\* The calls after a step of t: the others, and possibly a later state of t.
LEMMA MovedMembers ==
    ASSUME TypeOK, NEW t \in handlers, Moved(t)
    PROVE  /\ \A u \in handlers' : (u \in handlers /\ u # t) \/ (u.slot = t.slot /\ u.pc # "start")
           /\ \A u \in handlers : u # t => u \in handlers'
  BY DEF Moved

LEMMA MovedSlots ==
    ASSUME TypeOK, SlotInv, NEW t \in handlers, Moved(t)
    PROVE  /\ \A u \in handlers' : u.slot <= ticked
           /\ \A t1, t2 \in handlers' : t1.slot = t2.slot => t1 = t2
  BY DEF SlotInv, Moved

LEMMA SlotNext == TypeOK /\ SlotInv /\ [Next]_vars => SlotInv'
  <1> SUFFICES ASSUME TypeOK, SlotInv, [Next]_vars PROVE SlotInv'
    OBVIOUS
  <1>a. /\ currentSlot \in Int /\ ticked \in Int /\ started \in Int /\ completed \in Int
        /\ \A t \in handlers : t.slot \in Int
    BY DEF TypeOK, Slots, Handler
  <1>1. CASE UNCHANGED <<currentSlot, ticked, handlers, slotVars>>
    BY <1>1 DEF SlotInv, slotVars, Proposing
  <1>2. CASE AdvanceClock
    BY <1>a, <1>2 DEF SlotInv, AdvanceClock, slotVars, Proposing
  <1>3. CASE OnNewSlot
    BY <1>a, <1>3 DEF SlotInv, OnNewSlot, TickDue, envVars, slotVars, Proposing
  <1>4. ASSUME NEW t \in handlers, StartHandler(t) PROVE SlotInv'
    <2>1. UNCHANGED <<currentSlot, ticked, completed>> /\ Moved(t)
      BY <1>4, StartMoves DEF StartHandler, envVars
    <2>2. CASE /\ \A u \in handlers' : Proposing(u) => u \in handlers /\ u # t
               /\ UNCHANGED started
      BY <1>a, <2>1, <2>2, MovedSlots DEF SlotInv
    <2>3. CASE MayPropose(t.slot) /\ started' = t.slot
      <3>1. t.slot > started /\ t.slot = currentSlot
        BY <2>3 DEF MayPropose
      <3>2. \A u \in handlers' : Proposing(u) => u.slot <= started' /\ u.slot # completed
        BY <1>a, <2>1, <2>3, <3>1, MovedMembers DEF SlotInv
      <3> QED
        BY <1>a, <2>1, <2>3, <3>1, <3>2, MovedSlots DEF SlotInv
    <2> QED
      BY <1>4, <2>2, <2>3, StartMoves
  <1>5. ASSUME NEW t \in handlers, RevealForProposal(t) \/ ProduceBlock(t) PROVE SlotInv'
    <2>1. UNCHANGED <<currentSlot, ticked, started, completed>> /\ Moved(t) /\ Proposing(t)
      BY <1>5, ProposalMoves DEF RevealForProposal, ProduceBlock, envVars, slotVars
    <2>2. \A u \in handlers' : Proposing(u) => u.slot <= started /\ u.slot # completed
      BY <2>1, MovedMembers DEF SlotInv
    <2> QED
      BY <2>1, <2>2, MovedSlots DEF SlotInv
  <1>6. ASSUME NEW t \in handlers, SignAndPublish(t) \/ ProposalFails(t) PROVE SlotInv'
    <2>1. /\ UNCHANGED <<currentSlot, ticked, started>> /\ completed' = t.slot /\ Moved(t)
          /\ Proposing(t)
      BY <1>6, ProposalEndMoves DEF SignAndPublish, ProposalFails, envVars
    <2>2. \A u \in handlers' : Proposing(u) => u.slot <= started /\ u.slot # completed'
      BY <1>6, <2>1, ProposalEndMoves DEF SlotInv
    <2> QED
      BY <2>1, <2>2, MovedSlots DEF SlotInv
  <1>7. ASSUME NEW t \in handlers,
               RevealForNextSlot(t) \/ PrepareBeaconProposer(t) \/ PreparationFails(t)
        PROVE  SlotInv'
    <2>1. UNCHANGED <<currentSlot, ticked, started, completed>> /\ Moved(t)
      BY <1>7, PreparationMoves
         DEF RevealForNextSlot, PrepareBeaconProposer, PreparationFails, envVars, slotVars
    <2>2. \A u \in handlers' : Proposing(u) => u.slot <= started /\ u.slot # completed
      BY <1>7, PreparationMoves DEF SlotInv
    <2> QED
      BY <2>1, <2>2, MovedSlots DEF SlotInv
  <1>8. CASE EnvironmentStep
    BY <1>1, <1>2, <1>8 DEF EnvironmentStep, ChangeIndices, DetectSlashing
  <1>9. CASE SlotStep
    BY <1>3, <1>4, <1>5, <1>6, <1>7, <1>9 DEF SlotStep
  <1>10. CASE UpdateStep \/ ShutdownStep
    BY <1>1, <1>10
       DEF UpdateStep, HandleHeadEvent, HandleReorgEvent, StartUpdate, FetchSucceeds, FetchFails,
           RetryUpdate, ShutdownStep, StartShutdown, ProposalSlotBegins, ProposalCompletes,
           LastSlotBegins, LastDutyCompletes, envVars
  <1> QED
    BY <1>1, <1>8, <1>9, <1>10 DEF Next, vars, envVars

-----------------------------------------------------------------------------
(* Promised proposals stay in the table until they are started *)

\* A promised duty is at most three slots ahead, and in the table until it is started.
PromiseInv ==
    \A d \in promised :
        /\ d.slot \in Slots
        /\ d.slot <= currentSlot + 3
        /\ d.slot > started /\ d.slot >= currentSlot => d \in proposerDuties[EpochOf(d.slot)]


\* The promises of a step, for duties within the horizon.
LEMMA PromisedTypes ==
    ASSUME TypeOK
    PROVE  /\ currentSlot \in Int /\ started \in Int /\ currentSlot \in Slots
           /\ \A d \in Duty : d.slot \in Int
           /\ \A s \in Slots : s \in Int /\ EpochOf(s) \in Epochs
           /\ \A s \in Slots : \A d \in DutiesForSlot(s) :
                 d \in Duty /\ d.slot = s /\ d \in proposerDuties[EpochOf(s)]
  <1>1. \A s \in Slots : EpochOf(s) \in Epochs
    BY EpochOfSlot
  <1>2. \A s \in Slots : \A d \in DutiesForSlot(s) :
            d \in Duty /\ d.slot = s /\ d \in proposerDuties[EpochOf(s)]
    BY <1>1 DEF DutiesForSlot, TypeOK
  <1>3. \A d \in Duty : d.slot \in Int
    BY DEF Duty, DutySlots
  <1> QED
    BY <1>1, <1>2, <1>3 DEF TypeOK, Slots

LEMMA PromiseFetch ==
    ASSUME TypeOK, SlotInv, PromiseInv, NEW r \in Roots, FetchSucceeds(r)
    PROVE  PromiseInv'
  <1> DEFINE f == update.fetching
             duties == [proposerDuties EXCEPT ![f] = DueDuties(DutiesOf(r, f))]
  <1>1. /\ proposerDuties' = IF IsLast(f) THEN Pruned(duties, {}) ELSE duties
        /\ promised' = {d \in promised :
              EpochOf(d.slot) = f /\ d.slot > started =>
                  Proposer(r, d.slot) = d.validator /\ d.validator \in update.indices}
        /\ UNCHANGED <<currentSlot, started>>
    BY DEF FetchSucceeds, envVars, slotVars
  <1>2. f \in Epochs /\ proposerDuties \in [Epochs -> SUBSET Duty] /\ promised \in SUBSET Duty
    BY UpdateStateTypes DEF TypeOK
  <1> SUFFICES ASSUME NEW d \in promised'
      PROVE  /\ d.slot \in Slots
             /\ d.slot <= currentSlot + 3
             /\ d.slot > started /\ d.slot >= currentSlot =>
                   d \in proposerDuties'[EpochOf(d.slot)]
    BY <1>1 DEF PromiseInv
  <1>3. /\ d \in promised /\ d \in Duty /\ d.slot \in Slots /\ d.slot <= currentSlot + 3
        /\ EpochOf(d.slot) \in Epochs
    BY <1>1, <1>2, PromisedTypes DEF PromiseInv
  <1>4. ASSUME d.slot > started, d.slot >= currentSlot
        PROVE  d \in proposerDuties'[EpochOf(d.slot)]
    <2>1. d \in duties[EpochOf(d.slot)]
      <3>1. CASE EpochOf(d.slot) = f
        <4>1. Proposer(r, d.slot) = d.validator /\ d.validator \in update.indices
          BY <1>1, <1>4, <3>1
        <4> QED
          BY <1>2, <1>3, <1>4, <3>1, <4>1 DEF DueDuties, DutiesOf
      <3>2. CASE EpochOf(d.slot) # f
        BY <1>2, <1>3, <1>4, <3>2 DEF PromiseInv
      <3> QED
        BY <3>1, <3>2
    <2>2. ~(EpochOf(d.slot) < EpochOf(currentSlot))
      <3>1. /\ currentSlot \in Nat /\ d.slot \in Nat /\ SlotsPerEpoch \in Nat \ {0}
        BY <1>3, SlotsPerEpochAssumption DEF TypeOK, Slots
      <3> QED
        BY <1>4, <3>1, Division DEF EpochOf
    <2> HIDE DEF duties
    <2> QED
      BY <1>1, <1>3, <2>1, <2>2 DEF Pruned
  <1> QED
    BY <1>3, <1>4

LEMMA PromiseNext == TypeOK /\ SlotInv /\ PromiseInv /\ [Next]_vars => PromiseInv'
  <1> SUFFICES ASSUME TypeOK, SlotInv, PromiseInv, [Next]_vars PROVE PromiseInv'
    OBVIOUS
  <1>a. promised \in SUBSET Duty
    BY DEF TypeOK
  <1>1. CASE UNCHANGED <<currentSlot, started, proposerDuties, promised>>
    BY <1>1 DEF PromiseInv
  <1>2. CASE AdvanceClock
    <2>1. /\ currentSlot' = currentSlot + 1 /\ UNCHANGED <<started, proposerDuties>>
          /\ promised' \subseteq promised \cup DutiesForSlot(currentSlot')
      BY <1>2 DEF AdvanceClock, tableVars, slotVars
    <2>2. currentSlot' \in Slots
      BY <1>2, MaxSlotAssumption DEF AdvanceClock, TypeOK, Slots
    <2>3. ASSUME NEW d \in promised
          PROVE  /\ d.slot \in Slots
                 /\ d.slot <= currentSlot' + 3
                 /\ d.slot > started' /\ d.slot >= currentSlot' =>
                       d \in proposerDuties'[EpochOf(d.slot)]
      BY <1>a, <2>1, PromisedTypes DEF PromiseInv
    <2>4. ASSUME NEW d \in DutiesForSlot(currentSlot')
          PROVE  /\ d.slot \in Slots
                 /\ d.slot <= currentSlot' + 3
                 /\ d \in proposerDuties'[EpochOf(d.slot)]
      BY <2>1, <2>2, PromisedTypes
    <2> QED
      BY <2>1, <2>3, <2>4 DEF PromiseInv
  <1>3. ASSUME NEW t \in handlers, StartHandler(t) PROVE PromiseInv'
    <2>1. UNCHANGED <<currentSlot, promised>>
      BY <1>3 DEF StartHandler, envVars
    <2>2. CASE MayPropose(t.slot) /\ started' = t.slot
      <3>1. t.slot > started /\ t.slot \in Slots
        BY <2>2 DEF MayPropose, TypeOK, Handler
      <3>2. PICK d \in DutiesForSlot(t.slot) :
                proposerDuties' = [proposerDuties EXCEPT ![EpochOf(t.slot)] = @ \ {d}]
        BY <1>3, <2>2, <3>1, StartMoves DEF TypeOK, Slots
      <3>3. d.slot = t.slot
        BY <3>1, PromisedTypes
      <3>4. \A x \in promised : x.slot > started' =>
                x.slot > started /\ (x \in proposerDuties[EpochOf(x.slot)] =>
                                        x \in proposerDuties'[EpochOf(x.slot)])
        <4> SUFFICES ASSUME NEW x \in promised, x.slot > started',
                            x \in proposerDuties[EpochOf(x.slot)]
                     PROVE  x \in proposerDuties'[EpochOf(x.slot)]
          BY <1>a, <2>2, <3>1, PromisedTypes
        <4>1. x # d /\ EpochOf(x.slot) \in Epochs
          BY <1>a, <2>2, <3>1, <3>3, PromisedTypes DEF PromiseInv
        <4> QED
          BY <3>2, <4>1 DEF TypeOK
      <3> QED
        BY <2>1, <3>4 DEF PromiseInv
    <2>3. CASE UNCHANGED <<proposerDuties, started>>
      BY <1>1, <2>1, <2>3
    <2> QED
      BY <1>3, <2>2, <2>3, StartMoves
  <1>4. CASE StartShutdown
    <2>1. /\ UNCHANGED <<currentSlot, started, proposerDuties>>
          /\ promised' = promised \cup
               UNION {DutiesForSlot(s) : s \in {s \in Slots : currentSlot < s /\ s <= currentSlot + 3}}
      BY <1>4 DEF StartShutdown, envVars, tableVars, slotVars
    <2>2. ASSUME NEW s \in Slots, s <= currentSlot + 3, NEW d \in DutiesForSlot(s)
          PROVE  /\ d.slot \in Slots
                 /\ d.slot <= currentSlot + 3
                 /\ d \in proposerDuties[EpochOf(d.slot)]
      BY <2>2, PromisedTypes
    <2>3. \A d \in promised' : d \in promised \/
              \E s \in Slots : s <= currentSlot + 3 /\ d \in DutiesForSlot(s)
      BY <2>1
    <2> QED
      BY <2>1, <2>2, <2>3 DEF PromiseInv
  <1>5. CASE EnvironmentStep
    BY <1>1, <1>2, <1>5
       DEF EnvironmentStep, ChangeIndices, DetectSlashing, tableVars, slotVars
  <1>6. CASE SlotStep
    BY <1>1, <1>3, <1>6
       DEF SlotStep, OnNewSlot, RevealForProposal, ProduceBlock, SignAndPublish, ProposalFails,
           RevealForNextSlot, PrepareBeaconProposer, PreparationFails, envVars, tableVars, slotVars
  <1>7. CASE UpdateStep
    BY <1>1, <1>7, PromiseFetch
       DEF UpdateStep, HandleHeadEvent, HandleReorgEvent, StartUpdate, FetchFails, RetryUpdate,
           envVars, tableVars, slotVars
  <1>8. CASE ShutdownStep
    BY <1>1, <1>4, <1>8
       DEF ShutdownStep, ProposalSlotBegins, ProposalCompletes, LastSlotBegins, LastDutyCompletes,
           envVars, tableVars, slotVars
  <1> QED
    BY <1>1, <1>5, <1>6, <1>7, <1>8 DEF Next, vars, envVars, tableVars, slotVars

-----------------------------------------------------------------------------
(* Promised proposals are started in their slot *)

\* Without a slashing, a promised proposal of the current slot was started or its
\* on_new_slot call is still to come, and those of past slots are over.
DueInv ==
    ~StopOnSlashing => \A d \in promised :
        /\ d.slot = currentSlot /\ started # currentSlot =>
              TickDue \/ \E t \in handlers : t.slot = currentSlot /\ t.pc = "start"
        /\ d.slot < currentSlot =>
              /\ d.slot <= started
              /\ \A t \in handlers : Proposing(t) => t.slot # d.slot


\* What DueInv says of one promised duty.
IsDue(d) ==
    /\ d.slot = currentSlot /\ started # currentSlot =>
          TickDue \/ \E t \in handlers : t.slot = currentSlot /\ t.pc = "start"
    /\ d.slot < currentSlot =>
          /\ d.slot <= started
          /\ \A t \in handlers : Proposing(t) => t.slot # d.slot

\* A step of a call that already started, or an end of one, leaves all duties due.
LEMMA DueMoved ==
    ASSUME TypeOK, SlotInv, NEW t \in handlers, Moved(t), t.pc # "start",
           UNCHANGED <<currentSlot, started, ticked>>,
           \A u \in handlers' : Proposing(u) =>
                \E w \in handlers : Proposing(w) /\ w.slot = u.slot,
           NEW d \in promised, IsDue(d)
    PROVE  IsDue(d)'
  <1>1. TickDue' = TickDue
    BY DEF TickDue
  <1>2. \A u \in handlers : u.pc = "start" => u \in handlers'
    BY MovedMembers
  <1> QED
    BY <1>1, <1>2 DEF IsDue

LEMMA DueNext == TypeOK /\ SlotInv /\ PromiseInv /\ DueInv /\ [Next]_vars => DueInv'
  <1> SUFFICES ASSUME TypeOK, SlotInv, PromiseInv, DueInv, [Next]_vars, ~StopOnSlashing',
                      NEW d \in promised'
               PROVE  IsDue(d)'
    BY DEF DueInv, IsDue
  <1>a. ~StopOnSlashing
    BY DEF StopOnSlashing, Next, EnvironmentStep, AdvanceClock, ChangeIndices, DetectSlashing,
           SlotStep, OnNewSlot, StartHandler, RevealForProposal, ProduceBlock, SignAndPublish,
           ProposalFails, RevealForNextSlot, PrepareBeaconProposer, PreparationFails, UpdateStep,
           HandleHeadEvent, HandleReorgEvent, StartUpdate, FetchSucceeds, FetchFails, RetryUpdate,
           ShutdownStep, StartShutdown, ProposalSlotBegins, ProposalCompletes, LastSlotBegins,
           LastDutyCompletes, vars, envVars
  <1>b. \A x \in promised : IsDue(x)
    BY <1>a DEF DueInv, IsDue
  <1>c. /\ currentSlot \in Int /\ ticked \in Int /\ started \in Int
        /\ promised \in SUBSET Duty /\ \A x \in Duty : x.slot \in Int
        /\ \A t \in handlers : t.slot \in Slots /\ t.slot \in Int
    BY PromisedTypes DEF TypeOK, Slots, Handler
  <1>1. CASE UNCHANGED <<currentSlot, started, ticked, handlers>> /\ d \in promised
    BY <1>b, <1>1 DEF IsDue, TickDue, Proposing
  <1>2. CASE AdvanceClock
    <2>1. /\ currentSlot' = currentSlot + 1 /\ UNCHANGED <<started, ticked, handlers>>
          /\ ~WorkDue /\ \A t \in handlers : ~Proposing(t)
          /\ d \in promised \/ d \in DutiesForSlot(currentSlot')
      BY <1>2 DEF AdvanceClock, slotVars
    <2>2. TickDue'
      BY <1>c, <2>1 DEF SlotInv, TickDue
    <2>3. ASSUME d.slot < currentSlot'
          PROVE  d.slot <= started' /\ \A t \in handlers' : Proposing(t)' => t.slot # d.slot
      <3>1. currentSlot' \in Slots
        BY <1>2, MaxSlotAssumption DEF AdvanceClock, TypeOK, Slots
      <3>2. d \in promised
        BY <1>c, <2>1, <2>3, <3>1, PromisedTypes
      <3>3. d.slot <= started
        <4>1. CASE d.slot = currentSlot
          BY <1>b, <1>c, <2>1, <3>2, <4>1 DEF IsDue, WorkDue, SlotInv
        <4>2. CASE d.slot < currentSlot
          BY <1>b, <3>2, <4>2 DEF IsDue
        <4> QED
          BY <1>c, <2>1, <2>3, <3>2, <4>1, <4>2
      <3> QED
        BY <2>1, <3>3 DEF Proposing
    <2> QED
      BY <2>2, <2>3 DEF IsDue
  <1>3. CASE OnNewSlot
    <2>1. /\ UNCHANGED <<currentSlot, started, promised>>
          /\ \E u \in handlers' : u.slot = currentSlot /\ u.pc = "start"
          /\ \A u \in handlers' : Proposing(u) => u \in handlers
      <3> DEFINE u == [slot |-> currentSlot, pc |-> "start", validator |-> NoValidator,
                       reveal |-> NoValidator]
      <3>1. u.slot = currentSlot /\ u.pc = "start" /\ ~Proposing(u)
        BY DEF Proposing
      <3>2. UNCHANGED <<currentSlot, started, promised>> /\ handlers' = handlers \cup {u}
        BY <1>3 DEF OnNewSlot, envVars, slotVars
      <3> HIDE DEF u
      <3> QED
        BY <3>1, <3>2
    <2> QED
      BY <1>b, <2>1 DEF IsDue, Proposing
  <1>4. ASSUME NEW t \in handlers, StartHandler(t) PROVE IsDue(d)'
    <2>1. UNCHANGED <<currentSlot, ticked, promised>> /\ Moved(t) /\ d \in promised
      BY <1>4, StartMoves DEF StartHandler, envVars
    <2>2. \A u \in handlers : u.pc = "start" /\ u # t => u \in handlers'
      BY <2>1, MovedMembers
    <2>3. CASE /\ ~MayPropose(t.slot) \/ DutiesForSlot(t.slot) = {}
               /\ \A u \in handlers' : Proposing(u) => u \in handlers /\ u # t
               /\ UNCHANGED <<proposerDuties, started>>
      <3>1. ASSUME d.slot = currentSlot, started # currentSlot PROVE t.slot # currentSlot
        <4> SUFFICES ASSUME t.slot = currentSlot PROVE FALSE
          OBVIOUS
        <4>1. started < currentSlot
          BY <1>c, <3>1 DEF SlotInv
        <4>2. MayPropose(t.slot)
          BY <1>a, <1>c, <4>1 DEF MayPropose
        <4>3. d \in DutiesForSlot(t.slot)
          BY <1>c, <2>1, <3>1, <4>1 DEF PromiseInv, DutiesForSlot
        <4> QED
          BY <2>3, <4>2, <4>3
      <3> QED
        BY <1>b, <2>1, <2>2, <2>3, <3>1 DEF IsDue, TickDue, Proposing
    <2>4. CASE MayPropose(t.slot) /\ started' = t.slot
      <3>1. t.slot = currentSlot /\ t.slot > started
        BY <2>4 DEF MayPropose
      <3>2. \A u \in handlers' : u.slot < currentSlot => u \in handlers
        BY <1>c, <2>1, <3>1, MovedMembers
      <3> QED
        BY <1>b, <1>c, <2>1, <2>4, <3>1, <3>2 DEF IsDue, Proposing
    <2> QED
      BY <1>4, <2>3, <2>4, StartMoves
  <1>5. ASSUME NEW t \in handlers, RevealForProposal(t) \/ ProduceBlock(t) PROVE IsDue(d)'
    <2>1. /\ UNCHANGED <<currentSlot, started, ticked, promised>> /\ Moved(t) /\ Proposing(t)
          /\ d \in promised
      BY <1>5, ProposalMoves DEF RevealForProposal, ProduceBlock, envVars, slotVars
    <2>2. t.pc # "start"
      BY <2>1 DEF Proposing
    <2>3. \A u \in handlers' : Proposing(u) => \E w \in handlers : Proposing(w) /\ w.slot = u.slot
      BY <2>1, MovedMembers
    <2> QED
      BY <1>b, <2>1, <2>2, <2>3, DueMoved
  <1>6. ASSUME NEW t \in handlers, SignAndPublish(t) \/ ProposalFails(t) PROVE IsDue(d)'
    <2>1. /\ UNCHANGED <<currentSlot, started, ticked, promised>> /\ Moved(t) /\ Proposing(t)
          /\ d \in promised
      BY <1>6, ProposalEndMoves DEF SignAndPublish, ProposalFails, envVars
    <2>2. t.pc # "start"
      BY <2>1 DEF Proposing
    <2>3. \A u \in handlers' : Proposing(u) => \E w \in handlers : Proposing(w) /\ w.slot = u.slot
      BY <1>6, ProposalEndMoves
    <2> QED
      BY <1>b, <2>1, <2>2, <2>3, DueMoved
  <1>7. ASSUME NEW t \in handlers,
               RevealForNextSlot(t) \/ PrepareBeaconProposer(t) \/ PreparationFails(t)
        PROVE  IsDue(d)'
    <2>1. /\ UNCHANGED <<currentSlot, started, ticked, promised>> /\ Moved(t) /\ t.pc # "start"
          /\ d \in promised
      BY <1>7, PreparationMoves
         DEF RevealForNextSlot, PrepareBeaconProposer, PreparationFails, envVars, slotVars
    <2>2. \A u \in handlers' : Proposing(u) => \E w \in handlers : Proposing(w) /\ w.slot = u.slot
      BY <1>7, PreparationMoves
    <2> QED
      BY <1>b, <2>1, <2>2, DueMoved
  <1>8. CASE StartShutdown
    <2>1. /\ UNCHANGED <<currentSlot, started, ticked, handlers>>
          /\ d \in promised \/ \E s \in Slots : currentSlot < s /\ d \in DutiesForSlot(s)
      BY <1>8 DEF StartShutdown, envVars, slotVars
    <2>2. CASE \E s \in Slots : currentSlot < s /\ d \in DutiesForSlot(s)
      <3>1. currentSlot < d.slot /\ d.slot \in Int
        BY <2>2, PromisedTypes
      <3> QED
        BY <1>c, <2>1, <3>1 DEF IsDue
    <2> QED
      BY <1>1, <2>1, <2>2
  <1>9. ASSUME NEW r \in Roots, FetchSucceeds(r) PROVE IsDue(d)'
    BY <1>1, <1>9 DEF FetchSucceeds, envVars, slotVars
  <1>10. CASE EnvironmentStep
    BY <1>1, <1>2, <1>10 DEF EnvironmentStep, ChangeIndices, DetectSlashing, slotVars
  <1>11. CASE SlotStep
    BY <1>3, <1>4, <1>5, <1>6, <1>7, <1>11 DEF SlotStep
  <1>12. CASE UpdateStep
    BY <1>1, <1>9, <1>12
       DEF UpdateStep, HandleHeadEvent, HandleReorgEvent, StartUpdate, FetchFails, RetryUpdate,
           envVars, slotVars
  <1>13. CASE ShutdownStep
    BY <1>1, <1>8, <1>13
       DEF ShutdownStep, ProposalSlotBegins, ProposalCompletes, LastSlotBegins, LastDutyCompletes,
           envVars, slotVars
  <1> QED
    BY <1>1, <1>10, <1>11, <1>12, <1>13 DEF Next, vars, envVars, slotVars

-----------------------------------------------------------------------------
(* shut_down does not abandon promised proposals *)

\* Once shut_down waits for the last slot, no promised proposal is in the future.  Once
\* it waits for the duty of that slot, nothing is promised any more if a proposal
\* outlasts its slot or shut_down does not notice in time that the duty completed.
ShutdownInv ==
    /\ shutdown.pc \in {"next slot", "final"} => \A d \in promised : d.slot <= currentSlot
    /\ shutdown.pc = "final" /\ shutdown.slot <= completed /\ completed < currentSlot =>
          promised = {}
    /\ shutdown.pc = "final" =>
          \A t \in handlers :
              Proposing(t) /\ shutdown.slot <= t.slot /\ t.slot < currentSlot => promised = {}

\* The loop of shut_down sees every duty of the next three slots.
LEMMA UpcomingFound ==
    ASSUME TypeOK, SlotInv, NEW s \in Slots, currentSlot < s, s <= currentSlot + 3,
           DutiesForSlot(s) # {}
    PROVE  HasUpcomingDuty
  <1>1. currentSlot \in Int /\ started \in Int /\ started <= currentSlot /\ s \in Int /\ s \in DutySlots
    BY SlotsHaveDuties DEF TypeOK, Slots, SlotInv
  <1>2. CASE HasOngoingDuty
    BY <1>1, <1>2 DEF HasUpcomingDuty, NextDutySlot
  <1>3. CASE ~HasOngoingDuty
    <2>1. /\ s \in FutureSlots
          /\ \A x \in FutureSlots : x \in Int /\ x > currentSlot
      BY <1>1 DEF FutureSlots, DutySlots
    <2>2. \E x \in FutureSlots : x <= currentSlot + 3 /\ \A y \in FutureSlots : x <= y
      <3>1. CASE currentSlot + 1 \in FutureSlots
        BY <1>1, <2>1, <3>1
      <3>2. CASE currentSlot + 1 \notin FutureSlots /\ currentSlot + 2 \in FutureSlots
        BY <1>1, <2>1, <3>2
      <3>3. CASE currentSlot + 1 \notin FutureSlots /\ currentSlot + 2 \notin FutureSlots
        BY <1>1, <2>1, <3>3
      <3> QED
        BY <3>1, <3>2, <3>3
    <2> QED
      BY <1>3, <2>2 DEF HasUpcomingDuty, NextDutySlot
  <1> QED
    BY <1>2, <1>3

\* Without upcoming duties, no promised duty is in the future.
LEMMA NothingUpcoming ==
    ASSUME TypeOK, SlotInv, PromiseInv, ~HasUpcomingDuty
    PROVE  \A d \in promised : d.slot <= currentSlot
  <1> SUFFICES ASSUME NEW d \in promised, ~(d.slot <= currentSlot) PROVE FALSE
    OBVIOUS
  <1>1. /\ d.slot \in Slots /\ d.slot \in Int /\ currentSlot \in Int /\ started \in Int
        /\ d.slot > currentSlot /\ d.slot <= currentSlot + 3 /\ started <= currentSlot
    BY PromisedTypes DEF PromiseInv, SlotInv, Slots
  <1>2. d \in DutiesForSlot(d.slot)
    BY <1>1 DEF PromiseInv, DutiesForSlot
  <1> QED
    BY <1>1, <1>2, UpcomingFound

\* A step that neither moves time nor shut_down, promises nothing, and lets no proposal
\* of a past slot begin, after which a completed slot was being proposed for.
LEMMA ShutdownKept ==
    ASSUME ShutdownInv, UNCHANGED <<currentSlot, shutdown>>, promised' \subseteq promised,
           \A u \in handlers' : Proposing(u) =>
              u.slot = currentSlot \/ \E w \in handlers : Proposing(w) /\ w.slot = u.slot,
           completed' = completed \/ \E w \in handlers : Proposing(w) /\ w.slot = completed',
           currentSlot \in Int
    PROVE  ShutdownInv'
  <1>1. ASSUME shutdown.pc = "final", shutdown.slot <= completed', completed' < currentSlot
        PROVE  promised' = {}
    BY <1>1 DEF ShutdownInv
  <1>2. ASSUME shutdown.pc = "final", NEW u \in handlers', Proposing(u),
               shutdown.slot <= u.slot, u.slot < currentSlot
        PROVE  promised' = {}
    BY <1>2 DEF ShutdownInv
  <1>3. shutdown.pc \in {"next slot", "final"} => \A d \in promised' : d.slot <= currentSlot
    BY DEF ShutdownInv
  <1> QED
    BY <1>1, <1>2, <1>3 DEF ShutdownInv, Proposing

LEMMA ShutdownNext ==
    TypeOK /\ SlotInv /\ PromiseInv /\ ShutdownInv /\ [Next]_vars => ShutdownInv'
  <1> SUFFICES ASSUME TypeOK, SlotInv, PromiseInv, ShutdownInv, [Next]_vars PROVE ShutdownInv'
    OBVIOUS
  <1>a. /\ currentSlot \in Int /\ completed \in Int /\ \A t \in handlers : t.slot \in Int
        /\ promised \in SUBSET Duty /\ \A d \in Duty : d.slot \in Int
    BY PromisedTypes DEF TypeOK, Slots, Handler
  <1>1. CASE UNCHANGED <<currentSlot, shutdown, completed, handlers>> /\ promised' \subseteq promised
    BY <1>a, <1>1, ShutdownKept
  <1>2. CASE AdvanceClock
    <2>1. /\ currentSlot' = currentSlot + 1 /\ UNCHANGED <<shutdown, completed, handlers>>
          /\ promised' = IF WorkDue \/ (\E t \in handlers : Proposing(t)) THEN {}
                         ELSE promised \cup DutiesForSlot(currentSlot')
      BY <1>2 DEF AdvanceClock, slotVars
    <2>2. currentSlot' \in Slots
      BY <1>2, MaxSlotAssumption DEF AdvanceClock, TypeOK, Slots
    <2>3. ASSUME shutdown.pc \in {"next slot", "final"}, NEW d \in promised'
          PROVE  d.slot <= currentSlot'
      <3>1. d \in promised \/ d \in DutiesForSlot(currentSlot')
        BY <2>1, <2>3
      <3>2. CASE d \in promised
        <4>1. d.slot <= currentSlot
          BY <2>3, <3>2 DEF ShutdownInv
        <4>2. d.slot \in Int
          BY <1>a, <3>2
        <4> QED
          BY <1>a, <2>1, <4>1, <4>2
      <3>3. CASE d \in DutiesForSlot(currentSlot')
        BY <1>a, <2>1, <2>2, <3>3, PromisedTypes
      <3> QED
        BY <3>1, <3>2, <3>3
    <2>4. shutdown.pc = "final" /\ shutdown.slot <= completed => promised' = {}
      <3> SUFFICES ASSUME shutdown.pc = "final", shutdown.slot <= completed PROVE promised' = {}
        OBVIOUS
      <3>1. shutdown.slot \in Int
        <4>1. shutdown.slot \in DutySlots
          BY DEF TypeOK, ShutdownState
        <4> QED
          BY <4>1 DEF DutySlots
      <3>2. WorkDue
        BY <1>a, <3>1 DEF WorkDue, ShutdownDue
      <3> QED
        BY <2>1, <3>2
    <2>5. (\E t \in handlers : Proposing(t)) => promised' = {}
      BY <2>1
    <2> QED
      BY <2>1, <2>3, <2>4, <2>5 DEF ShutdownInv, Proposing
  <1>3. CASE OnNewSlot
    <2>1. /\ UNCHANGED <<currentSlot, shutdown, completed, promised>>
          /\ \A u \in handlers' : Proposing(u) => u \in handlers
      BY <1>3 DEF OnNewSlot, envVars, slotVars, Proposing
    <2> QED
      BY <1>a, <2>1, ShutdownKept
  <1>4. ASSUME NEW t \in handlers, StartHandler(t) PROVE ShutdownInv'
    <2>1. UNCHANGED <<currentSlot, shutdown, completed, promised>> /\ Moved(t)
      BY <1>4, StartMoves DEF StartHandler, envVars
    <2>2. \A u \in handlers' : Proposing(u) =>
              u.slot = currentSlot \/ \E w \in handlers : Proposing(w) /\ w.slot = u.slot
      BY <1>4, <2>1, StartMoves, MovedMembers DEF MayPropose
    <2> QED
      BY <1>a, <2>1, <2>2, ShutdownKept
  <1>5. ASSUME NEW t \in handlers, RevealForProposal(t) \/ ProduceBlock(t) PROVE ShutdownInv'
    <2>1. /\ UNCHANGED <<currentSlot, shutdown, completed, promised>> /\ Moved(t) /\ Proposing(t)
      BY <1>5, ProposalMoves DEF RevealForProposal, ProduceBlock, envVars, slotVars
    <2>2. \A u \in handlers' : Proposing(u) => \E w \in handlers : Proposing(w) /\ w.slot = u.slot
      BY <2>1, MovedMembers
    <2> QED
      BY <1>a, <2>1, <2>2, ShutdownKept
  <1>6. ASSUME NEW t \in handlers, SignAndPublish(t) \/ ProposalFails(t) PROVE ShutdownInv'
    <2>1. /\ UNCHANGED <<currentSlot, shutdown, promised>> /\ completed' = t.slot /\ Proposing(t)
          /\ \A u \in handlers' : Proposing(u) => u \in handlers
      BY <1>6, ProposalEndMoves DEF SignAndPublish, ProposalFails, envVars
    <2> QED
      BY <1>a, <2>1, ShutdownKept
  <1>7. ASSUME NEW t \in handlers,
               RevealForNextSlot(t) \/ PrepareBeaconProposer(t) \/ PreparationFails(t)
        PROVE  ShutdownInv'
    <2>1. /\ UNCHANGED <<currentSlot, shutdown, completed, promised>>
          /\ \A u \in handlers' : Proposing(u) => u \in handlers
      BY <1>7, PreparationMoves
         DEF RevealForNextSlot, PrepareBeaconProposer, PreparationFails, envVars, slotVars
    <2> QED
      BY <1>a, <2>1, ShutdownKept
  <1>8. CASE StartShutdown
    <2>1. /\ UNCHANGED <<currentSlot>> /\ NextWait
          /\ promised' = promised \cup
               UNION {DutiesForSlot(s) : s \in {s \in Slots : currentSlot < s /\ s <= currentSlot + 3}}
      BY <1>8 DEF StartShutdown, envVars
    <2>2. shutdown'.pc # "final" /\ (shutdown'.pc = "next slot" => ~HasUpcomingDuty)
      BY <2>1, NextWaitTypes
    <2>3. ~HasUpcomingDuty => promised' = promised
      BY <2>1, UpcomingFound
    <2> QED
      BY <2>1, <2>2, <2>3, NothingUpcoming DEF ShutdownInv
  <1>9. CASE ProposalSlotBegins \/ ProposalCompletes
    <2>1. UNCHANGED <<currentSlot, promised>>
      BY <1>9 DEF ProposalSlotBegins, ProposalCompletes, envVars
    <2>2. shutdown'.pc # "final" /\ (shutdown'.pc = "next slot" => ~HasUpcomingDuty)
      <3>1. CASE ProposalSlotBegins
        <4>1. NextWait \/ shutdown' = [pc |-> "duty", slot |-> currentSlot]
          BY <3>1, Zenon DEF ProposalSlotBegins
        <4>2. CASE NextWait
          BY <4>2, NextWaitTypes
        <4>3. CASE shutdown' = [pc |-> "duty", slot |-> currentSlot]
          BY <4>3
        <4> QED
          BY <4>1, <4>2, <4>3
      <3>2. CASE ProposalCompletes
        BY <3>2, NextWaitTypes DEF ProposalCompletes
      <3> QED
        BY <1>9, <3>1, <3>2
    <2> QED
      BY <2>1, <2>2, NothingUpcoming DEF ShutdownInv
  <1>10. CASE LastSlotBegins
    <2>1. shutdown.pc = "next slot" /\ UNCHANGED <<currentSlot, promised, handlers, completed>>
      BY <1>10 DEF LastSlotBegins, envVars, slotVars
    <2>2. shutdown' = [pc |-> IF NothingToWaitFor THEN "down" ELSE "final",
                       slot |-> currentSlot]
      BY <1>10, Zenon DEF LastSlotBegins
    <2>3. shutdown'.slot = currentSlot
      BY <2>2, Zenon
    <2>4. \A d \in promised' : d.slot <= currentSlot'
      BY <2>1 DEF ShutdownInv
    <2>a. /\ shutdown'.slot = currentSlot' /\ shutdown'.slot \in Int /\ currentSlot' \in Int
          /\ completed' \in Int /\ \A t \in handlers' : t.slot \in Int
      BY <1>a, <2>1, <2>3
    <2>5. ~(shutdown'.slot <= completed' /\ completed' < currentSlot')
      BY <2>a
    <2>6. \A t \in handlers' : ~(shutdown'.slot <= t.slot /\ t.slot < currentSlot')
      BY <2>a
    <2> QED
      BY <2>4, <2>5, <2>6 DEF ShutdownInv
  <1>11. CASE LastDutyCompletes
    <2>1. shutdown'.pc = "down"
      BY <1>11 DEF LastDutyCompletes, TypeOK, ShutdownState
    <2> QED
      BY <2>1 DEF ShutdownInv
  <1>12. CASE EnvironmentStep
    BY <1>1, <1>2, <1>12 DEF EnvironmentStep, ChangeIndices, DetectSlashing, slotVars
  <1>13. CASE SlotStep
    BY <1>3, <1>4, <1>5, <1>6, <1>7, <1>13 DEF SlotStep
  <1>14. CASE UpdateStep
    BY <1>1, <1>14
       DEF UpdateStep, HandleHeadEvent, HandleReorgEvent, StartUpdate, FetchSucceeds, FetchFails,
           RetryUpdate, envVars, slotVars
  <1>15. CASE ShutdownStep
    BY <1>8, <1>9, <1>10, <1>11, <1>15 DEF ShutdownStep
  <1> QED
    BY <1>1, <1>12, <1>13, <1>14, <1>15 DEF Next, vars, envVars, slotVars

-----------------------------------------------------------------------------
(* The theorems *)

\* The inductive invariant of the two action properties.
IInv == TypeOK /\ SlotInv /\ PromiseInv /\ DueInv /\ ShutdownInv

LEMMA InitInv == Init => IInv
  <1> SUFFICES ASSUME Init PROVE IInv
    OBVIOUS
  <1>1. TypeOK
    BY InitType
  <1>2. SlotInv
    BY DEF Init, SlotInv
  <1>3. PromiseInv /\ DueInv
    BY DEF Init, PromiseInv, DueInv
  <1>4. ShutdownInv
    BY DEF Init, ShutdownInv
  <1> QED
    BY <1>1, <1>2, <1>3, <1>4 DEF IInv

LEMMA InvNext == IInv /\ [Next]_vars => IInv'
  BY NextType, SlotNext, PromiseNext, DueNext, ShutdownNext DEF IInv

\* The clock is the only one to change the current slot.
LEMMA ClockMoves ==
    ASSUME [Next]_vars, currentSlot' # currentSlot
    PROVE  AdvanceClock
  BY DEF Next, vars, envVars, EnvironmentStep, ChangeIndices, DetectSlashing,
         SlotStep, OnNewSlot, StartHandler, RevealForProposal, ProduceBlock, SignAndPublish,
         ProposalFails, RevealForNextSlot, PrepareBeaconProposer, PreparationFails,
         UpdateStep, HandleHeadEvent, HandleReorgEvent, StartUpdate, FetchSucceeds, FetchFails,
         RetryUpdate, ShutdownStep, StartShutdown, ProposalSlotBegins, ProposalCompletes,
         LastSlotBegins, LastDutyCompletes

\* Only shut_down moves on, at the end of its two waits, to the end of the program.
LEMMA ShutdownEnds ==
    ASSUME TypeOK, [Next]_vars, shutdown'.pc # shutdown.pc, shutdown'.pc = "down"
    PROVE  (LastSlotBegins /\ NothingToWaitFor) \/ LastDutyCompletes
  <1>1. CASE UNCHANGED shutdown
    BY <1>1
  <1>2. ~NextWait
    BY NextWaitTypes
  <1>3. CASE StartShutdown \/ ProposalCompletes
    BY <1>2, <1>3 DEF StartShutdown, ProposalCompletes
  <1>4. CASE ProposalSlotBegins
    <2>1. shutdown' = [pc |-> "duty", slot |-> currentSlot]
      BY <1>2, <1>4, Zenon DEF ProposalSlotBegins
    <2> QED
      BY <2>1
  <1>5. CASE LastSlotBegins
    <2>1. NothingToWaitFor \/ shutdown' = [pc |-> "final", slot |-> currentSlot]
      BY <1>5, Zenon DEF LastSlotBegins
    <2>2. shutdown' # [pc |-> "final", slot |-> currentSlot]
      OBVIOUS
    <2> QED
      BY <1>5, <2>1, <2>2
  <1>6. CASE EnvironmentStep \/ SlotStep \/ UpdateStep
    BY <1>1, <1>6
       DEF EnvironmentStep, AdvanceClock, ChangeIndices, DetectSlashing,
           SlotStep, OnNewSlot, StartHandler, RevealForProposal, ProduceBlock, SignAndPublish,
           ProposalFails, RevealForNextSlot, PrepareBeaconProposer, PreparationFails,
           UpdateStep, HandleHeadEvent, HandleReorgEvent, StartUpdate, FetchSucceeds, FetchFails,
           RetryUpdate
  <1> QED
    BY <1>1, <1>3, <1>4, <1>5, <1>6 DEF Next, ShutdownStep, vars

\* A proposal that is known when its slot begins and that no update takes away is started
\* before the next slot, if the event loop is not blocked and no slashing is detected.
THEOREM KnownStarted == Spec => KnownProposalsStarted
  <1>1. ASSUME IInv, [Next]_vars, currentSlot' # currentSlot, ~WorkDue, ~StopOnSlashing,
               NEW d \in promised, d.slot = currentSlot
        PROVE  started = currentSlot
    BY <1>1 DEF IInv, DueInv, WorkDue
  <1>2. IInv /\ [Next]_vars =>
           [currentSlot' # currentSlot /\ ~WorkDue /\ ~StopOnSlashing =>
                \A d \in promised : d.slot = currentSlot => started = currentSlot]_vars
    BY <1>1
  <1> QED
    BY <1>2, InitInv, InvNext, PTL DEF Spec, KnownProposalsStarted

\* When shutdown_event is set, every promised proposal was attempted and is over: past
\* ones by DueInv, those of the current slot because shut_down waited for them, and by
\* ShutdownInv there are no others.
THEOREM NothingAbandoned == Spec => NoProposalAbandoned
  <1>1. ASSUME IInv, [Next]_vars, shutdown.pc # shutdown'.pc, shutdown'.pc = "down",
               ~StopOnSlashing, NEW d \in promised
        PROVE  d.slot <= started /\ \A t \in handlers : Proposing(t) => t.slot # d.slot
    <2>a. /\ TypeOK /\ SlotInv /\ PromiseInv /\ DueInv /\ ShutdownInv
          /\ currentSlot \in Int /\ started \in Int /\ completed \in Int /\ d.slot \in Int
          /\ currentSlot \in Slots /\ \A t \in handlers : t.slot \in Int
      BY <1>1, PromisedTypes DEF IInv, TypeOK, Slots, Handler
    <2>b. shutdown.slot \in Int
      <3>1. shutdown.slot \in DutySlots
        BY <2>a DEF TypeOK, ShutdownState
      <3> QED
        BY <3>1 DEF DutySlots
    <2>1. CASE d.slot < currentSlot
      BY <1>1, <2>a, <2>1 DEF DueInv
    <2>2. CASE d.slot = currentSlot /\ completed = currentSlot
      BY <2>a, <2>2 DEF SlotInv
    <2>3. CASE LastSlotBegins /\ NothingToWaitFor
      <3>1. d.slot <= currentSlot
        BY <2>a, <2>3, <1>1 DEF LastSlotBegins, ShutdownInv
      <3>2. CASE d.slot = currentSlot /\ completed # currentSlot
        <4>1. DutiesForSlot(currentSlot) = {} /\ started # currentSlot /\ started <= currentSlot
          BY <2>a, <2>3, <3>2 DEF NothingToWaitFor, SlotInv
        <4>2. d \in DutiesForSlot(currentSlot)
          BY <1>1, <2>a, <3>2, <4>1 DEF PromiseInv, DutiesForSlot
        <4> QED
          BY <4>1, <4>2
      <3> QED
        BY <2>a, <2>1, <2>2, <3>1, <3>2
    <2>4. CASE LastDutyCompletes
      <3>1. shutdown.pc = "final" /\ completed >= shutdown.slot
        BY <2>4 DEF LastDutyCompletes
      <3>2. d.slot <= currentSlot
        BY <1>1, <2>a, <3>1 DEF ShutdownInv
      <3>3. ~(completed < currentSlot)
        BY <1>1, <2>a, <2>b, <3>1 DEF ShutdownInv
      <3>4. completed = currentSlot
        BY <2>a, <3>3 DEF SlotInv
      <3> QED
        BY <2>a, <2>1, <2>2, <3>2, <3>4
    <2> QED
      BY <1>1, <2>a, <2>3, <2>4, ShutdownEnds
  <1>2. IInv /\ [Next]_vars =>
           [shutdown.pc # shutdown'.pc /\ shutdown'.pc = "down" /\ ~StopOnSlashing =>
                \A d \in promised :
                    /\ d.slot <= started
                    /\ \A t \in handlers : Proposing(t) => t.slot # d.slot]_vars
    BY <1>1
  <1> QED
    BY <1>2, InitInv, InvNext, PTL DEF Spec, NoProposalAbandoned
=============================================================================
