---------------------------- MODULE SyncCommittee ----------------------------
(***************************************************************************)
(* services/sync_committee.py.                                             *)
(*                                                                         *)
(* The asyncio tasks are the produce_sync_message calls (of the deadline   *)
(* job of a slot and of head events), the preparations and jobs of         *)
(* contributions they create, the update_duties task and a                 *)
(* wait_for_duty_completion call of shut_down.  An action is the code      *)
(* between two awaits; time is counted in slots, whose thirds are in no    *)
(* property.  The committee that signs in a slot is that of the period of  *)
(* the next slot.                                                          *)
(***************************************************************************)
EXTENDS Integers

CONSTANTS
    Validators,         \* validators managed by this client
    Committee(_),       \* those of them in the committee of a sync period
    Heads,              \* blocks of head events
    NoHead,             \* the message of the deadline job: its block is asked for
    SlotsPerEpoch,      \* SLOTS_PER_EPOCH
    EpochsPerPeriod,    \* EPOCHS_PER_SYNC_COMMITTEE_PERIOD
    MaxSlot             \* bound: the last slot of a behaviour

Slots == 0..MaxSlot
EpochOf(slot) == slot \div SlotsPerEpoch
PeriodOfEpoch(epoch) == epoch \div EpochsPerPeriod
PeriodOf(slot) == PeriodOfEpoch(EpochOf(slot))
Periods == 0..PeriodOf(MaxSlot + 1)

ASSUME LengthsAssumption == SlotsPerEpoch \in Nat \ {0} /\ EpochsPerPeriod \in Nat \ {0}
ASSUME MaxSlotAssumption == MaxSlot \in Nat
ASSUME CommitteeAssumption == \A p \in Periods : Committee(p) \subseteq Validators
ASSUME NoHeadAssumption == NoHead \notin Heads

VARIABLES
    \* Environment
    currentSlot,        \* current_slot of BeaconChain
    indices,            \* validators the status tracker knows
    \* Slot ticker and scheduler
    ticked,             \* last slot the ticker called on_new_slot for
    jobs,               \* slots with a produce_sync_message job
    \* SyncCommitteeService
    syncDuties,         \* sync_duties: validators with duties in a period
    messages,           \* the running _produce_sync_message calls
    contributions,      \* the contributions being prepared or scheduled
    started,            \* _last_slot_duty_started_for
    completed,          \* _last_slot_duty_completed_for
    updateQueued,       \* an update_duties task was created and did not start yet
    update,             \* the update_duties call that holds the lock
    waiter,             \* a wait_for_duty_completion call
    \* History
    promised            \* the duties of the current slot were known when it began

envVars == <<currentSlot, indices>>
tickVars == <<ticked, jobs>>
messageVars == <<messages, contributions>>
slotVars == <<started, completed>>
updateVars == <<syncDuties, updateQueued, update>>
vars == <<envVars, tickVars, messageVars, slotVars, updateVars, waiter, promised>>

\* The committee whose members sign in a slot.
SigningPeriod(slot) == PeriodOf(slot + 1)

Message == [slot : Slots, head : Heads \cup {NoHead}, pc : {"root", "sign"},
            members : SUBSET Validators]
Contribution == [slot : Slots, head : Heads \cup {NoHead}, pc : {"prepare", "job"},
                 duties : SUBSET Validators]

\* The update_duties lock is free.
IdleUpdate == [pc |-> "idle", epoch |-> 0, indices |-> {}]
UpdateState == [pc : {"idle", "fetch", "backoff"}, epoch : 0..EpochOf(MaxSlot),
                indices : SUBSET Validators]

TypeOK ==
    /\ currentSlot \in Slots
    /\ indices \in SUBSET Validators
    /\ ticked \in Slots
    /\ jobs \in SUBSET Slots
    /\ syncDuties \in [Periods -> SUBSET Validators]
    /\ messages \in SUBSET Message
    /\ contributions \in SUBSET Contribution
    /\ started \in Slots \cup {-1}
    /\ completed \in Slots \cup {-1}
    /\ updateQueued \in BOOLEAN
    /\ update \in UpdateState
    /\ waiter \in [pc : {"idle", "waiting", "done"}, slot : Slots]
    /\ promised \in BOOLEAN

\* __aenter__ loaded the duties of the current period from the duty cache (those of
\* the validators an earlier run of the client had, or none) and created an update_duties task.  The service joins the ticker's handlers after
\* the tick of the current slot.
Init ==
    /\ currentSlot = 0
    /\ indices = Validators
    /\ ticked = 0
    /\ jobs = {}
    /\ \E D \in SUBSET Committee(0) :
          syncDuties = [p \in Periods |-> IF p = 0 THEN D ELSE {}]
    /\ messages = {}
    /\ contributions = {}
    /\ started = -1
    /\ completed = -1
    /\ updateQueued = TRUE
    /\ update = IdleUpdate
    /\ waiter = [pc |-> "idle", slot |-> 0]
    /\ promised = FALSE

-----------------------------------------------------------------------------
(* Time and the status tracker *)

TickDue == ticked < currentSlot
WorkDue == TickDue \/ jobs # {}

AdvanceClock ==
    /\ currentSlot < MaxSlot
    /\ currentSlot' = currentSlot + 1
    /\ promised' = (syncDuties[SigningPeriod(currentSlot')] # {})
    /\ UNCHANGED <<indices, tickVars, messageVars, slotVars, updateVars, waiter>>

ChangeIndices(idx) ==
    /\ idx # indices
    /\ indices' = idx
    /\ UNCHANGED <<currentSlot, tickVars, messageVars, slotVars, updateVars, waiter, promised>>

-----------------------------------------------------------------------------
(* Messages *)

\* on_new_slot: schedule the deadline job, update duties when an epoch begins.
OnNewSlot ==
    /\ TickDue
    /\ ticked' = currentSlot
    /\ jobs' = jobs \cup {currentSlot}
    /\ updateQueued' = (updateQueued \/ currentSlot % SlotsPerEpoch = 0)
    /\ UNCHANGED <<envVars, messageVars, slotVars, syncDuties, update, waiter, promised>>

\* The task of prepare_and_aggregate_sync_messages, with its copy of the duties.
Contribute(slot, head, duties) ==
    [slot |-> slot, head |-> head, pc |-> "prepare", duties |-> duties]

\* The early return and the error of produce_sync_message are not taken.
MayProduce(slot) == slot >= started /\ slot = currentSlot

\* Mutant of Members: the committee of the slot's own period.
MembersOfSlot(slot) == syncDuties[PeriodOf(slot)]

\* sync_committee_members.
Members(slot) == syncDuties[SigningPeriod(slot)]

\* produce_sync_message, up to its first await.
ProduceSyncMessage(slot, head) ==
    IF MayProduce(slot) /\ Members(slot) # {}
    THEN /\ started' = slot
         /\ messages' = messages \cup
               {[slot |-> slot, head |-> head, members |-> Members(slot),
                 pc |-> IF head = NoHead THEN "root" ELSE "sign"]}
         /\ contributions' = IF head = NoHead THEN contributions
                             ELSE contributions \cup {Contribute(slot, head, Members(slot))}
    ELSE UNCHANGED <<started, messages, contributions>>

\* The deadline job runs in its slot, or later.
RunDeadlineJob(slot) ==
    /\ slot \in jobs
    /\ jobs' = jobs \ {slot}
    /\ ProduceSyncMessage(slot, NoHead)
    /\ UNCHANGED <<envVars, ticked, completed, updateVars, waiter, promised>>

\* handle_head_event, which removes the job of the slot.  An event for another slot
\* than the current one changes nothing.
HandleHeadEvent(head) ==
    /\ jobs' = IF MayProduce(currentSlot) THEN jobs \ {currentSlot} ELSE jobs
    /\ ProduceSyncMessage(currentSlot, head)
    /\ UNCHANGED <<envVars, ticked, completed, updateVars, waiter, promised>>

\* _get_head_block_root returns: the task of the contributions is created with the
\* duties that are in the table now.
GetHeadBlockRoot(m) ==
    /\ m.pc = "root"
    /\ messages' = (messages \ {m}) \cup {[m EXCEPT !.pc = "sign"]}
    /\ contributions' = contributions \cup {Contribute(m.slot, m.head, Members(m.slot))}
    /\ UNCHANGED <<envVars, tickVars, slotVars, updateVars, waiter, promised>>

\* The call ends, by an error or with its messages published; the finally clause.
EndMessage(m) ==
    /\ messages' = messages \ {m}
    /\ completed' = m.slot
    /\ UNCHANGED <<envVars, tickVars, contributions, started, updateVars, waiter, promised>>

-----------------------------------------------------------------------------
(* Contributions *)

\* The selection proofs arrive and the job of the contributions is added.
PrepareContributions(c) ==
    /\ c.pc = "prepare"
    /\ contributions' = (contributions \ {c}) \cup {[c EXCEPT !.pc = "job"]}
    /\ UNCHANGED <<envVars, tickVars, messages, slotVars, updateVars, waiter, promised>>

\* A selection proof fails, or aggregate_sync_messages runs: it changes no state.
EndContributions(c) ==
    /\ contributions' = contributions \ {c}
    /\ UNCHANGED <<envVars, tickVars, messages, slotVars, updateVars, waiter, promised>>

-----------------------------------------------------------------------------
(* update_duties *)

\* handle_reorg_event of ValidatorDutyService.
HandleReorgEvent ==
    /\ updateQueued' = TRUE
    /\ UNCHANGED <<envVars, tickVars, messageVars, slotVars, syncDuties, update, waiter,
                   promised>>

\* Mutant of UpdateEpoch: the next epoch's duties, fetched ahead.
UpdateEpochNext == EpochOf(currentSlot) + 1

\* The one epoch duties are fetched for.
UpdateEpoch == EpochOf(currentSlot)

\* _update_duties begins: it returns at once without validators.
BeginUpdate ==
    update' = IF indices = {} THEN IdleUpdate
              ELSE [pc |-> "fetch", epoch |-> UpdateEpoch, indices |-> indices]

\* A task created for update_duties starts; it returns if the lock is held.
StartUpdate ==
    /\ updateQueued
    /\ updateQueued' = FALSE
    /\ IF update.pc # "idle" THEN UNCHANGED update ELSE BeginUpdate
    /\ UNCHANGED <<envVars, tickVars, messageVars, slotVars, syncDuties, waiter, promised>>

\* The period the duties were asked for.
FetchedPeriod == PeriodOfEpoch(update.epoch)

\* Fetched duties replace those of their period, unless there are none.
Stored(duties) ==
    IF duties = {} THEN syncDuties ELSE [syncDuties EXCEPT ![FetchedPeriod] = duties]

\* Mutant of Pruned: the current period is taken for a past one.
PrunedCurrent(table) == [p \in Periods |-> IF p <= PeriodOf(currentSlot) THEN {} ELSE table[p]]

\* _prune_duties.
Pruned(table) == [p \in Periods |-> IF p < PeriodOf(currentSlot) THEN {} ELSE table[p]]

\* The response arrives; the update prunes and releases the lock.
FetchSucceeds ==
    /\ update.pc = "fetch"
    /\ syncDuties' = Pruned(Stored(Committee(FetchedPeriod) \cap update.indices))
    /\ update' = IdleUpdate
    /\ UNCHANGED <<envVars, tickVars, messageVars, slotVars, updateQueued, waiter, promised>>

\* The request failed: sleep before the next attempt.
FetchFails ==
    /\ update.pc = "fetch"
    /\ update' = [update EXCEPT !.pc = "backoff", !.indices = {}]
    /\ UNCHANGED <<envVars, tickVars, messageVars, slotVars, syncDuties, updateQueued, waiter,
                   promised>>

\* The sleep ends: try again while the epoch lasts, else release the lock.
RetryUpdate ==
    /\ update.pc = "backoff"
    /\ IF EpochOf(currentSlot) = update.epoch THEN BeginUpdate ELSE update' = IdleUpdate
    /\ UNCHANGED <<envVars, tickVars, messageVars, slotVars, syncDuties, updateQueued, waiter,
                   promised>>

-----------------------------------------------------------------------------
(* wait_for_duty_completion *)

HasDutyForSlot(slot) == syncDuties[PeriodOf(slot)] # {}

StartWait ==
    /\ waiter.pc = "idle"
    /\ waiter' = [slot |-> currentSlot,
                  pc |-> IF \/ completed = currentSlot
                            \/ ~HasDutyForSlot(currentSlot) /\ started # currentSlot
                         THEN "done" ELSE "waiting"]
    /\ UNCHANGED <<envVars, tickVars, messageVars, slotVars, updateVars, promised>>

\* The 10ms poll.
EndWait ==
    /\ waiter.pc = "waiting"
    /\ completed >= waiter.slot
    /\ waiter' = [waiter EXCEPT !.pc = "done"]
    /\ UNCHANGED <<envVars, tickVars, messageVars, slotVars, updateVars, promised>>

-----------------------------------------------------------------------------

MessageStep ==
    \/ OnNewSlot
    \/ \E slot \in jobs : RunDeadlineJob(slot)
    \/ \E h \in Heads : HandleHeadEvent(h)
    \/ \E m \in messages : GetHeadBlockRoot(m) \/ EndMessage(m)

ContributionStep == \E c \in contributions : PrepareContributions(c) \/ EndContributions(c)

UpdateStep ==
    \/ HandleReorgEvent
    \/ StartUpdate
    \/ FetchSucceeds \/ FetchFails
    \/ RetryUpdate

Next ==
    \/ AdvanceClock
    \/ \E idx \in SUBSET Validators : ChangeIndices(idx)
    \/ MessageStep
    \/ ContributionStep
    \/ UpdateStep
    \/ StartWait \/ EndWait

Spec == Init /\ [][Next]_vars

-----------------------------------------------------------------------------
(* Properties *)

\* Signatures of messages and contributions are requested only for members of the
\* committee that signs in the slot, which at the end of a period is the next one's,
\* whatever was fetched, kept and pruned when.
SignersAreMembers ==
    /\ \A m \in messages : m.members \subseteq Committee(SigningPeriod(m.slot))
    /\ \A c \in contributions : c.duties \subseteq Committee(SigningPeriod(c.slot))

\* If the duties of a slot were known when it began, a message was started for the slot
\* when it ends and neither its tick nor its job is outstanding: no update, pruning or
\* head event that takes the job away comes in between.
KnownDutiesStarted ==
    [][currentSlot' # currentSlot /\ promised /\ ~WorkDue => started = currentSlot]_vars
=============================================================================
