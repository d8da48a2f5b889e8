------------------------- MODULE AttestationService -------------------------
(***************************************************************************)
(* services/attestation.py and the ValidatorDutyService it extends.        *)
(*                                                                         *)
(* One AttestationService runs these asyncio tasks, which interleave only  *)
(* at their awaits:                                                        *)
(*   - the slot ticker, which schedules the attestation deadline job of a  *)
(*     slot and updates duties at the start of an epoch;                   *)
(*   - the deadline job of a slot (1/3 into it) and the head events, either *)
(*     of which may start attesting to the slot;                           *)
(*   - the attesting tasks: produce AttestationData, sign, publish;        *)
(*   - the aggregation jobs (2/3 into the slot);                           *)
(*   - the update_duties task, which retries until it succeeds or the      *)
(*     epoch ends;                                                         *)
(*   - a task that waits for the duty of a slot (shutdown).                *)
(*                                                                         *)
(* An action is the code between two awaits.  Time is counted in thirds of *)
(* a slot, SECONDS_PER_INTERVAL.  AttestationData is left out: how it is   *)
(* agreed on is AttestationConsensus and AttestationData.                  *)
(***************************************************************************)
EXTENDS Integers, Sequences, FiniteSets

CONSTANTS
    Validators,                 \* validators managed by this client
    Aggregators,                \* those whose selection proof makes them aggregators
    Roots,                      \* duty dependent roots the beacon nodes may report
    NoRoot,                     \* no duties were processed for an epoch
    Schedule(_, _, _),          \* slot of a validator in an epoch under a root (beacon node)
    SlotsPerEpoch,              \* SLOTS_PER_EPOCH
    MaxSlot,                    \* bound: the last slot of a behaviour
    Environment,                \* what the environment does, see EnvironmentSwitches
    DisableSlashingDetection    \* --disable-slashing-detection

\* "lag": the event loop may be blocked while work is due;
\* "status": active_or_pending_indices changes; "slashing": one is detected;
\* "early": head events may arrive one slot early; "reorg": reorg events arrive;
\* "failures": requests for duties and selection proofs may fail;
\* "shutdown": a task waits for the completion of a duty.
EnvironmentSwitches ==
    {"lag", "status", "slashing", "early", "reorg", "failures", "shutdown"}

Slots == 0..MaxSlot
EpochOf(slot) == slot \div SlotsPerEpoch
\* Epochs with duties: up to the one after the last.
Epochs == 0..(EpochOf(MaxSlot) + 1)
\* The slots duties may be for.
DutySlots == 0..((EpochOf(MaxSlot) + 2) * SlotsPerEpoch - 1)

ASSUME SlotsPerEpochAssumption == SlotsPerEpoch \in Nat \ {0}
ASSUME MaxSlotAssumption == MaxSlot \in Nat
ASSUME ScheduleAssumption ==
    \A r \in Roots, e \in Epochs, v \in Validators :
        Schedule(r, e, v) \in e * SlotsPerEpoch .. ((e + 1) * SlotsPerEpoch - 1)
ASSUME NoRootAssumption == NoRoot \notin Roots
ASSUME SwitchAssumption ==
    /\ Environment \subseteq EnvironmentSwitches
    /\ DisableSlashingDetection \in BOOLEAN

VARIABLES
    \* Environment
    clock,              \* time, in thirds of a slot
    indices,            \* active_or_pending_indices of the status tracker
    slashingDetected,   \* slashing_detected of the status tracker
    \* Slot ticker and scheduler
    ticked,             \* last slot on_new_slot ran for
    deadlineJobs,       \* slots with a scheduled attest_if_not_yet_attested job
    aggregateJobs,      \* scheduled aggregate_attestations jobs
    \* AttestationService
    attesterDuties,     \* attester_duties
    dependentRoots,     \* attester_duties_dependent_roots
    started,            \* _last_slot_duty_started_for
    completed,          \* _last_slot_duty_completed_for
    attests,            \* the running _attest calls
    updateQueued,       \* an update_duties task was created and did not start yet
    update,             \* the update_duties call that holds the lock
    waiter,             \* the wait_for_duty_completion call
    \* History
    asked,              \* how often an attestation signature was requested for a duty
    promised            \* this slot's duties, in the table since the slot began

envVars == <<clock, indices, slashingDetected>>
jobVars == <<ticked, deadlineJobs, aggregateJobs>>
tableVars == <<attesterDuties, dependentRoots>>
updateVars == <<updateQueued, update>>
attestVars == <<started, completed, attests>>
historyVars == <<asked, promised>>
vars == <<envVars, jobVars, tableVars, updateVars, attestVars, waiter, historyVars>>

CurrentSlot == clock \div 3
CurrentEpoch == EpochOf(CurrentSlot)

\* AttesterDutyWithSelectionProof; its root is the dependent root it came with.
Duty == [validator : Validators, slot : DutySlots, root : Roots]

\* get_attester_duties: the response of a beacon node for these indices.
DutiesOf(root, epoch, idx) ==
    {[validator |-> v, slot |-> Schedule(root, epoch, v), root |-> root] : v \in idx}

\* The update_duties lock is free; epoch is that of the last call.
IdleUpdate(epoch) ==
    [pc |-> "idle", epoch |-> epoch, indices |-> {},
     fetching |-> 0, root |-> NoRoot, batches |-> <<>>]

UpdateState ==
    [pc : {"idle", "fetch", "proofs", "backoff"}, epoch : 0..EpochOf(MaxSlot),
     indices : SUBSET Validators, fetching : Epochs,
     root : Roots \cup {NoRoot}, batches : Seq(SUBSET Duty)]
Attest == [slot : Slots, pc : {"produce", "sign"}, duties : SUBSET Duty]

TypeOK ==
    /\ clock \in 0..(3 * MaxSlot + 2)
    /\ indices \in SUBSET Validators
    /\ slashingDetected \in BOOLEAN
    /\ ticked \in Slots
    /\ deadlineJobs \in SUBSET Slots
    /\ aggregateJobs \in SUBSET [slot : Slots, duties : SUBSET Duty]
    /\ attesterDuties \in [Epochs -> SUBSET Duty]
    /\ dependentRoots \in [Epochs -> Roots \cup {NoRoot}]
    /\ started \in Slots \cup {-1}
    /\ completed \in Slots \cup {-1}
    /\ attests \in SUBSET Attest
    /\ updateQueued \in BOOLEAN
    /\ update \in UpdateState
    /\ waiter \in [pc : {"idle", "waiting", "done"}, slot : Slots]
    /\ asked \in [Duty -> Nat]
    /\ promised \in SUBSET Duty

\* __aenter__ loaded what an earlier run of the client left in the duty cache, if
\* anything, and created an update_duties task.  __aexit__ saves the table as it is,
\* also in the middle of an update, and in two files; keys come and go between the
\* runs: the duties loaded for an epoch need not be those of the root recorded for
\* it, nor those of all validators.  The service joins the ticker's handlers after
\* the tick of the current slot.
Init ==
    /\ clock = 0
    /\ indices = Validators
    /\ slashingDetected = FALSE
    /\ ticked = 0
    /\ deadlineJobs = {}
    /\ aggregateJobs = {}
    /\ \E r \in [{0, 1} -> Roots], idx \in [{0, 1} -> SUBSET Validators] :
           attesterDuties = [e \in Epochs |->
               IF e \in {0, 1} THEN DutiesOf(r[e], e, idx[e]) ELSE {}]
    /\ dependentRoots \in {f \in [Epochs -> Roots \cup {NoRoot}] :
                              \A e \in Epochs : e > 1 => f[e] = NoRoot}
    /\ started = -1
    /\ completed = -1
    /\ attests = {}
    /\ updateQueued = TRUE
    /\ update = IdleUpdate(0)
    /\ waiter = [pc |-> "idle", slot |-> 0]
    /\ asked = [d \in Duty |-> 0]
    /\ promised = {}

-----------------------------------------------------------------------------
(* Time and the status tracker *)

\* _get_duties_for_slot without the removal.
DutiesInTable(slot) == {d \in attesterDuties[EpochOf(slot)] : d.slot = slot}

DeadlineDue(slot) == slot \in deadlineJobs /\ clock >= 3 * slot + 1
AggregationDue(job) == job \in aggregateJobs /\ clock >= 3 * job.slot + 2
TickDue == ticked < CurrentSlot
\* The wait_for around producing AttestationData ends with the slot.
TimedOut(t) == t.pc = "produce" /\ t.slot < CurrentSlot

WorkDue ==
    \/ TickDue
    \/ \E t \in attests : TimedOut(t)
    \/ \E s \in deadlineJobs : DeadlineDue(s)
    \/ \E j \in aggregateJobs : AggregationDue(j)

AdvanceClock ==
    /\ clock < 3 * MaxSlot + 2
    /\ "lag" \notin Environment => ~WorkDue
    /\ clock' = clock + 1
    /\ promised' = IF CurrentSlot' # CurrentSlot THEN DutiesInTable(CurrentSlot')
                   ELSE promised
    /\ UNCHANGED <<indices, slashingDetected, jobVars, tableVars, updateVars, attestVars,
                   waiter, asked>>

ChangeIndices(idx) ==
    /\ "status" \in Environment
    /\ idx # indices
    /\ indices' = idx
    /\ UNCHANGED <<clock, slashingDetected, jobVars, tableVars, updateVars, attestVars,
                   waiter, historyVars>>

DetectSlashing ==
    /\ "slashing" \in Environment
    /\ ~slashingDetected
    /\ slashingDetected' = TRUE
    /\ UNCHANGED <<clock, indices, jobVars, tableVars, updateVars, attestVars,
                   waiter, historyVars>>

-----------------------------------------------------------------------------
(* Triggers: the tick, the deadline job, head and reorg events *)

\* Mutant of OnNewSlot: duties are updated instead of, not besides, scheduling.
OnNewSlotEither ==
    /\ TickDue
    /\ ticked' = CurrentSlot
    /\ IF CurrentSlot % SlotsPerEpoch = 0
       THEN updateQueued' = TRUE /\ UNCHANGED deadlineJobs
       ELSE deadlineJobs' = deadlineJobs \cup {CurrentSlot} /\ UNCHANGED updateQueued
    /\ UNCHANGED <<envVars, aggregateJobs, tableVars, update, attestVars, waiter, historyVars>>

\* on_new_slot.  The ticker reads the current slot: a tick the event loop was
\* too busy for is skipped.
OnNewSlot ==
    /\ TickDue
    /\ ticked' = CurrentSlot
    /\ deadlineJobs' = deadlineJobs \cup {CurrentSlot}
    /\ updateQueued' = (updateQueued \/ CurrentSlot % SlotsPerEpoch = 0)
    /\ UNCHANGED <<envVars, aggregateJobs, tableVars, update, attestVars, waiter, historyVars>>

StopOnSlashing == slashingDetected /\ ~DisableSlashingDetection

\* Mutant of MayAttest: without the check of the last slot attesting started for.
MayAttestAgain(slot) == ~StopOnSlashing /\ slot = CurrentSlot

\* None of the three errors of attest_if_not_yet_attested is raised.
MayAttest(slot) == ~StopOnSlashing /\ slot > started /\ slot = CurrentSlot

\* attest_if_not_yet_attested up to its first await.  Without a duty for the
\* slot it at most produces AttestationData to warm the checkpoint cache.
AttestIfNotYetAttested(slot) ==
    IF ~MayAttest(slot) \/ DutiesInTable(slot) = {}
    THEN UNCHANGED <<attesterDuties, attestVars>>
    ELSE /\ attesterDuties' = [attesterDuties EXCEPT ![EpochOf(slot)] =
                                  @ \ DutiesInTable(slot)]
         /\ started' = slot
         /\ attests' = attests \cup {[slot |-> slot, pc |-> "produce",
                                      duties |-> DutiesInTable(slot)]}
         /\ UNCHANGED completed

\* Mutant of RunDeadlineJob: the scheduler drops a job it is late for.
RunDeadlineJobInTime(slot) ==
    /\ DeadlineDue(slot)
    /\ deadlineJobs' = deadlineJobs \ {slot}
    /\ IF clock = 3 * slot + 1 THEN AttestIfNotYetAttested(slot)
       ELSE UNCHANGED <<attesterDuties, attestVars>>
    /\ UNCHANGED <<envVars, ticked, aggregateJobs, dependentRoots, updateVars, waiter, historyVars>>

\* The scheduler runs the job of a slot; it has no misfire limit, so however late.
RunDeadlineJob(slot) ==
    /\ DeadlineDue(slot)
    /\ deadlineJobs' = deadlineJobs \ {slot}
    /\ AttestIfNotYetAttested(slot)
    /\ UNCHANGED <<envVars, ticked, aggregateJobs, dependentRoots, updateVars, waiter, historyVars>>

\* handle_head_event for the first event of a block.  EventConsumerService drops
\* events for old slots; a beacon node whose clock is ahead may be a slot early.
HandleHeadEvent(slot, previousRoot, currentRoot) ==
    /\ \/ slot = CurrentSlot
       \/ slot = CurrentSlot + 1 /\ "early" \in Environment
    /\ updateQueued' = (updateQueued \/
          \E r \in {previousRoot, currentRoot} : \A e \in Epochs : dependentRoots[e] # r)
    /\ IF slot <= started
       THEN UNCHANGED <<deadlineJobs, attesterDuties, attestVars>>
       ELSE /\ deadlineJobs' = deadlineJobs \ {slot}
            /\ AttestIfNotYetAttested(slot)
    /\ UNCHANGED <<envVars, ticked, aggregateJobs, dependentRoots, update, waiter, historyVars>>

\* ValidatorDutyService.handle_reorg_event.
HandleReorgEvent ==
    /\ "reorg" \in Environment
    /\ updateQueued' = TRUE
    /\ UNCHANGED <<envVars, jobVars, tableVars, update, attestVars, waiter, historyVars>>

-----------------------------------------------------------------------------
(* Attesting *)

\* _produce_attestation_data succeeded.  The aggregation job is scheduled, then
\* the signatures of all duties are requested at once.  A blocked event loop may
\* resume the task after its slot.
ProduceSucceeds(t) ==
    /\ t \in attests /\ t.pc = "produce"
    /\ TimedOut(t) => "lag" \in Environment
    /\ attests' = (attests \ {t}) \cup {[t EXCEPT !.pc = "sign"]}
    /\ aggregateJobs' = aggregateJobs \cup
          {[slot |-> t.slot, duties |-> {d \in t.duties : d.validator \in Aggregators}]}
    /\ asked' = [d \in Duty |-> IF d \in t.duties THEN asked[d] + 1 ELSE asked[d]]
    /\ UNCHANGED <<envVars, ticked, deadlineJobs, tableVars, updateVars, started, completed,
                   waiter, promised>>

\* Mutant of Finish: no finally clause.
FinishWithoutCompleting(t) ==
    /\ attests' = attests \ {t}
    /\ UNCHANGED completed

\* The finally clause of attest_if_not_yet_attested.
Finish(t) ==
    /\ attests' = attests \ {t}
    /\ completed' = t.slot

\* No consensus by the end of the slot, or a checkpoint in the future.
ProduceFails(t) ==
    /\ t \in attests /\ t.pc = "produce"
    /\ Finish(t)
    /\ UNCHANGED <<envVars, jobVars, tableVars, updateVars, started, waiter, historyVars>>

\* The signatures arrived (duties whose signature failed are left out) and
\* _publish_attestations returned or raised.
SignAndPublish(t) ==
    /\ t \in attests /\ t.pc = "sign"
    /\ Finish(t)
    /\ UNCHANGED <<envVars, jobVars, tableVars, updateVars, started, waiter, historyVars>>

\* aggregate_attestations: the aggregates are fetched and signed, or that fails.
Aggregate(job) ==
    /\ AggregationDue(job)
    /\ aggregateJobs' = aggregateJobs \ {job}
    /\ UNCHANGED <<envVars, ticked, deadlineJobs, tableVars, updateVars, attestVars,
                   waiter, historyVars>>

-----------------------------------------------------------------------------
(* update_duties *)

\* _update_duties begins: it returns at once without validators.
BeginUpdate ==
    IF indices = {}
    THEN update' = IdleUpdate(CurrentEpoch)
    ELSE update' = [IdleUpdate(CurrentEpoch) EXCEPT
                       !.pc = "fetch", !.indices = indices, !.fetching = CurrentEpoch]

\* A task created for update_duties starts; it returns if the lock is held.
StartUpdate ==
    /\ updateQueued
    /\ updateQueued' = FALSE
    /\ IF update.pc # "idle" THEN UNCHANGED update ELSE BeginUpdate
    /\ UNCHANGED <<envVars, jobVars, tableVars, attestVars, waiter, historyVars>>

\* _prune_duties.
Pruned(table, absent) == [e \in Epochs |-> IF e < CurrentEpoch THEN absent ELSE table[e]]

\* Mutant of EpochDone: one epoch too many.
EpochDoneLate(duties, roots) ==
    IF update.fetching <= update.epoch + 1
    THEN /\ update' = [update EXCEPT !.pc = "fetch", !.fetching = @ + 1,
                                     !.root = NoRoot, !.batches = <<>>]
         /\ attesterDuties' = duties
         /\ dependentRoots' = roots
    ELSE /\ update' = IdleUpdate(update.epoch)
         /\ attesterDuties' = Pruned(duties, {})
         /\ dependentRoots' = Pruned(roots, NoRoot)

\* An epoch is dealt with, leaving these tables: fetch the next one, or prune,
\* return and release the lock.
EpochDone(duties, roots) ==
    IF update.fetching = update.epoch
    THEN /\ update' = [update EXCEPT !.pc = "fetch", !.fetching = update.epoch + 1,
                                     !.root = NoRoot, !.batches = <<>>]
         /\ attesterDuties' = duties
         /\ dependentRoots' = roots
    ELSE /\ update' = IdleUpdate(update.epoch)
         /\ attesterDuties' = Pruned(duties, {})
         /\ dependentRoots' = Pruned(roots, NoRoot)

\* An empty list needs no selection proofs.
Batch(duties) == IF duties = {} THEN <<>> ELSE <<duties>>

\* duties_due_soon, then duties_due_later: those of past slots are dropped.
Batches(fetched) ==
    LET soon  == {d \in fetched : d.slot \in CurrentSlot..(CurrentSlot + 1)}
        later == {d \in fetched : d.slot > CurrentSlot + 1}
    IN  Batch(soon) \o Batch(later)

\* Mutant of Cleared: duties of the old dependent root are kept.
NotCleared(epoch) == attesterDuties

\* The duties of an epoch are forgotten before those of a new root are added.
Cleared(epoch) == [attesterDuties EXCEPT ![epoch] = {}]

\* The response for the epoch being fetched arrives, with this dependent root.
FetchSucceeds(root) ==
    LET e == update.fetching
        batches == Batches(DutiesOf(root, e, update.indices))
    IN  /\ update.pc = "fetch"
        /\ \/ /\ root = dependentRoots[e]
              /\ EpochDone(attesterDuties, dependentRoots)
              /\ UNCHANGED promised
           \/ /\ root # dependentRoots[e]
              /\ IF batches = <<>>
                 THEN EpochDone(Cleared(e), [dependentRoots EXCEPT ![e] = root])
                 ELSE /\ attesterDuties' = Cleared(e)
                      /\ update' = [update EXCEPT !.pc = "proofs", !.root = root,
                                                  !.batches = batches]
                      /\ UNCHANGED dependentRoots
              /\ promised' = IF e = CurrentEpoch THEN {} ELSE promised
        /\ UNCHANGED <<envVars, jobVars, updateQueued, attestVars, waiter, asked>>

\* The selection proofs of a batch arrive; the dependent root is recorded after
\* the last batch.
ProofsSucceed ==
    LET e == update.fetching
        duties == [attesterDuties EXCEPT ![e] = @ \cup Head(update.batches)]
    IN  /\ update.pc = "proofs"
        /\ IF Len(update.batches) = 1
           THEN EpochDone(duties, [dependentRoots EXCEPT ![e] = update.root])
           ELSE /\ attesterDuties' = duties
                /\ update' = [update EXCEPT !.batches = Tail(@)]
                /\ UNCHANGED dependentRoots
        /\ UNCHANGED <<envVars, jobVars, updateQueued, attestVars, waiter, historyVars>>

\* The request or a signature failed: sleep before the next attempt.
UpdateFails ==
    /\ "failures" \in Environment
    /\ update.pc \in {"fetch", "proofs"}
    /\ update' = [IdleUpdate(update.epoch) EXCEPT !.pc = "backoff"]
    /\ UNCHANGED <<envVars, jobVars, tableVars, updateQueued, attestVars, waiter, historyVars>>

\* The sleep ends: try again while the epoch lasts, else release the lock.
RetryUpdate ==
    /\ update.pc = "backoff"
    /\ IF CurrentEpoch = update.epoch THEN BeginUpdate
       ELSE update' = IdleUpdate(update.epoch)
    /\ UNCHANGED <<envVars, jobVars, tableVars, updateQueued, attestVars, waiter, historyVars>>

-----------------------------------------------------------------------------
(* wait_for_duty_completion *)

HasDutyForSlot(slot) == DutiesInTable(slot) # {}

StartWait ==
    /\ "shutdown" \in Environment
    /\ waiter.pc = "idle"
    /\ waiter' = [slot |-> CurrentSlot,
                  pc |-> IF \/ completed = CurrentSlot
                            \/ ~HasDutyForSlot(CurrentSlot) /\ started # CurrentSlot
                         THEN "done" ELSE "waiting"]
    /\ UNCHANGED <<envVars, jobVars, tableVars, updateVars, attestVars, historyVars>>

\* Mutant of EndWait: off by one.
EndWaitLater ==
    /\ waiter.pc = "waiting"
    /\ completed > waiter.slot
    /\ waiter' = [waiter EXCEPT !.pc = "done"]
    /\ UNCHANGED <<envVars, jobVars, tableVars, updateVars, attestVars, historyVars>>

\* The 10ms poll.
EndWait ==
    /\ waiter.pc = "waiting"
    /\ completed >= waiter.slot
    /\ waiter' = [waiter EXCEPT !.pc = "done"]
    /\ UNCHANGED <<envVars, jobVars, tableVars, updateVars, attestVars, historyVars>>

-----------------------------------------------------------------------------

EnvironmentStep ==
    \/ AdvanceClock
    \/ \E idx \in SUBSET Validators : ChangeIndices(idx)
    \/ DetectSlashing

TriggerStep ==
    \/ OnNewSlot
    \/ \E s \in Slots : RunDeadlineJob(s)
    \/ \E s \in Slots, p, c \in Roots : HandleHeadEvent(s, p, c)
    \/ HandleReorgEvent

AttestStep ==
    \/ \E t \in attests : ProduceSucceeds(t) \/ ProduceFails(t) \/ SignAndPublish(t)
    \/ \E j \in aggregateJobs : Aggregate(j)

UpdateStep ==
    \/ StartUpdate
    \/ \E r \in Roots : FetchSucceeds(r)
    \/ ProofsSucceed
    \/ UpdateFails
    \/ RetryUpdate

WaitStep == StartWait \/ EndWait

Next == EnvironmentStep \/ TriggerStep \/ AttestStep \/ UpdateStep \/ WaitStep

Spec == Init /\ [][Next]_vars

\* The event loop runs what is ready, time passes, and every request of an attesting
\* task ends: those to beacon nodes have a timeout (BeaconNode), producing
\* AttestationData is cut off at the end of the slot, and a signer either answers or
\* the HTTP client gives up.  No task or job is promised to go on before another, and
\* nothing forces events, failures, successes, or duty updates to go on.
Fairness ==
    /\ WF_vars(AdvanceClock)
    /\ WF_vars(OnNewSlot)
    /\ WF_vars(\E s \in Slots : RunDeadlineJob(s))
    /\ WF_vars(AttestStep)
    /\ WF_vars(EndWait)

FairSpec == Spec /\ Fairness

-----------------------------------------------------------------------------
(* Properties *)

\* However head events, deadline jobs, duty updates and reorgs interleave, an
\* attestation signature is requested at most once for a validator and a slot:
\* neither twice for the same duty, nor for the duties of two dependent roots.
\* (A duty update may put back a duty of the current slot that was already taken.)
AskedOnce ==
    \A d1, d2 \in Duty :
        d1.validator = d2.validator /\ d1.slot = d2.slot =>
            IF d1 = d2 THEN asked[d1] <= 1 ELSE asked[d1] = 0 \/ asked[d2] = 0

\* No duty is forgotten for the rest of its slot, also when the event loop is blocked and
\* ticks, deadline jobs and head events are handled late, early, out of order or several
\* at once: until attesting to the slot starts, the duties that were in the table when it
\* began, and that no update took away, are still there, and something that will start
\* them is still to come, the tick or the deadline job that it schedules.
PromisedDutiesAreDue ==
    promised # {} /\ ~StopOnSlashing =>
        \/ started = CurrentSlot
        \/ /\ promised \subseteq DutiesInTable(CurrentSlot)
           /\ TickDue \/ CurrentSlot \in deadlineJobs

\* The duties of an epoch all come from one dependent root, also while an update
\* that replaces them is waiting for selection proofs: a validator is never due
\* at the slots of two different shufflings.
DutiesFromOneRoot ==
    \A e \in Epochs : \A d1, d2 \in attesterDuties[e] : d1.root = d2.root

\* A duty that is in the table when its slot begins, and that no duty update takes
\* away, is started before the slot ends, if the event loop is not blocked and no
\* slashing is detected.
PromisedDutiesStarted ==
    [][CurrentSlot' # CurrentSlot /\ promised # {} /\ ~StopOnSlashing =>
            started = CurrentSlot]_vars

\* Every attesting task ends with its slot recorded as completed, whether it
\* succeeded or not, also when the tasks of several slots overlap.
StartedDutyCompletes ==
    \A s \in Slots : (\E t \in attests : t.slot = s) ~> completed = s

\* The duty that is waited for is certain to be performed: only its own attesting
\* task is running, or it was in the table when its slot began and still is due.
DutyIsCertain ==
    IF attests = {} THEN promised # {} /\ started < waiter.slot
    ELSE \A t \in attests : t.slot = waiter.slot

\* A duty update took the duty that is waited for out of the table before it was started.
DutyReplaced == promised = {} /\ started < waiter.slot

\* shutdown.py:14 "Wait for ongoing/upcoming validator duties to be completed before
\* shutting down": whoever waits for the duty of a slot stops waiting, and the
\* client shuts down, unless the duty is replaced while it waits.  A detected slashing
\* stops the duty but not the wait.
DutyWaitEnds ==
    waiter.pc = "waiting" /\ waiter.slot = CurrentSlot /\ DutyIsCertain
        ~> waiter.pc = "done" \/ DutyReplaced

-----------------------------------------------------------------------------
(* What the code says of itself, and does not keep *)

\* attestation.py:650 "Only set the dependent root value once all duties for the
\* epoch have been successfully added": when no update is running or about to, the
\* duties of a recorded dependent root are in the table, those of past slots excepted.
RecordedRootIsComplete ==
    update.pc = "idle" /\ ~updateQueued =>
        \A e \in {CurrentEpoch, CurrentEpoch + 1} :
            dependentRoots[e] # NoRoot =>
                {d \in DutiesOf(dependentRoots[e], e, indices) : d.slot > CurrentSlot}
                    \subseteq attesterDuties[e]
=============================================================================
