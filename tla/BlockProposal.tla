---------------------------- MODULE BlockProposal ----------------------------
(***************************************************************************)
(* services/block_proposal.py, and shutdown.py, which waits for proposals. *)
(*                                                                         *)
(* The asyncio tasks are                                                   *)
(*   - one on_new_slot call per slot, which proposes the slot's block      *)
(*     (reveal, produce, sign, publish), then fetches the RANDAO reveal    *)
(*     for the next slot's proposal and prepares the beacon nodes, then    *)
(*     starts a duty update if an epoch begins; an exception ends it;      *)
(*   - the update_duties task of ValidatorDutyService;                     *)
(*   - shut_down, started by a signal.                                     *)
(*                                                                         *)
(* An action is the code between two awaits, time is counted in slots.     *)
(* The content of blocks and their choice among beacon nodes, and the      *)
(* registrations with builders, which change no state, are left out.       *)
(***************************************************************************)
EXTENDS Integers

CONSTANTS
    Validators,                 \* validators managed by this client
    NoValidator,                \* nobody, or a validator of somebody else
    Roots,                      \* duty dependent roots the beacon nodes may report
    NoRoot,                     \* no duties were fetched for an epoch
    Proposer(_, _),             \* proposer of a slot under a root (beacon node)
    SlotsPerEpoch,              \* SLOTS_PER_EPOCH
    MaxSlot,                    \* bound: the last slot of a behaviour
    DisableSlashingDetection    \* --disable-slashing-detection

Slots == 0..MaxSlot
EpochOf(slot) == slot \div SlotsPerEpoch
\* Epochs with duties: up to the one after the last.
Epochs == 0..(EpochOf(MaxSlot) + 1)
\* The slots duties may be for.
DutySlots == 0..((EpochOf(MaxSlot) + 2) * SlotsPerEpoch - 1)
MaybeValidator == Validators \cup {NoValidator}

ASSUME SlotsPerEpochAssumption == SlotsPerEpoch \in Nat \ {0}
ASSUME MaxSlotAssumption == MaxSlot \in Nat
ASSUME NobodyAssumption == NoValidator \notin Validators /\ NoRoot \notin Roots
ASSUME ProposerAssumption == \A r \in Roots, s \in DutySlots : Proposer(r, s) \in MaybeValidator
ASSUME SlashingAssumption == DisableSlashingDetection \in BOOLEAN

VARIABLES
    \* Environment
    currentSlot,        \* current_slot of BeaconChain
    indices,            \* active_or_pending_indices of the status tracker
    slashingDetected,   \* slashing_detected of the status tracker
    \* Slot ticker
    ticked,             \* last slot the ticker called on_new_slot for
    handlers,           \* the running on_new_slot calls
    \* BlockProposalService
    proposerDuties,     \* proposer_duties
    dependentRoots,     \* proposer_duties_dependent_roots
    randaoCache,        \* randao_reveal_cache: whose reveal is cached for a slot
    started,            \* _last_slot_duty_started_for
    completed,          \* _last_slot_duty_completed_for
    updateQueued,       \* an update_duties task was created and did not start yet
    update,             \* the update_duties call that holds the lock
    \* shut_down
    shutdown,
    \* History
    promised            \* duties known before their slot and never replaced since

envVars == <<currentSlot, indices, slashingDetected>>
tableVars == <<proposerDuties, dependentRoots>>
updateVars == <<updateQueued, update>>
slotVars == <<started, completed>>
vars == <<envVars, ticked, handlers, tableVars, randaoCache, slotVars, updateVars,
          shutdown, promised>>

\* ProposerDuty, without the public key.
Duty == [slot : DutySlots, validator : Validators]

\* get_proposer_duties: the duties of an epoch, other clients' left out.
DutiesOf(root, epoch) ==
    {d \in Duty : EpochOf(d.slot) = epoch /\ Proposer(root, d.slot) = d.validator}

\* A running on_new_slot call: validator is the proposer of its slot while it
\* proposes ("randao", "produce", "sign"), that of the next slot in "reveal".
Handler == [slot : Slots, pc : {"start", "randao", "produce", "sign", "reveal", "prepare"},
            validator : MaybeValidator, reveal : MaybeValidator]
Proposing(t) == t.pc \in {"randao", "produce", "sign"}

\* The update_duties lock is free; epoch is that of the last call.
IdleUpdate(epoch) == [pc |-> "idle", epoch |-> epoch, indices |-> {}, fetching |-> 0]

UpdateState == [pc : {"idle", "fetch", "backoff"}, epoch : 0..EpochOf(MaxSlot),
                indices : SUBSET Validators, fetching : Epochs]
ShutdownState == [pc : {"idle", "slot", "duty", "next slot", "final", "down"},
                  slot : DutySlots]

TypeOK ==
    /\ currentSlot \in Slots
    /\ indices \in SUBSET Validators
    /\ slashingDetected \in BOOLEAN
    /\ ticked \in Slots
    /\ handlers \in SUBSET Handler
    /\ proposerDuties \in [Epochs -> SUBSET Duty]
    /\ dependentRoots \in [Epochs -> Roots \cup {NoRoot}]
    /\ randaoCache \in [DutySlots -> MaybeValidator]
    /\ started \in Slots \cup {-1}
    /\ completed \in Slots \cup {-1}
    /\ updateQueued \in BOOLEAN
    /\ update \in UpdateState
    /\ shutdown \in ShutdownState
    /\ promised \in SUBSET Duty

\* __aenter__ loaded what an earlier run of the client saved in the duty cache, if
\* anything, and created an update_duties task.  The duties of an epoch and their
\* root are replaced together and saved one after the other; a crash between the
\* two writes is left out.  The service joins the ticker's handlers after the tick
\* of the current slot.
Init ==
    /\ currentSlot = 0
    /\ indices = Validators
    /\ slashingDetected = FALSE
    /\ ticked = 0
    /\ handlers = {}
    /\ dependentRoots \in {f \in [Epochs -> Roots \cup {NoRoot}] :
                              \A e \in Epochs : e > 1 => f[e] = NoRoot}
    /\ proposerDuties = [e \in Epochs |-> IF dependentRoots[e] = NoRoot THEN {}
                                          ELSE DutiesOf(dependentRoots[e], e)]
    /\ randaoCache = [s \in DutySlots |-> NoValidator]
    /\ started = -1
    /\ completed = -1
    /\ updateQueued = TRUE
    /\ update = IdleUpdate(0)
    /\ shutdown = [pc |-> "idle", slot |-> 0]
    /\ promised = {}

-----------------------------------------------------------------------------
(* Duties *)

\* duty_for_slot: at most one duty, since those of an epoch come from one response.
DutiesForSlot(slot) == {d \in proposerDuties[EpochOf(slot)] : d.slot = slot}

\* has_ongoing_duty.
HasOngoingDuty == completed < started /\ started = currentSlot

\* The future duties next_duty_slot chooses from.
FutureSlots ==
    {s \in DutySlots : s > started /\ s > currentSlot /\ DutiesForSlot(s) # {}}

\* next_duty_slot: at most one slot.
NextDutySlot ==
    IF HasOngoingDuty THEN {started}
    ELSE {s \in FutureSlots : \A s2 \in FutureSlots : s <= s2}

\* has_upcoming_duty.
HasUpcomingDuty == \E s \in NextDutySlot : s <= currentSlot + 3

-----------------------------------------------------------------------------
(* Time and the status tracker *)

TickDue == ticked < currentSlot

ShutdownDue ==
    \/ shutdown.pc \in {"slot", "next slot"} /\ currentSlot >= shutdown.slot
    \/ shutdown.pc \in {"duty", "final"} /\ completed >= shutdown.slot

WorkDue == TickDue \/ ShutdownDue \/ \E t \in handlers : t.pc = "start"

\* A slot ends.  The event loop may have been too busy for work that is due, and a
\* proposal may outlast its slot: nothing is promised then.  Once shutdown_event is
\* set, all tasks are cancelled within the slot.
AdvanceClock ==
    /\ currentSlot < MaxSlot
    /\ shutdown.pc # "down"
    /\ currentSlot' = currentSlot + 1
    /\ promised' = IF WorkDue \/ (\E t \in handlers : Proposing(t)) THEN {}
                   ELSE promised \cup DutiesForSlot(currentSlot')
    /\ UNCHANGED <<indices, slashingDetected, ticked, handlers, tableVars, randaoCache,
                   slotVars, updateVars, shutdown>>

ChangeIndices(idx) ==
    /\ idx # indices
    /\ indices' = idx
    /\ UNCHANGED <<currentSlot, slashingDetected, ticked, handlers, tableVars, randaoCache,
                   slotVars, updateVars, shutdown, promised>>

DetectSlashing ==
    /\ ~slashingDetected
    /\ slashingDetected' = TRUE
    /\ UNCHANGED <<currentSlot, indices, ticked, handlers, tableVars, randaoCache,
                   slotVars, updateVars, shutdown, promised>>

-----------------------------------------------------------------------------
(* on_new_slot *)

\* The ticker creates the task of the handler.  A tick the event loop was too
\* busy for is skipped.
OnNewSlot ==
    /\ TickDue
    /\ ticked' = currentSlot
    /\ handlers' = handlers \cup {[slot |-> currentSlot, pc |-> "start",
                                   validator |-> NoValidator, reveal |-> NoValidator]}
    /\ UNCHANGED <<envVars, tableVars, randaoCache, slotVars, updateVars, shutdown, promised>>

\* At the start of every epoch, update duties.
EpochStart(slot) == updateQueued' = (updateQueued \/ slot % SlotsPerEpoch = 0)

\* The rest of on_new_slot, once propose_block returned to the call t.
AfterProposal(t) ==
    \/ /\ DutiesForSlot(t.slot + 1) = {}
       /\ handlers' = handlers \ {t}
       /\ EpochStart(t.slot)
    \/ \E d \in DutiesForSlot(t.slot + 1) :
       /\ handlers' = (handlers \ {t}) \cup
             {[t EXCEPT !.pc = "reveal", !.validator = d.validator, !.reveal = NoValidator]}
       /\ UNCHANGED updateQueued

StopOnSlashing == slashingDetected /\ ~DisableSlashingDetection

\* None of the three errors of propose_block is raised.
MayPropose(slot) == ~StopOnSlashing /\ slot > started /\ slot = currentSlot

\* The call starts: an error, no duty, or a proposal up to its first await.
StartHandler(t) ==
    /\ t.pc = "start"
    /\ \/ /\ ~MayPropose(t.slot)
          /\ handlers' = handlers \ {t}
          /\ UNCHANGED <<proposerDuties, randaoCache, started, updateQueued>>
       \/ /\ MayPropose(t.slot) /\ DutiesForSlot(t.slot) = {}
          /\ AfterProposal(t)
          /\ UNCHANGED <<proposerDuties, randaoCache, started>>
       \/ \E d \in DutiesForSlot(t.slot) :
          /\ MayPropose(t.slot)
          /\ proposerDuties' = [proposerDuties EXCEPT ![EpochOf(t.slot)] = @ \ {d}]
          /\ started' = t.slot
          /\ randaoCache' = [randaoCache EXCEPT ![t.slot] = NoValidator]
          /\ handlers' = (handlers \ {t}) \cup
                {[t EXCEPT !.pc = IF randaoCache[t.slot] = NoValidator
                                  THEN "randao" ELSE "produce",
                           !.validator = d.validator, !.reveal = randaoCache[t.slot]]}
          /\ UNCHANGED updateQueued
    /\ UNCHANGED <<envVars, ticked, dependentRoots, completed, update, shutdown, promised>>

\* The reveal that was not cached arrives, and is taken from the cache again.
RevealForProposal(t) ==
    /\ t.pc = "randao"
    /\ handlers' = (handlers \ {t}) \cup {[t EXCEPT !.pc = "produce", !.reveal = t.validator]}
    /\ randaoCache' = [randaoCache EXCEPT ![t.slot] = NoValidator]
    /\ UNCHANGED <<envVars, ticked, tableVars, slotVars, updateVars, shutdown, promised>>

\* A block arrives and its signature is requested.
ProduceBlock(t) ==
    /\ t.pc = "produce"
    /\ handlers' = (handlers \ {t}) \cup {[t EXCEPT !.pc = "sign"]}
    /\ UNCHANGED <<envVars, ticked, tableVars, randaoCache, slotVars, updateVars, shutdown,
                   promised>>

\* The block is signed and published; the finally clause and what follows.
SignAndPublish(t) ==
    /\ t.pc = "sign"
    /\ completed' = t.slot
    /\ AfterProposal(t)
    /\ UNCHANGED <<envVars, ticked, tableVars, randaoCache, started, update, shutdown, promised>>

\* The reveal, the block, its signature or its publication fails: the error ends
\* on_new_slot after the finally clause.
ProposalFails(t) ==
    /\ Proposing(t)
    /\ completed' = t.slot
    /\ handlers' = handlers \ {t}
    /\ UNCHANGED <<envVars, ticked, tableVars, randaoCache, started, updateVars, shutdown,
                   promised>>

\* _fetch_randao_reveal for the next slot.
RevealForNextSlot(t) ==
    /\ t.pc = "reveal"
    /\ randaoCache' = [randaoCache EXCEPT ![t.slot + 1] = t.validator]
    /\ handlers' = (handlers \ {t}) \cup
          {[t EXCEPT !.pc = "prepare", !.validator = NoValidator]}
    /\ UNCHANGED <<envVars, ticked, tableVars, slotVars, updateVars, shutdown, promised>>

\* prepare_beacon_proposer returns.
PrepareBeaconProposer(t) ==
    /\ t.pc = "prepare"
    /\ handlers' = handlers \ {t}
    /\ EpochStart(t.slot)
    /\ UNCHANGED <<envVars, ticked, tableVars, randaoCache, slotVars, update, shutdown, promised>>

\* Either of them fails: the error ends on_new_slot.
PreparationFails(t) ==
    /\ t.pc \in {"reveal", "prepare"}
    /\ handlers' = handlers \ {t}
    /\ UNCHANGED <<envVars, ticked, tableVars, randaoCache, slotVars, updateVars, shutdown,
                   promised>>

-----------------------------------------------------------------------------
(* update_duties *)

\* handle_head_event with a dependent root that no epoch has.
HandleHeadEvent(currentRoot) ==
    /\ \A e \in Epochs : dependentRoots[e] # currentRoot
    /\ updateQueued' = TRUE
    /\ UNCHANGED <<envVars, ticked, handlers, tableVars, randaoCache, slotVars, update,
                   shutdown, promised>>

\* ValidatorDutyService.handle_reorg_event.
HandleReorgEvent ==
    /\ updateQueued' = TRUE
    /\ UNCHANGED <<envVars, ticked, handlers, tableVars, randaoCache, slotVars, update,
                   shutdown, promised>>

\* _update_duties begins: it returns at once without validators.
BeginUpdate ==
    IF indices = {}
    THEN update' = IdleUpdate(EpochOf(currentSlot))
    ELSE update' = [pc |-> "fetch", epoch |-> EpochOf(currentSlot), indices |-> indices,
                    fetching |-> EpochOf(currentSlot)]

\* A task created for update_duties starts; it returns if the lock is held.
StartUpdate ==
    /\ updateQueued
    /\ updateQueued' = FALSE
    /\ IF update.pc # "idle" THEN UNCHANGED update ELSE BeginUpdate
    /\ UNCHANGED <<envVars, ticked, handlers, tableVars, randaoCache, slotVars, shutdown,
                   promised>>

\* Mutant of DueDuties: the duty of the current slot is taken for a past one.
DueDutiesLater(duties) ==
    {d \in duties : d.slot > currentSlot /\ d.validator \in update.indices}

\* Duties of this client's validators, those of past slots excepted.
DueDuties(duties) ==
    {d \in duties : d.slot >= currentSlot /\ d.validator \in update.indices}

\* _prune_duties.
Pruned(table, absent) ==
    [e \in Epochs |-> IF e < EpochOf(currentSlot) THEN absent ELSE table[e]]

\* Mutant of RootOf: the root is recorded for the epoch of the update.
RootOfUpdate(root) == [dependentRoots EXCEPT ![update.epoch] = root]

\* The root is recorded for the epoch it was fetched for.
RootOf(root) == [dependentRoots EXCEPT ![update.fetching] = root]

\* Mutant of IsLast: one epoch too many.
IsLastLate(epoch) == epoch > update.epoch + 1

\* The update fetches its own epoch and the next one.
IsLast(epoch) == epoch # update.epoch

\* The response for an epoch arrives: its root and duties replace what is known.
\* The next epoch is fetched, or the update prunes and releases the lock.
FetchSucceeds(root) ==
    LET e == update.fetching
        duties == [proposerDuties EXCEPT ![e] = DueDuties(DutiesOf(root, e))]
        roots == RootOf(root)
        last == IsLast(e)
    IN  /\ update.pc = "fetch"
        /\ update' = IF last THEN IdleUpdate(update.epoch) ELSE [update EXCEPT !.fetching = e + 1]
        /\ proposerDuties' = IF last THEN Pruned(duties, {}) ELSE duties
        /\ dependentRoots' = IF last THEN Pruned(roots, NoRoot) ELSE roots
        /\ promised' = {d \in promised :
              EpochOf(d.slot) = e /\ d.slot > started =>
                  Proposer(root, d.slot) = d.validator /\ d.validator \in update.indices}
        /\ UNCHANGED <<envVars, ticked, handlers, randaoCache, slotVars, updateQueued, shutdown>>

\* The request failed: sleep before the next attempt.
FetchFails ==
    /\ update.pc = "fetch"
    /\ update' = [IdleUpdate(update.epoch) EXCEPT !.pc = "backoff"]
    /\ UNCHANGED <<envVars, ticked, handlers, tableVars, randaoCache, slotVars, updateQueued,
                   shutdown, promised>>

\* The sleep ends: try again while the epoch lasts, else release the lock.
RetryUpdate ==
    /\ update.pc = "backoff"
    /\ IF EpochOf(currentSlot) = update.epoch THEN BeginUpdate
       ELSE update' = IdleUpdate(update.epoch)
    /\ UNCHANGED <<envVars, ticked, handlers, tableVars, randaoCache, slotVars, updateQueued,
                   shutdown, promised>>

-----------------------------------------------------------------------------
(* shut_down *)

\* wait_for_duty_completion returns at once.
NothingToWaitFor ==
    \/ completed = currentSlot
    \/ DutiesForSlot(currentSlot) = {} /\ started # currentSlot

\* Mutant of NextWait: the loop looks at proposals of the next slot only.
NextWaitShort ==
    IF \E s \in NextDutySlot : s <= currentSlot + 1
    THEN \E s \in NextDutySlot :
            shutdown' = IF currentSlot < s THEN [pc |-> "slot", slot |-> s]
                        ELSE [pc |-> "duty", slot |-> currentSlot]
    ELSE shutdown' = [pc |-> "next slot", slot |-> currentSlot + 1]

\* The loop goes on to its next await: the slot of the next proposal, or the end
\* of an ongoing one.  Without upcoming proposals, shut_down waits for the next slot.
NextWait ==
    IF HasUpcomingDuty
    THEN \E s \in NextDutySlot :
            shutdown' = IF currentSlot < s THEN [pc |-> "slot", slot |-> s]
                        ELSE [pc |-> "duty", slot |-> currentSlot]
    ELSE shutdown' = [pc |-> "next slot", slot |-> currentSlot + 1]

\* The signal handler creates the task of shut_down.
StartShutdown ==
    /\ shutdown.pc = "idle"
    /\ NextWait
    /\ promised' = promised \cup
          UNION {DutiesForSlot(s) : s \in {s \in Slots : currentSlot < s /\ s <= currentSlot + 3}}
    /\ UNCHANGED <<envVars, ticked, handlers, tableVars, randaoCache, slotVars, updateVars>>

\* The slot of the proposal that is waited for began.
ProposalSlotBegins ==
    /\ shutdown.pc = "slot"
    /\ currentSlot >= shutdown.slot
    /\ IF NothingToWaitFor THEN NextWait
       ELSE shutdown' = [pc |-> "duty", slot |-> currentSlot]
    /\ UNCHANGED <<envVars, ticked, handlers, tableVars, randaoCache, slotVars, updateVars,
                   promised>>

\* The 10ms poll.
ProposalCompletes ==
    /\ shutdown.pc = "duty"
    /\ completed >= shutdown.slot
    /\ NextWait
    /\ UNCHANGED <<envVars, ticked, handlers, tableVars, randaoCache, slotVars, updateVars,
                   promised>>

\* The last slot began.  shut_down waits for the duties of all services in it:
\* what concerns the others is wait_for_duty_completion of AttestationService.
LastSlotBegins ==
    /\ shutdown.pc = "next slot"
    /\ currentSlot >= shutdown.slot
    /\ shutdown' = [pc |-> IF NothingToWaitFor THEN "down" ELSE "final", slot |-> currentSlot]
    /\ UNCHANGED <<envVars, ticked, handlers, tableVars, randaoCache, slotVars, updateVars,
                   promised>>

\* The poll ends and shutdown_event is set.
LastDutyCompletes ==
    /\ shutdown.pc = "final"
    /\ completed >= shutdown.slot
    /\ shutdown' = [shutdown EXCEPT !.pc = "down"]
    /\ UNCHANGED <<envVars, ticked, handlers, tableVars, randaoCache, slotVars, updateVars,
                   promised>>

-----------------------------------------------------------------------------

EnvironmentStep ==
    \/ AdvanceClock
    \/ \E idx \in SUBSET Validators : ChangeIndices(idx)
    \/ DetectSlashing

SlotStep ==
    \/ OnNewSlot
    \/ \E t \in handlers :
        \/ StartHandler(t)
        \/ RevealForProposal(t) \/ ProduceBlock(t) \/ SignAndPublish(t) \/ ProposalFails(t)
        \/ RevealForNextSlot(t) \/ PrepareBeaconProposer(t) \/ PreparationFails(t)

UpdateStep ==
    \/ \E r \in Roots : HandleHeadEvent(r)
    \/ HandleReorgEvent
    \/ StartUpdate
    \/ \E r \in Roots : FetchSucceeds(r)
    \/ FetchFails
    \/ RetryUpdate

ShutdownStep ==
    \/ StartShutdown
    \/ ProposalSlotBegins \/ ProposalCompletes
    \/ LastSlotBegins \/ LastDutyCompletes

Next == EnvironmentStep \/ SlotStep \/ UpdateStep \/ ShutdownStep

Spec == Init /\ [][Next]_vars

-----------------------------------------------------------------------------
(* Properties *)

\* The duties of an epoch are duties under its dependent root, through updates that
\* fail half-way, retries and pruning: handle_head_event takes a known root to mean
\* that there is nothing to update.
DutiesMatchRoot ==
    \A e \in Epochs :
        IF dependentRoots[e] = NoRoot THEN proposerDuties[e] = {}
        ELSE proposerDuties[e] \subseteq DutiesOf(dependentRoots[e], e)

\* A proposal that is known when its slot begins, and that no duty update takes
\* away, is started in its slot: neither a failing handler of the slot before nor
\* an update that arrives as the slot begins keeps it from that, if the event loop
\* is not blocked and no slashing is detected.
KnownProposalsStarted ==
    [][currentSlot' # currentSlot /\ ~WorkDue /\ ~StopOnSlashing =>
            \A d \in promised : d.slot = currentSlot => started = currentSlot]_vars

\* shutdown.py:14 "Wait for ongoing/upcoming validator duties to be completed before
\* shutting down": when shutdown_event is set, every proposal known at the start of
\* its slot, or when the signal arrived up to three slots before, was attempted and
\* is not in progress, provided that proposals do not outlast their slots.
NoProposalAbandoned ==
    [][shutdown.pc # shutdown'.pc /\ shutdown'.pc = "down" /\ ~StopOnSlashing =>
            \A d \in promised :
                /\ d.slot <= started
                /\ \A t \in handlers : Proposing(t) => t.slot # d.slot]_vars

-----------------------------------------------------------------------------
(* What the code says of itself, and does not keep *)

\* block_proposal.py:327 "Try to get it from the cache - it should be pre-populated
\* in the slot before a proposal is due": the reveal a block is requested with is
\* that of the validator that proposes it.
RevealIsOfProposer ==
    \A t \in handlers : t.pc \in {"produce", "sign"} => t.reveal = t.validator
=============================================================================
