# Vero in TLA+

TLA+ specifications, TLC configurations and machine-checked proofs for Vero, an
Ethereum validator client that attests with several beacon nodes at once and signs
through a remote signer. Vero is one Python process whose asyncio tasks interleave
only at their `await`s; what is hard about it is the order in which those tasks,
the beacon nodes' answers, their events and the clock meet.

Paths below are relative to the repository; `attestation.py` and the like are
under `src/services/` and `src/providers/` there.

## The system

| Part | State | Operations | Talks to |
|---|---|---|---|
| `MultiBeaconNode` / `BeaconNode` | which nodes are initialized, a score per node; per call: last answer per host, a counter | agree on AttestationData, wait for AttestationData of a block, wait for checkpoints, first/all/best responses, best block | beacon nodes over HTTP |
| `AttestationDataProvider` | confirmed source and target checkpoints per epoch | produce AttestationData, prune | `MultiBeaconNode` |
| `ValidatorDutyService` (base) | last slot started, last slot completed, the update lock | update duties with retries, wait for a duty, reorg events | scheduler, tasks |
| `AttestationService` | duties and their dependent root per epoch | tick, head event, attest, aggregate, update duties | provider, signer, nodes, status tracker |
| `BlockProposalService` | proposer duties per epoch, RANDAO reveals | tick, propose, prepare proposers, register validators | signer, nodes, status tracker, keymanager |
| `SyncCommitteeService` | sync duties per period | tick, head event, message, contribution | signer, nodes, status tracker |
| `EventConsumerService` | one stream per node, a bounded deque of recent keys | read, filter and dispatch events, resubscribe | the services above, as callbacks |
| `ValidatorStatusTrackerService` | active, pending, exited validators; `slashing_detected` | refresh, slashing events | nodes, signer |
| `Keymanager`, `RemoteSigner` | key to signer map, overrides, database; signer score | import, delete, sign, health poll | database, signer |
| `BeaconChain` | the clock, tick handlers, fork version | tick | everyone, as callbacks |
| `DutyCache` | two files per duty service | load at start, save at exit | the duty services |
| `run_services`, `DoppelgangerDetector` | how far start-up is; the validators and the epoch that are watched | start, look for other instances | nodes, status tracker, all services |
| `shut_down` | how long it still waits | wait for duties, stop | the duty services |

How they interact. The ticker calls `on_new_slot` of the status tracker and of the
duty services. The event consumer creates one task per handler for each event it has
not seen. The duty services share nothing but the nodes, the signer, the keymanager
and the status tracker's lists and `slashing_detected` flag, which they read when
they need them. Shutdown polls the duty services.

What is hard: duties are replaced over several awaits while head events and deadline
jobs take them out of the same table; a job and several events race to start the same
duty; updates retry, hold a lock and give up when the epoch ends; attesting tasks of
consecutive slots overlap; answers of several nodes arrive in any order, change
between rounds, or do not arrive; caches filled by one call are trusted by another;
a slashing may be detected at any point of all this.

What makes each part correct:

- consensus: the counter counts distinct hosts, data is returned exactly when enough
  hosts agree on it, and agreement is reached when enough of them do;
- data provider: no checkpoint is attested to that fewer than the threshold reported;
- duty services: no duty is started or signed twice, none is lost, and none is of a
  shuffling that was replaced; shutdown waits for exactly what is still to be done;
- event consumer: every event reaches the handlers once, duplicates do not;
- nodes: the best answer in time is used, an error or the silence of one node does not
  hide the answer of another, a node that is down is not relied on, one that comes up is;
- status tracker: the lists become exact and stay so, although updates overlap and nodes lag;
- doppelganger detection: no duties beside another instance, no stop without one;
- keymanager, duty cache: what is kept twice (memory and database, two files) does no
  harm when it differs.

## Modules

| Module | Models |
|---|---|
| `QuorumAgreement` | what agreement among beacon nodes promises, abstractly |
| `AttestationHosts` | the nodes and the threshold, which the next two share |
| `AttestationConsensus` | `MultiBeaconNode.produce_attestation_data_without_head_event` |
| `AttestationDataProvider` | `attestation_data_provider.py` with the waiting functions of the nodes |
| `AttestationDataProofs` | theorems about both, and that both implement `QuorumAgreement` |
| `AttestationService` | `attestation.py` and `validator_duty_service.py`, with the ticker and the scheduler |
| `AttestationServiceProofs` | theorems about it |
| `BlockProposal` | `block_proposal.py` with the ticker, and the waiting of `shutdown.py` |
| `BlockProposalProofs` | theorems about it |
| `SyncCommittee` | `sync_committee.py` with `validator_duty_service.py` |
| `SyncCommitteeProofs` | theorems about it |
| `KeyStore` | what the keymanager promises about keys, abstractly |
| `Keymanager` | `keymanager.py` with `db.py` |
| `KeymanagerProofs` | theorems about it, and that it implements `KeyStore` |
| `EventConsumer` | `event_consumer.py` with `BeaconNode.subscribe_to_events` |
| `EventConsumerProofs` | theorems about it |
| `BeaconNodes` | start-up, scores and calls of `multi_beacon_node.py` and `beacon_node.py` |
| `BeaconNodesProofs` | theorems about it |
| `StatusTracker` | `validator_status_tracker.py` |
| `DoppelgangerDetector` | `doppelganger_detector.py` |
| `Startup` | `run_services` in `initialize.py`: composes the two above and goes on with the tracker |
| `StartupProofs` | theorems about the three |
| `MC...` | values of the constants for TLC |

Each action is the code between two awaits, and carries the name of its function where
it is a whole one. Properties are at the end of each module. Operators marked
"Mutant of X" are plausible bugs of X that no specification uses; they show that
a property can fail, by being put in the place of X.

### AttestationConsensus

One call. `requested` holds the tasks of the round that are running, `completed` those
that ended, in the order in which `asyncio.as_completed` hands them over;
`hostToAttData`, `attDataCounter` are the function's variables. Nodes are initialized
late, change their answer and start or stop failing at any time. `Recount` is the
`+= 1` and `-= 1`, `ProcessResponse` one turn of the loop, `CancelTasks` the caller's
`wait_for`.

`QuorumAgreement` knows no rounds, tasks or counters: a host answers, and in that very
step a decision is taken if the supporters of the answer became a quorum.
`ImplementsAgreement` maps the hosts' last processed answers to `answer` and the result
to `decision`.

### AttestationDataProvider

Several overlapping calls that share the two caches. The fallback is used through what
`QuorumAgreement` promises. `said` records what each node ever answered, so that
"Threshold nodes reported it" can be stated for something that was cached long ago. Any
node may say anything; nothing is assumed about how many of them are right.

### AttestationService

Time is counted in thirds of a slot. `ticked`, `deadlineJobs` and `aggregateJobs` are
the ticker and the scheduler, `attests` the running `_attest` calls, `updateQueued` the
`update_duties` tasks that did not start yet (several act as one: all but the first
return at once), `update` the one that holds the lock. `Schedule` says which slot the
beacon nodes give a validator under a dependent root.

The constant `Environment` switches on what the surroundings may do: block the event
loop (`lag`), change the validators (`status`), slash one, deliver head events a slot
early, send reorg events, fail requests, shut down. The theorems hold for every
choice unless they say otherwise.

A behaviour begins with whatever the cache files of an earlier run hold: duties of any
shufflings, with or without the root that belongs to them, since `DutyCache` writes two
files one after the other and a crash may come in between. The same holds for
`BlockProposal` and `SyncCommittee`.

`asked` and `promised` are history variables: how often a signature was requested for
a duty, and the duties of the current slot that were in the table when it began and
were not replaced since.

### BlockProposal

`handlers` holds the running `on_new_slot` calls, at most one per slot, each at one of
its awaits; `Handler.validator` is whose proposal or reveal it is about. Time is counted
in slots, so a call may outlast its slot and overlap the next one. `update` is the
`update_duties` call that holds the lock, `fetching` the epoch it asks for: unlike the
attestation service, it replaces the duties of an epoch whatever their root was.
`shutdown` is the position of `shut_down`: waiting for the slot of a proposal, for the
proposal, for the next slot, or for the duty of that one. `shutdown_event` ends the
program, so nothing happens in `down` but what the cancelled tasks still do within the slot.

Everything may go wrong at any time: late and skipped ticks, failing requests,
overlapping proposals, status changes, reorgs, a slashing, a shutdown signal. `promised`
is a history variable, the duties that are in the table when their slot begins or when
the signal arrives up to three slots before, and that no update replaced since. All
promises are withdrawn when the clock advances although a tick, a started call or
`shut_down` had work to do, or while a proposal is running, since its end would set
the completed slot back.

### SyncCommittee

Time is counted in slots; `Committee` says which of the client's validators are in the
committee of a period. Unlike attestations, a slot may have several messages: one per head
event and one by the deadline job, `messages` in the model, told apart by their block.
`contributions` are the tasks and jobs of the aggregation. Of validators the model keeps
what a message or contribution copied from `sync_duties`, `members` and `duties`: the
list is read twice, before and after the block is asked for. `promised` is a history
variable: the duties of the current slot were in the table when it began.

A message of slot `s` is signed by the committee of slot `s + 1`, but only the duties of
the current period are fetched. In the last slot of a period the table has nothing for
the signing period, and no message is produced; the model shows this as it is.

### EventConsumer

Streams are opened, end, fail and are opened again ten seconds later. All nodes report
events of the same set; each event carries its `dedup_key`. An event is handled in one
step because `_handle_event` does not await.

### BeaconNodes

`initTask` is where `initialize_full` of each node is, `boot` where
`MultiBeaconNode.initialize` is. Calls follow each other; one is `asked` of a set of
nodes, `running` are the requests that have not ended, `accepted` those whose status line
came, which is when the score rises; the body comes later and may still be useless.
`arrived` are the responses the caller has not looked at, in their order, `best` what
it keeps. `_produce_best_block` is in phase `timed` until its timeout or all answers,
and then, without a block, in `next`, like `_get_first_beacon_node_response`.
`BestOf` is nondeterministic among blocks of one value, as iterating over a set is.
A node may turn up, down or bad (another spec, an optimistic head, a body that cannot be
decoded) between any two steps, from before start-up on.

Two facts of the code the model shows, which nothing in the repository contradicts: an
answer that cannot be used raises the score of its node all the same, so a node that is bad
for good keeps the first place; and a block request, which has no timeout of its own,
leaves a call open for as long as its node is silent and no other one has a block.

### StatusTracker, DoppelgangerDetector, Startup

An update of the tracker is a sequence of requests, each answered by the node that is
first: the one that leads, which sees `chain`, or one of those that lag, which see `view`.
What is found by one request is left out of the next (`known`), and each answer replaces
its list at once. Two updates may run side by side; either may fail and try again.
`quiet` and `settled` are history: an update, or all since one, saw one state of the world
and ran alone.

Time is counted in halves of a slot, because `detect` waits for the middle of one, and
repeats the last epoch instead of ending. Another instance attests at most once, and only
an attestation of the monitored epoch or its neighbours can matter. Liveness data of an
epoch may or may not tell of an attestation before the last slot in which it may be
included, and does tell of it afterwards. `overlooked` is history.

What `Startup` shows beyond its properties: keys that are imported while `detect` runs are
not watched; a validator that is activated between the request for active and the one for
pending validators is in no list until the next update, one epoch later at most; nothing
resets `slashing_detected`, not even the removal of the slashed key.

### Keymanager

`db` is the table `keymanager_data`, a row per key; `signers` and `overrides` are the
dictionaries built from it. A call of the API never suspends (its one `await` enters a
`RemoteSigner` that has nothing to wait for), so it is one action. Each of its SQL
statements is a transaction of its own, so a `Crash` may leave the rows of any part of a
call. `RemoteSigner` refuses a URL without a hostname (`BadUrls`): the update of the
mapping then raises, after the rows were committed, and at a start the program ends
again. Signers are told apart by the rebuild of the mapping that created them
(`generation`). `deleted` is a history variable, the keys whose deletion was reported
and that were not imported since.

`KeyStore` knows no rows, signers, generations or overrides: there is a list of keys with
their URLs, calls and crashes make it longer or shorter, and the client signs for the keys
of the list, or of the list it had before while a URL cannot be used.
`ImplementsKeyStore` maps the rows to `stored` and the mapping (`list_remote_keys`) to
`served`.

Deleting a key keeps its overrides in memory, and an import of the key then meets
them: until the next start, blocks use an override that the API no longer reports. The
model has this; the converse, that no override in the database is ignored, is
`OverridesInEffect`.

## What is checked

| Run | Shows |
|---|---|
| `consensus` | counter exact; data returned only with, and as soon as there is, agreement; implements `QuorumAgreement`; ends once enough nodes agree for good |
| `data_provider` | results and caches are backed by Threshold nodes, although calls overlap, time out, fall back and prune; a call that falls back keeps the promise of `QuorumAgreement` from no answers on |
| `attestation_safety` | one signature per validator and slot; one dependent root per epoch in the table; a duty that was due when its slot began stays in the table, with something to start it, until it is started, also when the event loop is blocked |
| `attestation_liveness` | what was due when its slot began is started in it; every attesting task is recorded as completed; waiting for a duty that is certain ends |
| `block_proposal` | proposer duties belong to the recorded root; a known proposal is started in its slot; `shut_down` abandons no promised proposal |
| `sync_committee` | only members of the committee that signs in a slot sign; duties known when a slot begins are started in it |
| `keymanager` | memory follows the database through failing updates, crashes and restarts; no signature is requested for a key after its deletion was reported; implements `KeyStore` |
| `beacon_nodes` | the best block in time and the best aggregate are returned; a call raises only without any answer; start-up and calls end; late nodes join; a dead node does not stay the best |
| `startup` | lists of validators become exact after an undisturbed update and, once the world is quiet, for good; the client stops for another instance only; no services start beside another instance that attested in the monitored epoch |
| `event_consumer` | duplicates are handled again only after the deque forgot them; no accepted key is lost |

Two runs show where the program does not do what its comments say:

| Run | What happens |
|---|---|
| `recorded_root` | With all duties of root A in the table, an update clears them for those of root B, fails to get the selection proofs, and finds root A on its next attempt: A is the recorded root, so the epoch is skipped and stays empty. |
| `wrong_reveal` | The reveal of the next slot's proposer is cached under the slot; an update gives the slot to another validator of this client, whose block is then requested with the first one's reveal. |

Seven things the models show are not stated as properties, because nothing in the
repository promises otherwise: a head event removes the deadline job of its slot while the
epoch's duties are cleared, and duties of that slot added afterwards have nothing to start
them; the update triggered at the start of an epoch returns because the previous
epoch's update holds the lock, and that one gives up because its epoch is over; in the
last slot of a sync period `has_duty_for_slot` finds the duties of the period that ends,
and shutting down waits for a message that nothing produces; a reorg event's key is the new
head block, so it makes the head event of that block a duplicate; a row whose URL
`RemoteSigner` refuses makes every later update of the mapping raise, and a key that is
deleted keeps its signer until the row is gone; an attestation or a proposal that ends
after that of a later slot sets the completed slot back, and a wait that begins then does
not see that the later duty is done; once a slashing was detected the deadline job fails
before it takes the duties of its slot, and a wait for them, as in `shut_down`, has nothing
to end it (what the comments on waiting and shutting down say, `validator_duty_service.py:74`
and `shutdown.py:14`, leaves both cases open). `slashing_detected` is read when attesting
and proposing begin, and not again after their awaits.

Bounds, and why they suffice:

- `consensus`: three hosts, threshold two, two AttestationData: the smallest instance in
  which a minority, a majority and a host that changes sides all exist. Counters need no
  bound, answers per host are bounded by the rounds' structure.
- `data_provider`: three nodes, two calls, one block, a correct and a wrong target; two
  calls are what it takes for one to use what the other cached; `KeptEpochs` is 1 instead
  of 3 so that pruning drops something with two target epochs.
- `AttestationService` runs: epochs of two slots. `attestation_safety` has two slots and a
  validator whose slot is the first or the last of the epoch depending on the root, so an
  update can move a duty from the past into the future and back. `attestation_liveness` has
  four slots and a validator with duties in the last slot of one epoch and the first of the
  next: its attesting tasks can overlap, and the update at the boundary can replace the
  duty of the slot that begins.
- `recorded_root`: two slots, and the cache holds all duties of the roots it records, or
  none (`CompleteCacheInit`): what it shows is done by the running program and not by a
  cache file that was torn.
- `block_proposal`: one validator (those of somebody else are `NoValidator`), epochs of
  two slots, slots 0 to 2, two roots: under one of them the validator proposes on both
  sides of the epoch boundary, under the other it does not. `wrong_reveal` takes four
  slots and two validators, so that a slot may move from one to the other.
- `sync_committee`: one validator that is in the first committee and not in the second,
  periods of three epochs of one slot, slots 0 to 3: slot 2 is the last of its period, and
  an update can begin in it and end in slot 3. Two messages per slot, one with a head event
  and one without.
- `keymanager`: three keys, so that two share a signer while the third moves or goes; two
  URLs that work and one that is refused; one setting with one value. `MaxGeneration`
  bounds the rebuilds that create signers to two per start: an old and a new signer of
  one URL, which is what could be confused.
- `event_consumer`: two nodes, four events with three keys, two of them sharing one, a
  deque of two keys (ten per node in the code), one slot boundary. Each node sends each
  event once.
- `beacon_nodes`: two nodes, threshold one, answers worth zero or one (an aggregate without
  participants is one that is useless), scores up to 3 and 2 less for a failure, so that a
  score is cut off at both ends and one failure does not make a node the worst. One
  call at a time. Separate nodes for proposals are in the module and covered by the
  theorems, not in this instance: they only change who is asked.
- `startup`: one validator, one node that lags, two updates at a time, one change of the
  chain or the keys, one failed request, epochs of one slot, four epochs of which the last
  repeats: detection takes until the end of epoch 2. Start-up begins early enough to end.
  What two validators do to each other is nothing: lists are sets, requests filter them.

`TypeOK` of `EventConsumer`, `AttestationDataProvider` and `Keymanager` is checked by no
run, since it is proved, and so is `SignersFollowDatabase`, which also follows from
`ImplementsKeyStore`.

Deadlock checking is off where the clock stops at `MaxSlot`, and in `startup`, where the
process ends.

Fairness. `AttestationConsensus`: every request has a timeout, so each task ends, and
the event loop resumes tasks that can go on; nodes owe nothing.
`BeaconNodes`: every request but that of a block has a timeout, a node that is up answers,
time passes and the event loop runs what is ready; a node that is down owes a block
request no end. `FailsOver` also supposes that all nodes are asked again and again, as each
slot's publications do.
`Startup`: time passes, nodes catch up, some update goes on (none is promised to go on
before another), and so does `detect`; requests fail at most `MaxFailures` times.
`AttestationService`: the ticker, the scheduler and attesting tasks that can go on run,
none of them promised to go before another; their requests end, by success or failure;
time passes. No event, success or failure of its own is assumed, and not even that duty
updates go on.
That requests to the signer end at all is what the HTTP client's default
timeout gives.

## What is proved

`tlapm` checks these theorems for all values of the constants (any number of nodes,
slots, validators; any schedule and environment) under the named assumptions of the
modules, which TLC evaluates on each run.

`AttestationDataProofs`, the consensus: `ConsensusTypeCorrect`, `CounterCorrect`,
`ResultBacked`, `NothingOverlooked` and `RefinesAgreement`. The inductive invariant joins
type correctness, the counter's equality with the number of supporters, the absence of
agreement while the call asks, and the support of the result. The equality is inductive
because a new answer moves one host from one set of supporters to another;
`NoOverlookedAgreement` needs it because only the new answer's counter is compared with the
threshold, while the others can only have shrunk. The refinement follows: a step that
changes a host's answer is an `Answer` step, all others stutter. `AgreementDecidesRightly`
is about `QuorumAgreement` itself: a decision has its quorum, and no quorum is overlooked;
the argument is that an answer takes a host away from every other AttestationData.
`DefaultThresholdIsExclusive`: two sets of `n \div 2 + 1` hosts intersect, so with the
default threshold at most one AttestationData has enough supporters. A smaller threshold,
which the CLI allows, has no such guarantee.

The provider: `TypeCorrect`, `ResultsBacked` and `CacheBacked` share an invariant: what a
call counts, be it the first answer, the nodes that confirmed or the answers of the
fallback, is in the history of what these nodes said (`CallsCount`, `AnswersAreSaid`), and
so is what is cached. History only grows, so the set of nodes that reported a checkpoint
does too, and what was backed stays so (`HostsMonotone`, `BackedGrows`): that is why a cache
that was filled by another call may be trusted. Nothing is assumed about how many nodes are
right. What the threshold is for follows:

- `WrongNodesAreNotEnough`: if fewer than Threshold nodes are wrong, a right one reported the
  source of what is returned, and a right one its target.
- `ConflictNeedsTwoFaces`: with the default threshold, two results have different targets
  for one epoch only if some node reported both, since two majorities meet. It is a
  statement about calls far apart: the cache of the first may have been pruned and filled
  again before the second.
- `FallbackImplementsAgreement`: every call that falls back begins, and goes on, as
  `QuorumAgreement` says (`FallbackAgrees`, which the run checks too), which needs that it comes without answers and data of its earlier
  attempts (`FallbackIsFresh`). `RefinesAgreement` says that the consensus call
  implements the same specification, so one may stand for the other.

`EventConsumerProofs`: `TypeCorrect`, `DuplicatesSpaced` and `AcceptedHandled`. The
invariant says that the deque holds the keys of the events handled last
(`RecentIsLatest`), all different (`RecentIsDistinct`), and misses some only when it is
full. A key that is handled again is not in the deque, hence was handled before all of it:
`RecentLimit` different keys lie in between (`FullDeque`, an injection of the deque's
places into these keys). A key that is dropped is in the deque, hence was handled.

`AttestationServiceProofs`:

- `TypeCorrect`: the substance is arithmetic, that the epochs and slots of duties, jobs
  and updates stay within the tables at epoch boundaries.
- `OneRootPerEpoch`: the invariant adds that the batches still to be added come from
  the root that is being fetched, and that the epoch being fetched only holds duties of that root
  (which is why it is cleared).
- `SignaturesAskedOnce`: the invariant says that signatures are only requested by the
  task of a slot, that there is at most one task per slot, none for a slot after
  `started`, and none of a task that still waits for data has been asked for. A duty may come back into
  the table after it was taken; what protects it is `started`, not the table.
- `DutiesStayDue`: unless a slashing was detected, a duty that is promised has either been
  started, or is in the table while its tick is to come or its job is scheduled. It needs
  that a head event takes the job of a slot only together with its duties, unless they
  were replaced, and holds however late the event loop is.
- `PromisesKept` follows from the same invariant: if the event loop is not blocked, the
  clock waits for the tick and for the job, so the slot does not end before the start.

`BlockProposalProofs`:

- `TypeCorrect`, and `DutiesUnderRoot`, which is inductive by itself: a table entry and
  its root change in one step.
- `KnownStarted` and `NothingAbandoned` share an invariant of four parts. `SlotInv`
  orders slots (completed, started, ticked, current), allows one call per slot, and says
  that a slot in progress is not the completed one. `PromiseInv`: a promised duty is in
  the table until it is started, through updates and pruning. `DueInv`: if no slashing
  was detected, a promised duty of the current slot is started, or its tick is to come,
  or its call did not start; one of a past slot was started and is over. `ShutdownInv`:
  once `shut_down` waits for the last slot, nothing promised lies ahead (its loop ended
  because the three next slots had no duty), and a late poll withdraws the promises.

`SyncCommitteeProofs`:

- `TypeCorrect`: division is monotone, so the period of every slot up to the one after
  `MaxSlot` is in the table.
- `SignersCorrect`: the invariant adds that the table's entry of a period holds members of
  its committee; a fetch stores under the period it asked for, whenever it ends.
- `DutiesStarted`: in a slot whose duties were known when it began they stay known, since
  an empty answer replaces nothing and pruning drops only periods before the current one,
  which is at most the signing one; and until a message is started its tick or its job
  is outstanding, since a head event removes the job only when it starts a message itself.

`KeymanagerProofs`:

- `TypeCorrect`, and `OverridesCorrect`, which is inductive by itself since every
  operation changes the row before, and only together with, the dictionary.
- `SignersCorrect`: a successful update makes the mapping a function of the table, a
  failing one leaves a table with a refused row, and while there is one nothing is
  claimed; the key's row can only leave that state through a deletion, whose update then
  succeeds.
- `SignersShared`: a rebuild reuses a signer of the row's URL whenever there is one, so,
  if signers with one URL were equal before, the signer of a row depends on its URL alone.
- `DeletionsCount`: a key whose deletion was reported is in neither the table nor the
  mapping. A deletion is reported only if the update succeeded, and no update gives a signer to
  a key without a row.
- `RefinesKeyStore`: the statements of a call only add rows or only delete some, at a crash
  as well (`StatementsChange`); an update of the mapping that succeeds serves the URLs of the
  table, whichever signers it reuses (`ServedIsStored`); overrides stutter. It holds with
  refused URLs too, and `StoreServesList` says what the abstract store then promises: once
  they are gone it serves its list.

`BeaconNodesProofs`: `TypeCorrect`, `BestReturned`, `RaisesRightly`, `EnoughNodesReady` and
`NoCallIsStuck`. The invariant says
that every request of a call is running or has a response (`Accounted`), and that every
response the caller has looked at is worth no more than what it keeps (`LookedAt`); after
the timeout it keeps nothing, and all blocks still to come are late. That the best node and
the best aggregate exist at all is `MaximalElement`: a finite set has a maximal element in
any strict order, since the sets of what is above its elements are well-founded by
inclusion. `EnoughNodesReady`: when start-up ended well at least `Threshold` nodes are
initialized, and no step takes one away; the components that need a majority of hosts rely
on it. `NoCallIsStuck`: because of that a call always has a node to ask, and a request that
ends leaves a response, so a call that goes on has one or the other to wait for. These two
are not among the properties of a run; they are the safety half of what `StartupEnds` and
`CallsEnd` suppose.

`StartupProofs`, for any validators, nodes, updates and failures, epochs of any length and
any `LastEpoch` of three or more:

- `TypeCorrect`, among it that time stays within its bounds when the last epoch repeats.
- `SettledCorrect` (`TrackerInv`): in an update that saw one state of the world (`quiet`)
  each list it has already replaced is exact, and the indices left out of the next request
  are exactly those found. The
  lists are exact once the last of its answers is in, and stay so while every update that
  runs is quiet as well.
- `StopsRightly`, `RivalKeepsDutiesOff` (`DetectorInv`): the epoch watched begins after
  detection did, so no attestation of an earlier run of this client is in it. Its liveness
  is asked for when it is over and again after the last slot in which its attestations
  may be included, and only then (`clear`) may the services start; the node knows of an
  attestation of another instance by that time, hence it is found. That no validator is left
  unwatched (`overlooked`) comes from `TrackerInv`: detection reads the lists as the
  update of `initialize` leaves them, and if that one was quiet they are exact. The arithmetic
  of epochs and of the last one, which repeats, is in `EpochReached` and `AfterLastInclusion`.

Not proved, only model-checked: liveness, since fairness and ENABLED are outside the
prover's reach. These are `AgreementIsReached`, `DutyWaitEnds`, `StartedDutyCompletes`,
`StartupEnds`, `LateNodesJoin`, `CallsEnd`, `FailsOver` and `EventuallyAccurate`.

## Not modelled, and why

Parsing, encoding, HTTP, metrics, logging and tracing have no state of their own.
SSZ containers, network configurations and API schemas are declarations. The keymanager's
HTTP API delegates to `Keymanager`; the CLI's arguments appear as assumptions on constants.
The comparison of the nodes' spec with the client's, and all that may be wrong with a
body, is the status "bad" of a node. `RemoteSigner`'s score feeds a metric, and its
batches change no state. `DutyCache.cache_duties` writes what only the next run reads,
which is why it appears as what the initial states may hold. Waiting for genesis, the HTTP
servers and the opening of connections come before everything modelled here. Beacon nodes, the remote signer
and the scheduler library are modelled by what the code relies on: they answer, fail or stay
silent; a job runs once, at or after its time, however late
(`misfire_grace_time=None`).

## Plan

1. Done: `BlockProposal` with the waiting of `shut_down`. That `shut_down` ends is not
   stated: it does not when a duty of the current slot appears after
   `on_new_slot` looked for it, or while a slashing keeps it from being performed, and
   block requests have no timeout of their own.
2. Done: `SyncCommittee`; `Keymanager`; the duty caches as initial states.
3. Done: `BeaconNodes`; `StatusTracker`, `DoppelgangerDetector` and `Startup`.
4. Done: proofs about the data provider, the event consumer and the nodes' calls.
5. Done: proofs about `Startup` with its components; `KeyStore`, and that `Keymanager`
   implements it; the provider's fallback as `QuorumAgreement`; what the threshold is for.
6. Done: safety of start-up and of the calls of `BeaconNodes` beyond what its run checks.
7. To come: the composition of the status tracker with a duty service that reads its
   lists.
