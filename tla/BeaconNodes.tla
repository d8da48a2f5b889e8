----------------------------- MODULE BeaconNodes -----------------------------
(***************************************************************************)
(* MultiBeaconNode and BeaconNode: how nodes are initialized, how their    *)
(* scores move, and how a call is answered from several nodes.             *)
(*                                                                         *)
(* A call is of one of these kinds:                                        *)
(*   "best"       one request to best_beacon_node                          *)
(*   "version"    update_node_version, a scheduled request to one node     *)
(*   "first"      _get_first_beacon_node_response                          *)
(*   "all"        _get_all_beacon_node_responses                           *)
(*   "publish"    the same, to the nodes used for block proposals          *)
(*   "aggregate"  get_aggregate_attestation_v2 and                         *)
(*                get_sync_committee_contribution                          *)
(*   "block"      _produce_best_block                                      *)
(*                                                                         *)
(* Calls follow each other.  An answer is abstracted to the number the     *)
(* code compares: the value of a block, the participants of an aggregate.  *)
(* A node that is up answers, one that is down fails or never answers, a   *)
(* bad one answers what cannot be used (another spec, an optimistic head,  *)
(* a body that cannot be decoded).                                         *)
(***************************************************************************)
EXTENDS Integers, FiniteSets, SequencesExt

CONSTANTS
    Main,           \* beacon_node_urls, numbered in the configured order
    Proposal,       \* beacon_node_urls_proposal, numbered after Main
    Threshold,      \* _attestation_consensus_threshold
    Values,         \* what an answer is worth
    MaxScore,       \* BeaconNode.MAX_SCORE
    FailureDelta    \* BeaconNode.SCORE_DELTA_FAILURE

Node == Main \cup Proposal
Failed == -1        \* the value of a response that is an exception

ASSUME NodeAssumption ==
    /\ Main \subseteq Nat \ {0} /\ Proposal \subseteq Nat \ {0}
    /\ IsFiniteSet(Main) /\ IsFiniteSet(Proposal)
    /\ Main \cap Proposal = {}
ASSUME ThresholdAssumption == Threshold \in 1..Cardinality(Main)
ASSUME ScoreAssumption == MaxScore \in Nat \ {0} /\ FailureDelta \in Nat \ {0}
ASSUME ValuesAssumption == Values \subseteq Nat

VARIABLES
    status,         \* environment: "up", "down" or "bad", per node
    initTask,       \* BeaconNode.initialize_full, per node of Main
    initialized,    \* nodes with bn.initialized
    score,          \* BeaconNode.score
    boot,           \* MultiBeaconNode.initialize
    expired,        \* its deadline has passed
    call            \* the latest call

bootVars == <<initTask, initialized, boot, expired>>
vars == <<status, bootVars, score, call>>

Response == [node : Node, value : Values \cup {Failed}, inTime : BOOLEAN]
NoResponse == [node |-> 0, value |-> Failed, inTime |-> FALSE]
Kinds == {"best", "version", "first", "all", "publish", "aggregate", "block"}
Ended == {"none", "returned", "raised"}

TypeOK ==
    /\ status \in [Node -> {"up", "down", "bad"}]
    /\ initTask \in [Main -> {"first", "waiting", "retrying", "done"}]
    /\ initialized = {n \in Main : initTask[n] = "done"}
    /\ score \in [Node -> 0..MaxScore]
    /\ boot \in {"gather", "poll", "ready", "failed"}
    /\ expired \in BOOLEAN
    /\ call.kind \in Kinds
    /\ call.phase \in {"timed", "next", "gather"} \cup Ended
    /\ call.accepted \subseteq call.running /\ call.running \subseteq call.asked
    /\ call.asked \subseteq Node
    /\ call.arrived \in Seq(Response)
    /\ call.best \in Response \cup {NoResponse}
    /\ call.timeUp \in BOOLEAN
    /\ call.responses \subseteq Response

\* `responses` is history: every response the call's requests completed with.
NoCall == [kind |-> "best", phase |-> "none", asked |-> {}, running |-> {},
           accepted |-> {}, arrived |-> <<>>, best |-> NoResponse,
           timeUp |-> FALSE, responses |-> {}]

Init ==
    /\ status \in [Node -> {"up", "down", "bad"}]
    /\ initTask = [n \in Main |-> "first"]
    /\ initialized = {}
    /\ score = [n \in Node |-> 0]
    /\ boot = "gather"
    /\ expired = FALSE
    /\ call = NoCall

-----------------------------------------------------------------------------
(* Environment *)

ChangeStatus(n, s) ==
    /\ status[n] # s
    /\ status' = [status EXCEPT ![n] = s]
    /\ UNCHANGED <<bootVars, score, call>>

\* _init_timeout has passed since MultiBeaconNode.initialize began.
DeadlinePasses ==
    /\ ~expired
    /\ boot \in {"gather", "poll"}
    /\ expired' = TRUE
    /\ UNCHANGED <<status, initTask, initialized, boot, score, call>>

\* Half an interval has passed since the block was asked for.
TimeoutPasses ==
    /\ call.phase = "timed"
    /\ ~call.timeUp
    /\ call' = [call EXCEPT !.timeUp = TRUE]
    /\ UNCHANGED <<status, bootVars, score>>

-----------------------------------------------------------------------------
(* Scores *)

\* Mutant of Clamped: the score may leave 0..MaxScore.
Unclamped(value) == value

Clamped(value) ==
    IF value < 0 THEN 0 ELSE IF value > MaxScore THEN MaxScore ELSE value

\* Mutant of Punished: a failure leaves the score alone.
Unpunished(n) == score

Rewarded(n) == [score EXCEPT ![n] = Clamped(@ + 1)]
Punished(n) == [score EXCEPT ![n] = Clamped(@ - FailureDelta)]

\* best_beacon_node: sorted() keeps the configured order among equals.
BestNode ==
    CHOOSE n \in initialized :
        \A m \in initialized :
            score[n] > score[m] \/ (score[n] = score[m] /\ n <= m)

-----------------------------------------------------------------------------
(* Initialization *)

\* BeaconNode._initialize_full ends; a failed one is tried again later.
Initialize(n) ==
    /\ boot # "failed"
    /\ initTask[n] \in {"first", "retrying"}
    /\ \/ /\ status[n] = "up"
          /\ initTask' = [initTask EXCEPT ![n] = "done"]
          /\ initialized' = initialized \cup {n}
          /\ score' = [score EXCEPT ![n] = MaxScore]
       \/ /\ status[n] # "up"
          /\ initTask' = [initTask EXCEPT ![n] = "waiting"]
          /\ score' = IF status[n] = "bad" THEN Rewarded(n) ELSE Punished(n)
          /\ UNCHANGED initialized
    /\ UNCHANGED <<status, boot, expired, call>>

\* Mutant of RetryInitialize: the retry gives up once start-up is over.
RetryWhileBooting(n) ==
    /\ boot \in {"gather", "poll"}
    /\ initTask[n] = "waiting"
    /\ initTask' = [initTask EXCEPT ![n] = "retrying"]
    /\ UNCHANGED <<status, initialized, boot, expired, score, call>>

\* The task created with delay=_init_retry_interval starts.
RetryInitialize(n) ==
    /\ boot # "failed"
    /\ initTask[n] = "waiting"
    /\ initTask' = [initTask EXCEPT ![n] = "retrying"]
    /\ UNCHANGED <<status, initialized, boot, expired, score, call>>

\* asyncio.gather: every node's first attempt is over.
EndGatherOfNodes ==
    /\ boot = "gather"
    /\ \A n \in Main : initTask[n] # "first"
    /\ boot' = "poll"
    /\ UNCHANGED <<status, initTask, initialized, expired, score, call>>

\* Mutant of PollNodes: the deadline is not looked at.
PollWithoutDeadline ==
    /\ boot = "poll"
    /\ Cardinality(initialized) >= Threshold
    /\ boot' = "ready"
    /\ UNCHANGED <<status, initTask, initialized, expired, score, call>>

\* One turn of the loop that leaves it.
PollNodes ==
    /\ boot = "poll"
    /\ \/ Cardinality(initialized) >= Threshold /\ boot' = "ready"
       \/ Cardinality(initialized) < Threshold /\ expired /\ boot' = "failed"
    /\ UNCHANGED <<status, initTask, initialized, expired, score, call>>

-----------------------------------------------------------------------------
(* Requests *)

BlockNodes == IF Proposal # {} THEN Proposal ELSE initialized

AskedBy(kind) ==
    CASE kind = "best" -> {{BestNode}}
      [] kind = "version" -> {{n} : n \in initialized}
      [] kind \in {"first", "all", "aggregate"} -> {initialized}
      [] kind \in {"publish", "block"} -> {BlockNodes}

\* One task per node asked.  The scheduler asks for the version of a node as
\* soon as it is initialized, the services ask after start-up.
StartCall(kind) ==
    /\ boot = "ready" \/ (boot # "failed" /\ kind = "version")
    /\ call.phase \in Ended
    /\ \E nodes \in AskedBy(kind) :
           call' = [NoCall EXCEPT
                      !.kind = kind,
                      !.phase = CASE kind \in {"best", "version", "first"} -> "next"
                                  [] kind = "block" -> "timed"
                                  [] OTHER -> "gather",
                      !.asked = nodes,
                      !.running = nodes]
    /\ UNCHANGED <<status, bootVars, score>>

\* _make_request: the status code is OK.
Accept(n) ==
    /\ n \in call.running \ call.accepted
    /\ status[n] # "down"
    /\ score' = Rewarded(n)
    /\ call' = [call EXCEPT !.accepted = @ \cup {n}]
    /\ UNCHANGED <<status, bootVars>>

Complete(n, value) ==
    LET response == [node |-> n, value |-> value, inTime |-> ~call.timeUp]
    IN  call' = [call EXCEPT !.running = @ \ {n},
                             !.accepted = @ \ {n},
                             !.arrived = Append(@, response),
                             !.responses = @ \cup {response}]

\* The body is read; a bad one raises after _make_request returned.
Answer(n) ==
    /\ n \in call.accepted
    /\ \/ status[n] = "up" /\ \E v \in Values : Complete(n, v)
       \/ status[n] = "bad" /\ Complete(n, Failed)
    /\ UNCHANGED <<status, bootVars, score>>

\* The request is refused, times out or breaks off.
Fail(n) ==
    /\ n \in call.running
    /\ status[n] = "down"
    /\ score' = Punished(n)
    /\ Complete(n, Failed)
    /\ UNCHANGED <<status, bootVars>>

-----------------------------------------------------------------------------
(* The caller *)

\* The requests still running are cancelled; that leaves their score alone.
EndWith(c, phase) == [c EXCEPT !.phase = phase, !.running = {}, !.accepted = {}]

\* Mutant of BestOf: the latest response replaces the best one.
LatestOf(best, responses) ==
    LET usable == {r \in responses : r.value # Failed}
    IN  IF usable = {} THEN {best} ELSE usable

\* What `for coro in done` may leave in best_block_response: the order of a
\* set decides between blocks of the same value.
BestOf(best, responses) ==
    LET better == {r \in responses : r.value > best.value}
        most == {r \in better : \A s \in better : r.value >= s.value}
    IN  IF better = {} THEN {best} ELSE most

\* Mutant of AfterWait: the loop goes on until every node has completed.
AfterWaitForAll(c) ==
    IF c.running # {} THEN c
    ELSE EndWith(c, IF c.best.value # Failed THEN "returned" ELSE "raised")

\* Mutant of AfterWait: no wait for the first block after the timeout.
AfterWaitGivingUp(c) ==
    IF c.running # {} /\ ~c.timeUp THEN c
    ELSE EndWith(c, IF c.best.value # Failed THEN "returned" ELSE "raised")

\* The loop's condition, then the wait for the first block if there is none.
AfterWait(c) ==
    IF c.running # {} /\ ~c.timeUp THEN c
    ELSE IF c.best.value # Failed THEN EndWith(c, "returned")
    ELSE IF c.running # {} THEN [c EXCEPT !.phase = "next"]
    ELSE EndWith(c, "raised")

\* asyncio.wait returns: all completed requests are looked at in one go.
HandleDone ==
    /\ call.phase = "timed"
    /\ call.arrived # <<>> \/ call.timeUp
    /\ \E best \in BestOf(call.best, ToSet(call.arrived)) :
           call' = AfterWait([call EXCEPT !.best = best, !.arrived = <<>>])
    /\ UNCHANGED <<status, bootVars, score>>

\* asyncio.as_completed hands out the next completed request.
HandleNext ==
    /\ call.phase = "next"
    /\ call.arrived # <<>>
    /\ LET response == Head(call.arrived)
           rest == [call EXCEPT !.arrived = Tail(@)]
       IN  call' = IF response.value # Failed
                   THEN EndWith([rest EXCEPT !.best = response], "returned")
                   ELSE IF rest.running = {} /\ rest.arrived = <<>>
                   THEN EndWith(rest, "raised")
                   ELSE rest
    /\ UNCHANGED <<status, bootVars, score>>

\* Aggregates: the most participants, at least one; the first such node.
BestAggregate(responses) ==
    LET useful == {r \in responses : r.value > 0}
        most == {r \in useful : \A s \in useful : r.value >= s.value}
    IN  IF useful = {} THEN NoResponse
        ELSE CHOOSE r \in most : \A s \in most : r.node <= s.node

\* Exceptions are left out; without any other response the call raises.
Gathered(c) ==
    LET usable == {r \in c.responses : r.value # Failed}
    IN  IF c.kind = "aggregate" THEN BestAggregate(usable)
        ELSE IF usable = {} THEN NoResponse
        ELSE CHOOSE r \in usable : TRUE

\* asyncio.gather returns when every request has completed.
HandleAll ==
    /\ call.phase = "gather"
    /\ call.running = {}
    /\ LET best == Gathered(call)
       IN  call' = EndWith([call EXCEPT !.best = best, !.arrived = <<>>],
                           IF best = NoResponse THEN "raised" ELSE "returned")
    /\ UNCHANGED <<status, bootVars, score>>

CallStep == HandleDone \/ HandleNext \/ HandleAll

Next ==
    \/ \E n \in Node, s \in {"up", "down", "bad"} : ChangeStatus(n, s)
    \/ DeadlinePasses \/ TimeoutPasses
    \/ \E n \in Main : Initialize(n) \/ RetryInitialize(n)
    \/ EndGatherOfNodes \/ PollNodes
    \/ \E kind \in Kinds : StartCall(kind)
    \/ \E n \in Node : Accept(n) \/ Answer(n) \/ Fail(n)
    \/ CallStep

\* Every request but that of a block has a timeout; a node that is up
\* answers; the clock goes on and the event loop runs what is ready.  A node
\* that is down may leave a block request without an end.
Fairness ==
    /\ WF_vars(DeadlinePasses) /\ WF_vars(TimeoutPasses)
    /\ \A n \in Main : WF_vars(Initialize(n)) /\ WF_vars(RetryInitialize(n))
    /\ WF_vars(EndGatherOfNodes) /\ WF_vars(PollNodes)
    /\ \A n \in Node :
           WF_vars(Accept(n) \/ Answer(n) \/ (call.kind # "block" /\ Fail(n)))
    /\ WF_vars(CallStep)

Spec == Init /\ [][Next]_vars /\ Fairness

-----------------------------------------------------------------------------
(* Properties *)

\* _produce_best_block returns a block some node produced, and none of the
\* blocks that arrived before its timeout is worth more; the same for an
\* aggregate among all answers.
BestAnswerReturned ==
    (call.phase = "returned" /\ call.kind \in {"block", "aggregate"}) =>
        /\ call.best \in call.responses /\ call.best.value # Failed
        /\ \A r \in call.responses :
               r.inTime => r.value <= call.best.value

\* A call raises only when every node it asked has completed and none gave
\* an answer that can be used: no slow node is given up, no error of one
\* node hides the answer of another.
RaisesOnlyWithoutAnswer ==
    call.phase = "raised" =>
        /\ {r.node : r \in call.responses} = call.asked
        /\ \A r \in call.responses :
               r.value = Failed \/ (call.kind = "aggregate" /\ r.value = 0)

\* MultiBeaconNode.initialize ends, with enough nodes or with an error.
StartupEnds == <>(boot \in {"ready", "failed"})

\* A node that is up for good takes part in the end, also when it came up
\* long after start-up.
LateNodesJoin ==
    \A n \in Main :
        <>[](status[n] = "up") => <>(n \in initialized \/ boot = "failed")

\* Every call ends; a block call, which has no timeout of its own once no
\* block arrived in time, stays open only while a node it asked is silent, and
\* not even then once there is a block that can be used.
CallsEnd ==
    /\ (call.phase \notin Ended /\ call.kind # "block") ~> (call.phase \in Ended)
    /\ []<>(call.phase \in Ended \/ \E n \in call.running : status[n] = "down")
    /\ (\E r \in call.responses : r.value # Failed /\ call.kind = "block")
           ~> (call.phase \in Ended)

\* Failover: a node that is down for good is not the best one for ever,
\* while another one is up and all nodes are asked again and again.
FailsOver ==
    \A n, m \in Main :
        (/\ <>[](status[n] = "down") /\ <>[](status[m] = "up")
         /\ []<><<StartCall("all")>>_vars)
        => <>[](boot = "ready" => BestNode # n)

=============================================================================
