------------------------ MODULE AttestationConsensus ------------------------
(***************************************************************************)
(* MultiBeaconNode.produce_attestation_data_without_head_event: one call,  *)
(* which asks every initialized beacon node for AttestationData, round     *)
(* after round, until Threshold distinct hosts return the same one.        *)
(*                                                                         *)
(* A round creates one task per initialized beacon node.  A task completes *)
(* with an AttestationData or an error (every request has a 0.5s timeout)  *)
(* at any time; asyncio.as_completed hands the completed tasks to the      *)
(* caller in completion order.  A new round starts after all the tasks of  *)
(* the previous one were handled.  The caller wraps the call in            *)
(* asyncio.wait_for, which may cancel it at any suspension point.          *)
(*                                                                         *)
(* AttestationData is a member of the set Data: the code only compares it. *)
(* All values are for one slot.  This is the fallback of                   *)
(* AttestationDataProvider.                                                *)
(***************************************************************************)
EXTENDS AttestationHosts, Sequences

VARIABLES
    \* Environment
    initialized,      \* hosts with bn.initialized
    healthy,          \* hosts whose next answer is not an error
    view,             \* the AttestationData each host would answer with
    \* The call
    phase,            \* "round", "sleep" (end of round), "returned", "cancelled"
    requested,        \* hosts whose task of this round is still running
    completed,        \* completed tasks not handled yet, in completion order
    hostToAttData,    \* host_to_att_data
    attDataCounter,   \* att_data_counter
    result            \* the AttestationData returned

nodeVars == <<initialized, healthy, view>>
taskVars == <<phase, requested, completed, hostToAttData, attDataCounter, result>>
consensusVars == <<nodeVars, taskVars>>

Response == [host : Host, data : Data \cup {NoData}]   \* NoData: the task failed

ConsensusTypeOK ==
    /\ initialized \in SUBSET Host
    /\ healthy \in SUBSET Host
    /\ view \in [Host -> Data]
    /\ phase \in {"round", "sleep", "returned", "cancelled"}
    /\ requested \in SUBSET Host
    /\ completed \in Seq(Response)
    /\ hostToAttData \in [Host -> Data \cup {NoData}]
    /\ attDataCounter \in [Data -> Nat]
    /\ result \in Data \cup {NoData}

\* MultiBeaconNode.initialize let Threshold nodes through; others may be
\* initialized later.  The call starts its first round at once.
ConsensusInit ==
    /\ initialized \in {I \in SUBSET Host : Cardinality(I) >= Threshold}
    /\ healthy \in SUBSET Host
    /\ view \in [Host -> Data]
    /\ phase = "round"
    /\ requested = initialized
    /\ completed = <<>>
    /\ hostToAttData = [h \in Host |-> NoData]
    /\ attDataCounter = [d \in Data |-> 0]
    /\ result = NoData

-----------------------------------------------------------------------------
(* Beacon nodes *)

\* BeaconNode.initialize_full succeeds after a retry.
InitializeNode(h) ==
    /\ h \notin initialized
    /\ initialized' = initialized \cup {h}
    /\ UNCHANGED <<healthy, view, taskVars>>

\* The head or the checkpoints of a node change.
ChangeView(h, d) ==
    /\ view[h] # d
    /\ view' = [view EXCEPT ![h] = d]
    /\ UNCHANGED <<initialized, healthy, taskVars>>

\* A node starts or stops answering with errors.
ChangeHealth(h) ==
    /\ healthy' = IF h \in healthy THEN healthy \ {h} ELSE healthy \cup {h}
    /\ UNCHANGED <<initialized, view, taskVars>>

\* BeaconNode.produce_attestation_data completes: the request is answered,
\* fails or times out.
Respond(h) ==
    /\ phase = "round"
    /\ h \in requested
    /\ requested' = requested \ {h}
    /\ completed' = Append(completed,
                           [host |-> h,
                            data |-> IF h \in healthy THEN view[h] ELSE NoData])
    /\ UNCHANGED <<nodeVars, phase, hostToAttData, attDataCounter, result>>

-----------------------------------------------------------------------------
(* The call *)

\* The exception is logged, or the host returned the same AttestationData
\* before: nothing to process.
SkipResponse ==
    /\ phase = "round"
    /\ completed # <<>>
    /\ Head(completed).data \in {NoData, hostToAttData[Head(completed).host]}
    /\ completed' = Tail(completed)
    /\ UNCHANGED <<nodeVars, phase, requested, hostToAttData, attDataCounter, result>>

\* Mutants of Recount: the answer a host gave before keeps counting; every
\* other AttestationData loses a supporter.
RecountKeepingPrevious(counter, prev, d) == [counter EXCEPT ![d] = @ + 1]
RecountAll(counter, prev, d) ==
    [x \in Data |-> IF x = d THEN counter[x] + 1 ELSE counter[x] - 1]

\* att_data_counter after host's answer changes from prev to d.
Recount(counter, prev, d) ==
    [x \in Data |-> IF x = d THEN counter[x] + 1
                    ELSE IF x = prev THEN counter[x] - 1
                    ELSE counter[x]]

\* New AttestationData has arrived from a host.  At the threshold the pending
\* tasks are cancelled and the call returns.
HandleNewAnswer(required) ==
    LET h == Head(completed).host
        d == Head(completed).data
    IN  /\ phase = "round"
        /\ completed # <<>>
        /\ d \notin {NoData, hostToAttData[h]}
        /\ hostToAttData' = [hostToAttData EXCEPT ![h] = d]
        /\ attDataCounter' = Recount(attDataCounter, hostToAttData[h], d)
        /\ IF attDataCounter'[d] >= required
           THEN /\ phase' = "returned"
                /\ result' = d
                /\ requested' = {}
                /\ completed' = <<>>
           ELSE /\ completed' = Tail(completed)
                /\ UNCHANGED <<phase, requested, result>>
        /\ UNCHANGED nodeVars

\* Mutants of ProcessResponse: agreement one host early, one host late.
ProcessResponseEarly == HandleNewAnswer(Threshold - 1)
ProcessResponseLate == HandleNewAnswer(Threshold + 1)

ProcessResponse == HandleNewAnswer(Threshold)

\* Every task of the round was handled: sleep for the rest of the 30ms.
EndRound ==
    /\ phase = "round"
    /\ requested = {}
    /\ completed = <<>>
    /\ phase' = "sleep"
    /\ UNCHANGED <<nodeVars, requested, completed, hostToAttData, attDataCounter, result>>

\* Mutant of StartRound: only hosts that never answered are asked again.
StartRoundOnce ==
    /\ phase = "sleep"
    /\ phase' = "round"
    /\ requested' = {h \in initialized : hostToAttData[h] = NoData}
    /\ UNCHANGED <<nodeVars, completed, hostToAttData, attDataCounter, result>>

\* The next round asks the nodes that are initialized by now.
StartRound ==
    /\ phase = "sleep"
    /\ phase' = "round"
    /\ requested' = initialized
    /\ UNCHANGED <<nodeVars, completed, hostToAttData, attDataCounter, result>>

\* AttestationService: asyncio.wait_for times out at the end of the slot.
CancelTasks ==
    /\ phase \in {"round", "sleep"}
    /\ phase' = "cancelled"
    /\ requested' = {}
    /\ completed' = <<>>
    /\ UNCHANGED <<nodeVars, hostToAttData, attDataCounter, result>>

NodeStep ==
    \E h \in Host :
        \/ InitializeNode(h)
        \/ \E d \in Data : ChangeView(h, d)
        \/ ChangeHealth(h)
        \/ Respond(h)

TaskStep ==
    \/ SkipResponse
    \/ ProcessResponse
    \/ EndRound
    \/ StartRound
    \/ CancelTasks

ConsensusNext == NodeStep \/ TaskStep

ConsensusSpec == ConsensusInit /\ [][ConsensusNext]_consensusVars

\* Requests have a timeout, so every task completes; completed tasks are
\* handled and the sleep ends because the event loop runs what is ready.
\* Nothing forces a node to change, nor the caller to cancel.
ConsensusFairness ==
    /\ \A h \in Host : WF_consensusVars(Respond(h))
    /\ WF_consensusVars(SkipResponse)
    /\ WF_consensusVars(ProcessResponse)
    /\ WF_consensusVars(EndRound)
    /\ WF_consensusVars(StartRound)

FairConsensusSpec == ConsensusSpec /\ ConsensusFairness

-----------------------------------------------------------------------------
(* Properties *)

Supporters(d) == {h \in Host : hostToAttData[h] = d}

\* The counter, maintained by +1 and -1 as answers arrive over many rounds, is
\* the number of distinct hosts whose last answer is that AttestationData: a
\* host that changes its mind is never counted twice.
CounterIsSupport ==
    \A d \in Data : attDataCounter[d] = Cardinality(Supporters(d))

\* AttestationData is only attested to without a head event when at least
\* Threshold distinct beacon nodes returned it, all its checkpoints included,
\* as their latest processed answer.
ResultHasThreshold ==
    result # NoData => Cardinality(Supporters(result)) >= Threshold

\* The call never overlooks agreement: as long as it is still asking, no
\* AttestationData has Threshold supporters, although only the AttestationData
\* that just arrived is compared with the threshold.
NoOverlookedAgreement ==
    phase \in {"round", "sleep"} =>
        \A d \in Data : Cardinality(Supporters(d)) < Threshold

\* The hosts of Q are initialized and answer with d.
AnswerWith(Q, d) == Q \subseteq initialized \cap healthy /\ \A h \in Q : view[h] = d

Finished == phase \in {"returned", "cancelled"}

\* Once Threshold beacon nodes agree for good, the call returns (or the caller
\* gives up first): failing, slow and flapping nodes do not prevent it.
AgreementIsReached ==
    \A Q \in SUBSET Host, d \in Data :
        Cardinality(Q) = Threshold => (<>[]AnswerWith(Q, d) => <>Finished)

Agreement == INSTANCE QuorumAgreement
                 WITH answer <- hostToAttData, decision <- result

\* The call implements the abstract agreement: it decides in the step in which
\* the supporters of an answer become a quorum, and never again.
ImplementsAgreement == Agreement!AgreementSpec
=============================================================================
