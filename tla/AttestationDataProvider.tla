---------------------- MODULE AttestationDataProvider ----------------------
(***************************************************************************)
(* providers/attestation_data_provider.py: how the AttestationData to sign *)
(* is chosen.  After a head event, the first node to return AttestationData*)
(* for that block provides it and Threshold nodes must confirm its finality*)
(* checkpoints, unless those are cached; if either takes too long, or      *)
(* without a head event, Threshold nodes must agree on all of it.          *)
(*                                                                         *)
(* Calls overlap (a warm-up call, the call for a head event, the call at   *)
(* the deadline) and share the checkpoint caches.  The fallback is modelled*)
(* as the promise of QuorumAgreement, which AttestationConsensus implements*)
(*                                                                         *)
(* Any node may answer anything at any time: no assumption is made on how  *)
(* many of them are wrong.                                                 *)
(***************************************************************************)
EXTENDS AttestationHosts

CONSTANTS
    NoBlock,        \* head_event_block_root is None
    NoCheckpoint,   \* no cached checkpoint for an epoch
    MaxEpoch,       \* bound: the last epoch of a checkpoint
    KeptEpochs,     \* the checkpoints a prune keeps: 3
    Call            \* calls that may run at the same time

\* Here all hosts are initialized, and AttestationData has a block, a source and a
\* target checkpoint.
Epochs == 0..MaxEpoch
Sources == {d.source : d \in Data}
Targets == {d.target : d \in Data}
Blocks == {d.block : d \in Data}

ASSUME DataAssumption ==
    /\ NoBlock \notin Blocks
    /\ NoCheckpoint \notin Sources \cup Targets
    /\ \A d \in Data : d.source.epoch \in Epochs /\ d.target.epoch \in Epochs
ASSUME BoundsAssumption == MaxEpoch \in Nat /\ KeptEpochs \in Nat \ {0}

VARIABLES
    sourceCache,    \* source_checkpoint_confirmation_cache
    targetCache,    \* target_checkpoint_confirmation_cache
    pc,             \* per call: idle, fetch, confirm, agree, returned, cancelled
    head,           \* per call: head_event_block_root
    attData,        \* per call: att_data, the result if it returned
    confirmed,      \* per call: the nodes that confirmed the checkpoints
    answers,        \* per call: host_to_att_data of the fallback
    said            \* history: what each node ever answered

cacheVars == <<sourceCache, targetCache>>
callVars == <<pc, head, attData, confirmed, answers>>
vars == <<cacheVars, callVars, said>>

TypeOK ==
    /\ sourceCache \in [Epochs -> Sources \cup {NoCheckpoint}]
    /\ targetCache \in [Epochs -> Targets \cup {NoCheckpoint}]
    /\ pc \in [Call -> {"idle", "fetch", "confirm", "agree", "returned", "cancelled"}]
    /\ head \in [Call -> Blocks \cup {NoBlock}]
    /\ attData \in [Call -> Data \cup {NoData}]
    /\ confirmed \in [Call -> SUBSET Host]
    /\ answers \in [Call -> [Host -> Data \cup {NoData}]]
    /\ said \in [Host -> SUBSET Data]

NoAnswers == [h \in Host |-> NoData]

Init ==
    /\ sourceCache = [e \in Epochs |-> NoCheckpoint]
    /\ targetCache = [e \in Epochs |-> NoCheckpoint]
    /\ pc = [c \in Call |-> "idle"]
    /\ head = [c \in Call |-> NoBlock]
    /\ attData = [c \in Call |-> NoData]
    /\ confirmed = [c \in Call |-> {}]
    /\ answers = [c \in Call |-> NoAnswers]
    /\ said = [h \in Host |-> {}]

-----------------------------------------------------------------------------
(* The checkpoint caches *)

SameCheckpoints(d1, d2) == d1.source = d2.source /\ d1.target = d2.target

\* Mutant of IsCached: either checkpoint will do.
IsCachedInPart(d) ==
    sourceCache[d.source.epoch] = d.source \/ targetCache[d.target.epoch] = d.target

\* _confirm_finality_checkpoints returns at once.
IsCached(d) ==
    /\ sourceCache[d.source.epoch] = d.source
    /\ targetCache[d.target.epoch] = d.target

\* _cache_checkpoints.
CacheCheckpoints(d) ==
    /\ sourceCache' = [sourceCache EXCEPT ![d.source.epoch] = d.source]
    /\ targetCache' = [targetCache EXCEPT ![d.target.epoch] = d.target]

\* sorted(..., reverse=True)[:3] keeps this epoch.
Recent(cache, e) ==
    Cardinality({f \in Epochs : f > e /\ cache[f] # NoCheckpoint}) < KeptEpochs

Pruned(cache) ==
    [e \in Epochs |-> IF Recent(cache, e) THEN cache[e] ELSE NoCheckpoint]

\* The job that runs every 10 minutes.
Prune ==
    /\ sourceCache' = Pruned(sourceCache)
    /\ targetCache' = Pruned(targetCache)
    /\ UNCHANGED <<callVars, said>>

-----------------------------------------------------------------------------
(* produce_attestation_data *)

\* A node answers a request for AttestationData.
Say(h, d) == said' = [said EXCEPT ![h] = @ \cup {d}]

Goto(c, label) == pc' = [pc EXCEPT ![c] = label]

\* With a head event, ask every node for AttestationData; else for agreement.
Start(c, b) ==
    /\ pc[c] = "idle"
    /\ head' = [head EXCEPT ![c] = b]
    /\ Goto(c, IF b = NoBlock THEN "agree" ELSE "fetch")
    /\ UNCHANGED <<cacheVars, attData, confirmed, answers, said>>

\* The first node to return AttestationData for the expected block.
FirstAnswer(c, h, d) ==
    /\ pc[c] = "fetch"
    /\ d.block = head[c]
    /\ Say(h, d)
    /\ attData' = [attData EXCEPT ![c] = d]
    /\ Goto(c, IF IsCached(d) THEN "returned" ELSE "confirm")
    /\ UNCHANGED <<cacheVars, head, confirmed, answers>>

\* Mutant of IsConfirmed: one node too few.
IsConfirmedEarly(hosts) == Cardinality(hosts) + 1 >= Threshold

IsConfirmed(hosts) == Cardinality(hosts) >= Threshold

\* wait_for_checkpoints: another node answers with the same checkpoints, perhaps
\* for another block.  At the threshold they are cached and the call returns.
Confirm(c, h, d) ==
    /\ pc[c] = "confirm"
    /\ h \notin confirmed[c]
    /\ SameCheckpoints(d, attData[c])
    /\ Say(h, d)
    /\ confirmed' = [confirmed EXCEPT ![c] = @ \cup {h}]
    /\ IF IsConfirmed(confirmed'[c])
       THEN CacheCheckpoints(attData[c]) /\ Goto(c, "returned")
       ELSE UNCHANGED <<cacheVars, pc>>
    /\ UNCHANGED <<head, attData, answers>>

\* Mutant of GiveUp: who confirmed the checkpoints counts for agreement as well.
GiveUpCounting(c) ==
    /\ pc[c] \in {"fetch", "confirm"}
    /\ Goto(c, "agree")
    /\ attData' = [attData EXCEPT ![c] = NoData]
    /\ confirmed' = [confirmed EXCEPT ![c] = {}]
    /\ answers' = [answers EXCEPT ![c] =
                       [h \in Host |-> IF h \in confirmed[c] THEN attData[c] ELSE NoData]]
    /\ UNCHANGED <<cacheVars, head, said>>

\* Half a second without AttestationData for the block, or a second without
\* confirmation: fall back to agreement.
GiveUp(c) ==
    /\ pc[c] \in {"fetch", "confirm"}
    /\ Goto(c, "agree")
    /\ attData' = [attData EXCEPT ![c] = NoData]
    /\ confirmed' = [confirmed EXCEPT ![c] = {}]
    /\ UNCHANGED <<cacheVars, head, answers, said>>

\* QuorumAgreement: a node gives an answer that differs from its previous one.
\* Agreed checkpoints are cached too.
Agree(c, h, d) ==
    LET supporters == {g \in Host : answers'[c][g] = d}
    IN  /\ pc[c] = "agree"
        /\ answers[c][h] # d
        /\ Say(h, d)
        /\ answers' = [answers EXCEPT ![c][h] = d]
        /\ IF Cardinality(supporters) >= Threshold
           THEN /\ CacheCheckpoints(d)
                /\ attData' = [attData EXCEPT ![c] = d]
                /\ Goto(c, "returned")
           ELSE UNCHANGED <<cacheVars, attData, pc>>
        /\ UNCHANGED <<head, confirmed>>

\* The caller's wait_for ends with the slot.
Cancel(c) ==
    /\ pc[c] \in {"fetch", "confirm", "agree"}
    /\ Goto(c, "cancelled")
    /\ attData' = [attData EXCEPT ![c] = NoData]
    /\ UNCHANGED <<cacheVars, head, confirmed, answers, said>>

\* The caller is done with the result; another call may be made.
Forget(c) ==
    /\ pc[c] \in {"returned", "cancelled"}
    /\ Goto(c, "idle")
    /\ head' = [head EXCEPT ![c] = NoBlock]
    /\ attData' = [attData EXCEPT ![c] = NoData]
    /\ confirmed' = [confirmed EXCEPT ![c] = {}]
    /\ answers' = [answers EXCEPT ![c] = NoAnswers]
    /\ UNCHANGED <<cacheVars, said>>

-----------------------------------------------------------------------------

CallStep(c) ==
    \/ \E b \in Blocks \cup {NoBlock} : Start(c, b)
    \/ \E h \in Host, d \in Data :
        FirstAnswer(c, h, d) \/ Confirm(c, h, d) \/ Agree(c, h, d)
    \/ GiveUp(c)
    \/ Cancel(c)
    \/ Forget(c)

Next == Prune \/ \E c \in Call : CallStep(c)

Spec == Init /\ [][Next]_vars

-----------------------------------------------------------------------------
(* Properties *)

SaidSource(cp) == {h \in Host : \E d \in said[h] : d.source = cp}
SaidTarget(cp) == {h \in Host : \E d \in said[h] : d.target = cp}

\* A checkpoint is backed: Threshold nodes have reported it.
Backed(d) ==
    /\ Cardinality(SaidSource(d.source)) >= Threshold
    /\ Cardinality(SaidTarget(d.target)) >= Threshold

\* using_multiple_beacon_nodes: the client only attests to finality checkpoints that
\* enough beacon nodes confirmed.  Whatever was cached by earlier or concurrent
\* calls, each checkpoint of returned AttestationData was reported by Threshold
\* nodes, so fewer wrong nodes never get their checkpoint attested.
ResultIsBacked == \A c \in Call : pc[c] = "returned" => Backed(attData[c])

\* Only checkpoints that Threshold nodes reported are ever cached.
CacheIsBacked ==
    \A e \in Epochs :
        /\ sourceCache[e] # NoCheckpoint =>
               Cardinality(SaidSource(sourceCache[e])) >= Threshold
        /\ targetCache[e] # NoCheckpoint =>
               Cardinality(SaidTarget(targetCache[e])) >= Threshold

-----------------------------------------------------------------------------
(* The fallback keeps the promise of QuorumAgreement *)

\* Per call, the fallback is a QuorumAgreement on the answers it got.
Fallback(c) == INSTANCE QuorumAgreement
                   WITH answer <- answers[c], decision <- attData[c]

\* A call that falls back begins without answers, and until it is over every step is
\* one of the agreement or leaves it alone.
FallbackStep(c) ==
    /\ pc[c] # "agree" /\ pc'[c] = "agree" => Fallback(c)!AgreementInit'
    /\ pc[c] = "agree" => \/ Fallback(c)!AgreementNext
                          \/ UNCHANGED <<answers[c], attData[c]>>

\* A call falls back to _produce_attestation_data_without_expected_head_block_root, which asks
\* anew: of the nodes that confirmed checkpoints before the timeout, and of what other
\* calls were told, nothing counts for the agreement, whichever calls overlap.
FallbackAgrees == [][\A c \in Call : FallbackStep(c)]_vars
=============================================================================
