-------------------------- MODULE QuorumAgreement --------------------------
(***************************************************************************)
(* What attesting without a head event promises, whatever the beacon       *)
(* nodes, their failures and the order of their answers.  Every host has a *)
(* current answer, which it may replace at any time.  A decision is taken  *)
(* in the very step that makes the supporters of some AttestationData a    *)
(* quorum, for that AttestationData, once.                                 *)
(*                                                                         *)
(* AttestationConsensus implements this specification: its hosts answer in *)
(* rounds, its supporters are a counter maintained incrementally.          *)
(***************************************************************************)
CONSTANTS
    Host,       \* hostnames of the connected beacon nodes
    Data,       \* the AttestationData a host may return for the slot
    NoData,     \* no answer, or no decision, yet
    Quorum      \* the sets of hosts that are enough to attest

VARIABLES
    answer,     \* the last AttestationData each host returned
    decision    \* the AttestationData to attest to

agreementVars == <<answer, decision>>

SupportersIn(a, d) == {h \in Host : a[h] = d}

AgreementInit ==
    /\ answer = [h \in Host |-> NoData]
    /\ decision = NoData

\* A host gives an answer that differs from its previous one.
Answer(h, d) ==
    /\ decision = NoData
    /\ answer[h] # d
    /\ answer' = [answer EXCEPT ![h] = d]
    /\ decision' = IF SupportersIn(answer', d) \in Quorum
                   THEN d ELSE NoData

AgreementNext == \E h \in Host, d \in Data : Answer(h, d)

AgreementSpec == AgreementInit /\ [][AgreementNext]_agreementVars

-----------------------------------------------------------------------------

AnswersOK == answer \in [Host -> Data \cup {NoData}]

\* What is decided has the quorum it was decided with, since nothing changes any more;
\* and while there is no decision no AttestationData has one, although answers are
\* compared one at a time.
DecisionIsAgreement ==
    IF decision = NoData THEN \A d \in Data : SupportersIn(answer, d) \notin Quorum
                         ELSE SupportersIn(answer, decision) \in Quorum
=============================================================================
