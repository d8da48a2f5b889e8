------------------------ MODULE DoppelgangerDetector ------------------------
(***************************************************************************)
(* DoppelgangerDetector.detect: before the services start, one beacon node *)
(* is asked whether any of the validators attested during an epoch in      *)
(* which this client does not attest.                                      *)
(*                                                                         *)
(* Time is counted in halves of a slot.  It does not end: the last epoch   *)
(* repeats.  Another instance of the client attests at most once; the      *)
(* earlier run of this one attested in epoch 0.  An attestation of an      *)
(* epoch is included until the last slot of the following one              *)
(* (EIP-7045), so the beacon node may or may not know of it before then.   *)
(* This is a component of Startup; the validators are those of the tracker *)
(* of statuses.                                                            *)
(***************************************************************************)
EXTENDS StatusTracker

CONSTANTS
    SlotsPerEpoch,  \* SLOTS_PER_EPOCH
    LastEpoch,      \* bound: the epoch that repeats
    Nobody          \* no other instance attested

HalfSlotsPerEpoch == 2 * SlotsPerEpoch
Epochs == 0..LastEpoch
Times == 0..((LastEpoch + 1) * HalfSlotsPerEpoch - 1)

ASSUME SlotsPerEpochAssumption == SlotsPerEpoch \in Nat \ {0}
\* Detection that begins in epoch 0 ends in epoch 2.
ASSUME LastEpochAssumption == LastEpoch \in Nat /\ LastEpoch >= 3

VARIABLES
    clock,          \* time, in halves of a slot
    rival,          \* the attestation of another instance, or Nobody
    detector        \* the detect() call

detectorVars == <<clock, rival, detector>>

NoDetection == [pc |-> "off", indices |-> {}, epoch |-> 0]
\* epoch: epoch_to_monitor_for_attestations.
Detector == [pc : {"off", "probe", "epoch", "check", "slot", "recheck", "clear", "found"},
             indices : SUBSET Validators, epoch : Nat]
Attestation == [validator : Validators, epoch : Epochs]

ASSUME NobodyAssumption == Nobody \notin Attestation

DetectorTypeOK ==
    /\ clock \in Times
    /\ rival \in Attestation \cup {Nobody}
    /\ detector \in Detector

DetectorInit ==
    /\ clock = 0
    /\ rival = Nobody
    /\ detector = NoDetection

CurrentEpoch == clock \div HalfSlotsPerEpoch
StartOf(epoch) == epoch * HalfSlotsPerEpoch
\* The middle of the last slot of an epoch.
MiddleOfLastSlot(epoch) == 2 * ((epoch + 1) * SlotsPerEpoch - 1) + 1

NextTime == IF clock + 1 \in Times THEN clock + 1 ELSE StartOf(LastEpoch)

\* Mutant of LastSlotBegins: off by one, never the case.
LastSlotOffByOne == NextTime = MiddleOfLastSlot(NextTime \div HalfSlotsPerEpoch) + 1

\* A new slot begins, the last one of its epoch.
LastSlotBegins == NextTime = MiddleOfLastSlot(NextTime \div HalfSlotsPerEpoch) - 1

\* In epoch 0 the rival's attestation would look like one of the earlier run.
RivalAttests(v) ==
    /\ rival = Nobody
    /\ CurrentEpoch \in 1..(LastEpoch - 1)
    /\ rival' = [validator |-> v, epoch |-> CurrentEpoch]
    /\ UNCHANGED <<clock, detector>>

-----------------------------------------------------------------------------
(* detect *)

\* Mutants of MonitoredEpoch: the epoch before, or the one detection begins in.
MonitoredEpochBefore == CurrentEpoch - 1
MonitoredEpochNow == CurrentEpoch
MonitoredEpoch == CurrentEpoch + 1

\* detect() up to its first request, whose answer is not looked at.
BeginDetection(indices) ==
    detector' = [pc |-> "probe", indices |-> indices, epoch |-> MonitoredEpoch]

\* The request for the current epoch succeeds.
EndProbe ==
    /\ detector.pc = "probe"
    /\ detector' = [detector EXCEPT !.pc = "epoch"]
    /\ UNCHANGED <<clock, rival>>

\* The two wait_for_epoch calls are over; the first check is requested.
EndWaitForEpoch ==
    /\ detector.pc = "epoch"
    /\ clock >= StartOf(detector.epoch + 1)
    /\ detector' = [detector EXCEPT !.pc = "check"]
    /\ UNCHANGED <<clock, rival>>

\* Mutant of LastInclusion: the last slot of the monitored epoch itself.
LastInclusionOneEarly == MiddleOfLastSlot(detector.epoch)

\* ts_to_wait_for: the last block that may include the attestations was seen.
LastInclusion == MiddleOfLastSlot(detector.epoch + 1)

EndWaitForSlot ==
    /\ detector.pc = "slot"
    /\ clock >= LastInclusion
    /\ detector' = [detector EXCEPT !.pc = "recheck"]
    /\ UNCHANGED <<clock, rival>>

\* The validators that may have attested in an epoch: in epoch 0 all.
MayBeLive(epoch) ==
    {v \in Validators : epoch = 0 \/ rival = [validator |-> v, epoch |-> epoch]}
\* Those whose attestation has certainly been included.
AreLive(epoch) ==
    IF clock < MiddleOfLastSlot(epoch + 1) THEN {}
    ELSE {v \in Validators : rival = [validator |-> v, epoch |-> epoch]}

\* Liveness data as the beacon node may report it.
LivenessData(indices, epoch) ==
    {live \in SUBSET (indices \cap MayBeLive(epoch)) :
        indices \cap AreLive(epoch) \subseteq live}

\* _raise_if_doppelganger_detected.
ReceiveLiveness ==
    /\ detector.pc \in {"check", "recheck"}
    /\ \E live \in LivenessData(detector.indices, detector.epoch) :
           detector' = [detector EXCEPT !.pc =
               IF live # {} THEN "found"
               ELSE IF detector.pc = "check" THEN "slot" ELSE "clear"]
    /\ UNCHANGED <<clock, rival>>

DetectorStep ==
    EndProbe \/ EndWaitForEpoch \/ EndWaitForSlot \/ ReceiveLiveness

\* An attestation the detector should have found.
Monitored(attestation) ==
    /\ attestation # Nobody
    /\ attestation.validator \in detector.indices
    /\ attestation.epoch = detector.epoch
=============================================================================
