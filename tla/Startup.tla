------------------------------ MODULE Startup ------------------------------
(***************************************************************************)
(* run_services from ValidatorStatusTrackerService.initialize on: the      *)
(* statuses are fetched, doppelgangers are looked for, the services start, *)
(* and the status tracker goes on for as long as the client runs.          *)
(*                                                                         *)
(* Composes StatusTracker and DoppelgangerDetector.  The slot ticker runs  *)
(* since before; with the services the event consumer starts, too.  Keys   *)
(* and the chain may change all the while.                                 *)
(***************************************************************************)
EXTENDS DoppelgangerDetector

VARIABLES
    phase,                          \* where run_services is
    enableDoppelgangerDetection,    \* the option of that name
    \* History
    overlooked  \* active and pending validators the detector does not watch, although
                \* neither the chain nor the keys changed during initialize

startupVars == <<phase, enableDoppelgangerDetection, overlooked>>
vars == <<trackerVars, detectorVars, startupVars>>

\* "failed": a request failed and run_services raised; "stopped": it raised
\* DoppelgangersDetected.  Either way the process ends.
Phases == {"status", "detect", "running", "failed", "stopped"}
Alive == phase \in {"status", "detect", "running"}

TypeOK ==
    /\ TrackerTypeOK
    /\ DetectorTypeOK
    /\ phase \in Phases
    /\ enableDoppelgangerDetection \in BOOLEAN
    /\ overlooked \in SUBSET Validators

Init ==
    /\ TrackerInit
    /\ DetectorInit
    /\ phase = "status"
    /\ enableDoppelgangerDetection \in BOOLEAN
    /\ overlooked = {}

-----------------------------------------------------------------------------
(* The world *)

WorldStep ==
    /\ Alive
    /\ \/ \E v \in Validators, s \in Statuses : ChangeStatus(v, s)
       \/ \E n \in Nodes : CatchUp(n)
       \/ \E v \in Validators : ChangeKeys(v)
    /\ UNCHANGED <<detectorVars, startupVars>>

RivalStep ==
    /\ phase = "detect"
    /\ \E v \in Validators : /\ chain[v] \in StatusesOf["active"]
                             /\ RivalAttests(v)
    /\ UNCHANGED <<trackerVars, startupVars>>

\* Time passes.  Once the tracker's on_new_slot is among the ticker's handlers,
\* the last slot of an epoch starts an update.
AdvanceClock ==
    /\ Alive
    /\ phase = "status" => NextTime \div HalfSlotsPerEpoch + 3 <= LastEpoch
    /\ clock' = NextTime
    /\ IF LastSlotBegins /\ phase # "status"
       THEN Create
       ELSE UNCHANGED trackerVars
    /\ UNCHANGED <<rival, detector, startupVars>>

-----------------------------------------------------------------------------
(* run_services *)

\* active_or_pending_indices, as initialize left them.
Watched == ActiveOrPending'

\* A managed validator that may attest, now or soon.
NeedsWatching(v) == Listed(v, "active") \/ Listed(v, "pending")

\* initialize returns: detect() begins, or the services start.
InitializeEnds(u) ==
    /\ phase = "status"
    /\ updates[u].minimal /\ updates[u].pc = "pending"
    /\ ReceiveGroup(u)
    /\ IF enableDoppelgangerDetection
       THEN /\ BeginDetection(Watched)
            /\ phase' = "detect"
            /\ overlooked' = {v \in Validators \ detector'.indices :
                                 updates[u].quiet /\ NeedsWatching(v)}
       ELSE UNCHANGED <<detector, overlooked>> /\ phase' = "running"
    /\ UNCHANGED <<clock, rival, enableDoppelgangerDetection>>

\* detect() goes on.
DetectStep ==
    /\ phase = "detect"
    /\ DetectorStep
    /\ phase' = IF detector'.pc = "found" THEN "stopped" ELSE phase
    /\ UNCHANGED <<trackerVars, enableDoppelgangerDetection, overlooked>>

\* detect() has returned: the services and the event consumer start.
StartServices ==
    /\ phase = "detect"
    /\ detector.pc = "clear"
    /\ phase' = "running"
    /\ detector' = NoDetection
    /\ rival' = Nobody         \* of no interest any more
    /\ overlooked' = {}
    /\ UNCHANGED <<clock, trackerVars, enableDoppelgangerDetection>>

\* run_services raises: the process ends, and what it had in memory is gone.
Fail ==
    /\ failures < MaxFailures
    /\ failures' = failures + 1
    /\ phase' = "failed"
    /\ lists' = [g \in Groups |-> {}]
    /\ slashingDetected' = FALSE
    /\ updates' = [u \in Updates |-> IdleUpdate]
    /\ settled' = FALSE
    /\ detector' = NoDetection
    /\ rival' = Nobody
    /\ overlooked' = {}
    /\ UNCHANGED <<worldVars, clock, enableDoppelgangerDetection>>

\* Liveness data cannot be had: detect() raises.
FailLiveness ==
    /\ phase = "detect"
    /\ detector.pc \in {"probe", "check", "recheck"}
    /\ Fail

\* A request of an update fails; that of initialize is not retried.
FailUpdate(u) ==
    /\ Alive
    /\ \/ updates[u].minimal /\ MayFail(u) /\ Fail
       \/ /\ ~updates[u].minimal
          /\ FailRequest(u)
          /\ UNCHANGED <<detectorVars, startupVars>>

\* An update goes on.
UpdateStep(u) ==
    /\ Alive
    /\ \/ Begin(u)
       \/ ReceiveSlashed(u)
       \/ ~updates[u].minimal /\ ReceiveGroup(u)
       \/ updates[u].minimal /\ updates[u].pc = "active" /\ ReceiveGroup(u)
    /\ UNCHANGED <<detectorVars, startupVars>>

SlashingEvent ==
    /\ phase = "running"
    /\ \E slashed \in SUBSET Validators \ {{}} : HandleSlashingEvent(slashed)
    /\ UNCHANGED <<detectorVars, startupVars>>

Next ==
    \/ WorldStep \/ RivalStep \/ AdvanceClock \/ SlashingEvent
    \/ \E u \in Updates : InitializeEnds(u) \/ UpdateStep(u) \/ FailUpdate(u)
    \/ DetectStep \/ StartServices \/ FailLiveness

\* Time passes, nodes catch up, and the event loop runs what is ready: requests are
\* answered or, MaxFailures times, fail.  No update is promised to be served before
\* another.
Fairness ==
    /\ WF_vars(AdvanceClock)
    /\ \A n \in Nodes : WF_vars(Alive /\ CatchUp(n) /\ UNCHANGED <<detectorVars, startupVars>>)
    /\ WF_vars(\E u \in Updates : UpdateStep(u) \/ InitializeEnds(u))
    /\ WF_vars(DetectStep \/ StartServices)

Spec == Init /\ [][Next]_vars /\ Fairness

-----------------------------------------------------------------------------
(* Properties *)

\* cli_reference.md: the client refuses to start its duties beside another instance.
\* An attestation that one made in the monitored epoch, however late it was included,
\* keeps the services from starting; and unless the chain or the keys changed while
\* initialize asked for statuses, no active or pending validator is left unwatched.
NoDutiesBesideRival ==
    [][phase = "detect" /\ phase' = "running" =>
          ~(/\ rival # Nobody
            /\ rival.epoch = detector.epoch
            /\ rival.validator \in detector.indices \cup overlooked)]_vars

\* The client stops for the attestations of another instance only, never for those
\* it made itself before it was restarted.
StopsForRivalOnly == phase = "stopped" => Monitored(rival)

\* Once the chain and the keys stop changing the lists become exact and stay so,
\* and a slashed validator is noticed: what overlapping updates, failures and
\* lagging nodes left behind is repaired by a later epoch's update.
EventuallyAccurate == <>[](Alive => ListsMatch)
=============================================================================
