---------------------------- MODULE StatusTracker ----------------------------
(***************************************************************************)
(* ValidatorStatusTrackerService: which of the managed validators are      *)
(* active, pending, exited or withdrawn, and whether one was slashed.      *)
(*                                                                         *)
(* An update is a sequence of requests, each answered by whichever beacon  *)
(* node is first, and each assigned as it arrives.  Nodes lag behind each  *)
(* other, keys come and go, and nothing keeps two updates apart: one that  *)
(* retries may still be running when the next epoch's begins.              *)
(*                                                                         *)
(* This is a component of Startup, which adds time and says when updates   *)
(* are created.                                                            *)
(***************************************************************************)
EXTENDS Naturals, FiniteSets, Sequences

CONSTANTS
    Validators,     \* validators whose keys may be managed
    Nodes,          \* beacon nodes that may lag behind the one that leads
    Updates,        \* the updates that may be running at the same time
    MaxChanges,     \* bound: changes of the chain and of the managed keys
    MaxFailures     \* bound: requests that fail

ASSUME UpdatesAssumption == Updates # {}
ASSUME BoundsAssumption == MaxChanges \in Nat /\ MaxFailures \in Nat

VARIABLES
    \* Environment
    chain,              \* status of each validator, as the leading node sees it
    view,               \* the same, as the other nodes see it
    managed,            \* keys of the signature provider
    changes,            \* number of changes so far
    failures,           \* number of failed requests so far
    \* ValidatorStatusTrackerService
    lists,              \* active_, pending_, exited_ and withdrawal_validators
    slashingDetected,   \* slashing_detected
    updates,            \* the _update_validator_statuses calls
    \* History
    settled             \* a full update ran undisturbed, and nothing changed since

worldVars == <<chain, view, managed, changes>>
trackerVars == <<worldVars, failures, lists, slashingDetected, updates, settled>>

Statuses == {"unknown", "pending", "active", "active_slashed",
             "exited", "exited_slashed", "withdrawal"}
\* The consensus specification's life of a validator.
MayBecome == [s \in Statuses |->
    CASE s = "unknown" -> {"pending"}
      [] s = "pending" -> {"active"}
      [] s = "active" -> {"active_slashed", "exited"}
      [] s = "active_slashed" -> {"exited_slashed"}
      [] s = "exited" -> {"exited_slashed", "withdrawal"}
      [] s = "exited_slashed" -> {"withdrawal"}
      [] s = "withdrawal" -> {}]

Groups == {"active", "pending", "exited", "withdrawal"}
\* SLASHED_STATUSES, ACTIVE_STATUSES, PENDING_STATUSES and so on.
StatusesOf == [g \in Groups \cup {"slashed"} |->
    CASE g = "slashed" -> {"active_slashed", "exited_slashed"}
      [] g = "active" -> {"active", "active_slashed"}
      [] g = "pending" -> {"pending"}
      [] g = "exited" -> {"exited", "exited_slashed"}
      [] g = "withdrawal" -> {"withdrawal"}]

\* An update waits for its first attempt, or the next one, to start with the
\* managed keys, and then for one request after the other.
IdleUpdate == [pc |-> "idle", minimal |-> FALSE, managed |-> {}, known |-> {},
               quiet |-> FALSE]
Update == [pc : {"idle", "waiting", "slashed"} \cup Groups, minimal : BOOLEAN,
           managed : SUBSET Validators, known : SUBSET Validators, quiet : BOOLEAN]

TrackerTypeOK ==
    /\ chain \in [Validators -> Statuses]
    /\ view \in [Nodes -> [Validators -> Statuses]]
    /\ managed \in SUBSET Validators
    /\ changes \in 0..MaxChanges
    /\ failures \in 0..MaxFailures
    /\ lists \in [Groups -> SUBSET Validators]
    /\ slashingDetected \in BOOLEAN
    /\ updates \in [Updates -> Update]
    /\ settled \in BOOLEAN

Synced == \A n \in Nodes : view[n] = chain
Running(u) == updates[u].pc \notin {"idle", "waiting"}

\* update_validator_statuses, before an attempt.
WaitingUpdate(minimal) == [IdleUpdate EXCEPT !.pc = "waiting", !.minimal = minimal]

\* Updates differ in their names only.
First(U) == CHOOSE u \in U : TRUE

\* initialize calls _update_validator_statuses for the slashed, active and pending
\* validators only.
TrackerInit ==
    /\ chain \in [Validators -> {"pending", "active", "active_slashed"}]
    /\ view = [n \in Nodes |-> chain]
    /\ managed \in SUBSET Validators
    /\ changes = 0
    /\ failures = 0
    /\ lists = [g \in Groups |-> {}]
    /\ slashingDetected = FALSE
    /\ updates = [u \in Updates |->
                      IF u = First(Updates) THEN WaitingUpdate(TRUE) ELSE IdleUpdate]
    /\ settled = FALSE

-----------------------------------------------------------------------------
(* The world *)

Disturb ==
    /\ updates' = [u \in Updates |-> [updates[u] EXCEPT !.quiet = FALSE]]
    /\ settled' = FALSE

\* A validator's status changes with the next block; nodes see it later.
ChangeStatus(v, s) ==
    /\ changes < MaxChanges
    /\ s \in MayBecome[chain[v]]
    /\ chain' = [chain EXCEPT ![v] = s]
    /\ changes' = changes + 1
    /\ Disturb
    /\ UNCHANGED <<view, managed, failures, lists, slashingDetected>>

CatchUp(n) ==
    /\ view[n] # chain
    /\ view' = [view EXCEPT ![n] = chain]
    /\ Disturb
    /\ UNCHANGED <<chain, managed, changes, failures, lists, slashingDetected>>

\* A key is imported or deleted.
ChangeKeys(v) ==
    /\ changes < MaxChanges
    /\ managed' = IF v \in managed THEN managed \ {v} ELSE managed \cup {v}
    /\ changes' = changes + 1
    /\ Disturb
    /\ UNCHANGED <<chain, view, failures, lists, slashingDetected>>

-----------------------------------------------------------------------------
(* update_validator_statuses *)

\* A task for it is created.
Create ==
    LET idle == {u \in Updates : updates[u].pc = "idle"}
    IN  /\ idle # {}
        /\ updates' = [updates EXCEPT ![First(idle)] = WaitingUpdate(FALSE)]
        /\ UNCHANGED <<worldVars, failures, lists, slashingDetected, settled>>

\* _update_validator_statuses begins: get_public_keys returns.  An update is quiet
\* while it sees one state of the world and no other one writes beside it.
Begin(u) ==
    LET alone == Synced /\ \A w \in Updates \ {u} : ~Running(w)
    IN  /\ updates[u].pc = "waiting"
        /\ updates' = [w \in Updates |->
               IF w = u THEN [updates[u] EXCEPT !.pc = "slashed", !.managed = managed,
                                                !.quiet = alone]
               ELSE [updates[w] EXCEPT !.quiet = FALSE]]
        /\ settled' = (settled /\ alone)
        /\ UNCHANGED <<worldVars, failures, lists, slashingDetected>>

\* The validators a request asks for.
Ids(u) == updates[u].managed \ updates[u].known

\* The answer of a node that sees these statuses; any node's may be the first.
AnswerOf(statuses, u) == {v \in Ids(u) : statuses[v] \in StatusesOf[updates[u].pc]}
Seen == {chain} \cup {view[n] : n \in Nodes}

ReceiveSlashed(u) ==
    /\ updates[u].pc = "slashed"
    /\ \E statuses \in Seen :
           slashingDetected' = (slashingDetected \/ AnswerOf(statuses, u) # {})
    /\ updates' = [updates EXCEPT ![u].pc = "active"]
    /\ UNCHANGED <<worldVars, failures, lists, settled>>

\* A minimal update ends after the pending validators, and initialize creates a
\* task for a full one.
AfterAnswer(u, answer) ==
    LET following(group) == [updates[u] EXCEPT !.pc = group, !.known = @ \cup answer]
    IN  CASE updates[u].pc = "active" -> following("pending")
          [] updates[u].pc = "pending" ->
                 IF updates[u].minimal THEN WaitingUpdate(FALSE) ELSE following("exited")
          [] updates[u].pc = "exited" -> following("withdrawal")
          [] updates[u].pc = "withdrawal" -> IdleUpdate

\* Mutant of Replaced: what is found is added, and stays.
Added(group, answer) == [lists EXCEPT ![group] = @ \cup answer]

Replaced(group, answer) == [lists EXCEPT ![group] = answer]

ReceiveGroup(u) ==
    /\ updates[u].pc \in Groups
    /\ \E statuses \in Seen :
           /\ lists' = Replaced(updates[u].pc, AnswerOf(statuses, u))
           /\ updates' = [updates EXCEPT ![u] = AfterAnswer(u, AnswerOf(statuses, u))]
    /\ settled' = (settled \/ (updates[u].pc = "withdrawal" /\ updates[u].quiet))
    /\ UNCHANGED <<worldVars, failures, slashingDetected>>

\* The keys cannot be had, or every node fails.  Without ids there is no request.
MayFail(u) ==
    /\ failures < MaxFailures
    /\ updates[u].pc = "waiting" \/ (Running(u) /\ Ids(u) # {})

\* After a backoff update_validator_statuses tries again; lists assigned so far stay.
FailRequest(u) ==
    /\ MayFail(u)
    /\ failures' = failures + 1
    /\ updates' = [updates EXCEPT ![u] = WaitingUpdate(FALSE)]
    /\ UNCHANGED <<worldVars, lists, slashingDetected, settled>>

-----------------------------------------------------------------------------
(* Slashing events *)

ActiveOrPending == lists["active"] \cup lists["pending"]

\* handle_slashing_event, for validators the chain slashes: those in both attestations
\* of an attester slashing, or the proposer of two blocks.
HandleSlashingEvent(slashed) ==
    /\ \A v \in slashed : chain[v] \in StatusesOf["slashed"]
    /\ slashingDetected' = (slashingDetected \/ slashed \cap ActiveOrPending # {})
    /\ UNCHANGED <<worldVars, failures, lists, updates, settled>>

-----------------------------------------------------------------------------
(* Properties *)

Listed(v, g) == v \in managed /\ chain[v] \in StatusesOf[g]

\* Each list holds exactly the managed validators of its statuses: no validator
\* in two lists, none in a wrong one, no deleted key in any; and a slashed
\* validator was noticed.
ListsMatch ==
    /\ \A v \in Validators, g \in Groups : v \in lists[g] <=> Listed(v, g)
    /\ (\E v \in Validators : Listed(v, "slashed")) => slashingDetected

\* A full update that saw one state of the chain, on nodes that agree, leaves
\* exact lists, whatever lists and lapses of earlier updates it found; and they
\* stay exact while later updates rewrite them one after the other.
SettledListsMatch == settled => ListsMatch
=============================================================================
