--------------------------- MODULE EventConsumer ---------------------------
(***************************************************************************)
(* services/event_consumer.py with BeaconNode.subscribe_to_events: one     *)
(* task per beacon node reads its server-sent events and hands those that  *)
(* are new to the duty services and the status tracker.                    *)
(*                                                                         *)
(* All nodes report the same blocks, reorgs and slashings, in any order    *)
(* and at any time; a bounded deque of recent keys, shared by the tasks    *)
(* and by all kinds of events, filters the duplicates.                     *)
(*                                                                         *)
(* The task of a node handles an event without an await in between, so     *)
(* Receive is one step.  An event is a record of a constant set Events:    *)
(* its kind, its dedup_key, its slot.                                      *)
(***************************************************************************)
EXTENDS Integers, Sequences, FiniteSets

CONSTANTS
    Nodes,          \* beacon_nodes
    Events,         \* what the nodes may report
    RecentLimit,    \* maxlen of _recent_event_keys: 10 * len(beacon_nodes)
    MaxScore,       \* BeaconNode.MAX_SCORE
    ScoreDelta,     \* BeaconNode.SCORE_DELTA_FAILURE
    MaxSlot         \* bound: the last slot of a behaviour

Keys == {e.key : e \in Events}
Slots == 0..MaxSlot

ASSUME EventsAssumption ==
    \A e \in Events : e.kind \in {"head", "reorg", "slashing"} /\ e.slot \in Slots
ASSUME NumbersAssumption ==
    /\ RecentLimit \in Nat \ {0}
    /\ MaxScore \in Nat
    /\ ScoreDelta \in Nat
    /\ MaxSlot \in Nat

VARIABLES
    \* Environment
    slot,       \* beacon_chain.current_slot
    sent,       \* the events each node sent; once each, a bound
    \* EventConsumerService
    stream,     \* the task of each node: connecting, reading or sleeping before that
    score,      \* score of each beacon node
    recent,     \* _recent_event_keys
    handled,    \* the handler tasks created, in order, with the slot of creation
    \* History
    accepted    \* events received that were not for an old slot, with that slot

vars == <<slot, sent, stream, score, recent, handled, accepted>>

Occurrence == [event : Events, slot : Slots]

TypeOK ==
    /\ slot \in Slots
    /\ sent \in [Nodes -> SUBSET Events]
    /\ stream \in [Nodes -> {"connecting", "open", "backoff"}]
    /\ score \in [Nodes -> 0..MaxScore]
    /\ recent \in Seq(Keys) /\ Len(recent) <= RecentLimit
    /\ handled \in Seq(Occurrence)
    /\ accepted \in SUBSET Occurrence

\* start() creates the tasks after the beacon nodes were initialized.
Init ==
    /\ slot = 0
    /\ sent = [n \in Nodes |-> {}]
    /\ stream = [n \in Nodes |-> "connecting"]
    /\ score = [n \in Nodes |-> MaxScore]
    /\ recent = <<>>
    /\ handled = <<>>
    /\ accepted = {}

-----------------------------------------------------------------------------
(* Environment *)

NextSlot ==
    /\ slot < MaxSlot
    /\ slot' = slot + 1
    /\ UNCHANGED <<sent, stream, score, recent, handled, accepted>>

-----------------------------------------------------------------------------
(* handle_events *)

\* The score setter clamps.
Lowered(s) == IF s > ScoreDelta THEN s - ScoreDelta ELSE 0

\* subscribe_to_events raised: the node is down, the connection broke, or the
\* event is optimistic or cannot be parsed.  Resubscribe in 10 seconds.
Fail(n) ==
    /\ stream' = [stream EXCEPT ![n] = "backoff"]
    /\ score' = [score EXCEPT ![n] = Lowered(@)]
    /\ UNCHANGED <<slot, sent, recent, handled, accepted>>

Subscribe(n) ==
    /\ stream[n] = "connecting"
    /\ stream' = [stream EXCEPT ![n] = "open"]
    /\ UNCHANGED <<slot, sent, score, recent, handled, accepted>>

SubscribeFails(n) == stream[n] = "connecting" /\ Fail(n)

StreamFails(n) == stream[n] = "open" /\ Fail(n)

\* The server closed the stream without an error: resubscribe right away.
StreamEnds(n) ==
    /\ stream[n] = "open"
    /\ stream' = [stream EXCEPT ![n] = "connecting"]
    /\ UNCHANGED <<slot, sent, score, recent, handled, accepted>>

Reconnect(n) ==
    /\ stream[n] = "backoff"
    /\ stream' = [stream EXCEPT ![n] = "connecting"]
    /\ UNCHANGED <<slot, sent, score, recent, handled, accepted>>

-----------------------------------------------------------------------------
(* _handle_event *)

\* Slashing events have no slot.
IsOld(e) == e.kind # "slashing" /\ e.slot < slot

Seen(key) == \E i \in DOMAIN recent : recent[i] = key

\* Mutant of Remembered: the newest key makes room for itself.
RememberedUnordered(key) ==
    IF Len(recent) < RecentLimit THEN Append(recent, key)
    ELSE [recent EXCEPT ![RecentLimit] = key]

\* append to a deque with maxlen.
Remembered(key) ==
    Append(IF Len(recent) < RecentLimit THEN recent ELSE Tail(recent), key)

\* The event is dropped if its key is remembered; else its handlers are called.
HandleUnlessSeen(e) ==
    IF Seen(e.key)
    THEN UNCHANGED <<recent, handled>>
    ELSE /\ recent' = Remembered(e.key)
         /\ handled' = Append(handled, [event |-> e, slot |-> slot])

\* Mutant of HandleEvent: duplicates are looked for before old slots.
HandleEventSeenFirst(e) ==
    /\ IF Seen(e.key) THEN UNCHANGED <<recent, handled>>
       ELSE /\ recent' = Remembered(e.key)
            /\ handled' = IF IsOld(e) THEN handled
                          ELSE Append(handled, [event |-> e, slot |-> slot])
    /\ accepted' = IF IsOld(e) THEN accepted
                   ELSE accepted \cup {[event |-> e, slot |-> slot]}

HandleEvent(e) ==
    IF IsOld(e)
    THEN UNCHANGED <<recent, handled, accepted>>
    ELSE /\ HandleUnlessSeen(e)
         /\ accepted' = accepted \cup {[event |-> e, slot |-> slot]}

Receive(n, e) ==
    /\ stream[n] = "open"
    /\ e \notin sent[n]
    /\ sent' = [sent EXCEPT ![n] = @ \cup {e}]
    /\ HandleEvent(e)
    /\ UNCHANGED <<slot, stream, score>>

-----------------------------------------------------------------------------

Next ==
    \/ NextSlot
    \/ \E n \in Nodes :
        \/ Subscribe(n)
        \/ SubscribeFails(n)
        \/ StreamFails(n)
        \/ StreamEnds(n)
        \/ Reconnect(n)
        \/ \E e \in Events : Receive(n, e)

Spec == Init /\ [][Next]_vars

-----------------------------------------------------------------------------
(* Properties *)

\* However the events of the nodes interleave, the handlers of a key are called
\* again only after RecentLimit other keys: a block reported by every node of a
\* quiet chain is handled once.
DuplicatesAreSpaced ==
    \A i, j \in DOMAIN handled :
        i < j /\ handled[i].event.key = handled[j].event.key =>
            Cardinality({handled[k].event.key : k \in (i + 1)..(j - 1)}) >= RecentLimit

\* No key is lost: once an event that is not old was received from some node, the
\* handlers were called for an event with its key, even if older events with that
\* key were ignored before.  Slashing events are thus never lost.
AcceptedKeysAreHandled ==
    \A o \in accepted : \E i \in DOMAIN handled : handled[i].event.key = o.event.key
=============================================================================
