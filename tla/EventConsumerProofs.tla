------------------------- MODULE EventConsumerProofs -------------------------
(***************************************************************************)
(* Proofs about EventConsumer, for any number of nodes and events and any  *)
(* size of the deque.                                                      *)
(*                                                                         *)
(* The argument: the deque holds the keys of the events handled last, all  *)
(* different, and it is only not full while it holds all of them.  So a    *)
(* key that is not in the deque, and was handled before, was handled before*)
(* every event the deque remembers.                                        *)
(***************************************************************************)
EXTENDS EventConsumer, FiniteSetTheorems, TLAPS

\* The keys of a section of `handled`, as in DuplicatesAreSpaced.
KeysFrom(a, b) == {handled[k].event.key : k \in a..b}

Forgotten == Len(handled) - Len(recent)

\* The deque is the end of the list of handled events, ...
RecentIsLatest ==
    /\ Len(recent) <= Len(handled)
    /\ Len(recent) < RecentLimit => Len(recent) = Len(handled)
    /\ \A i \in DOMAIN recent : recent[i] = handled[Forgotten + i].event.key

\* ... without duplicates.
RecentIsDistinct == \A i, j \in DOMAIN recent : recent[i] = recent[j] => i = j

IndInv ==
    /\ TypeOK
    /\ RecentIsLatest
    /\ RecentIsDistinct
    /\ AcceptedKeysAreHandled
    /\ DuplicatesAreSpaced

USE EventsAssumption, NumbersAssumption

-----------------------------------------------------------------------------
(* Sequences *)

LEMMA AppendIndexed ==
    ASSUME NEW S, NEW q \in Seq(S), NEW x \in S
    PROVE  /\ Append(q, x) \in Seq(S)
           /\ Len(Append(q, x)) = Len(q) + 1
           /\ \A i \in 1..Len(q) : Append(q, x)[i] = q[i]
           /\ Append(q, x)[Len(q) + 1] = x
  OBVIOUS

LEMMA TailIndexed ==
    ASSUME NEW S, NEW q \in Seq(S), Len(q) > 0
    PROVE  /\ Tail(q) \in Seq(S)
           /\ Len(Tail(q)) = Len(q) - 1
           /\ \A i \in 1..(Len(q) - 1) : Tail(q)[i] = q[i + 1]
  BY q # <<>>

\* append to the full deque drops its oldest key and moves the others down by one.
LEMMA RememberedType ==
    ASSUME TypeOK, NEW key \in Keys
    PROVE  /\ Remembered(key) \in Seq(Keys)
           /\ Len(Remembered(key)) <= RecentLimit
           /\ Len(Remembered(key)) =
                  IF Len(recent) < RecentLimit THEN Len(recent) + 1 ELSE RecentLimit
           /\ Remembered(key)[Len(Remembered(key))] = key
           /\ \A i \in 1..(Len(Remembered(key)) - 1) :
                  Remembered(key)[i] =
                      recent[i + Len(recent) + 1 - Len(Remembered(key))]
<1>1. recent \in Seq(Keys) /\ Len(recent) \in Nat /\ Len(recent) <= RecentLimit
  BY DEF TypeOK
<1>2. CASE Len(recent) < RecentLimit
  <2>1. Remembered(key) = Append(recent, key)
    BY <1>2 DEF Remembered
  <2> QED
    BY <1>1, <1>2, <2>1, AppendIndexed
<1>3. CASE Len(recent) = RecentLimit
  <2>1. Remembered(key) = Append(Tail(recent), key)
    BY <1>3 DEF Remembered
  <2>2. /\ Tail(recent) \in Seq(Keys)
        /\ Len(Tail(recent)) = RecentLimit - 1
        /\ \A i \in 1..(RecentLimit - 1) : Tail(recent)[i] = recent[i + 1]
    BY <1>1, <1>3, TailIndexed
  <2> QED
    BY <1>1, <1>3, <2>1, <2>2, AppendIndexed
<1> QED
  BY <1>1, <1>2, <1>3

-----------------------------------------------------------------------------
(* Types *)

LEMMA TypeInit == Init => TypeOK
  BY DEF Init, TypeOK, Slots

LEMMA ScoreLowered == \A s \in 0..MaxScore : Lowered(s) \in 0..MaxScore
  BY DEF Lowered

LEMMA TypeStep == TypeOK /\ [Next]_vars => TypeOK'
<1> SUFFICES ASSUME TypeOK, [Next]_vars
             PROVE  TypeOK'
  OBVIOUS
<1>1. CASE UNCHANGED vars
  BY <1>1 DEF vars, TypeOK
<1>2. CASE NextSlot
  BY <1>2 DEF NextSlot, TypeOK, Slots, Occurrence
<1>3. ASSUME NEW n \in Nodes, Fail(n)
      PROVE  TypeOK'
  BY <1>3, ScoreLowered DEF Fail, TypeOK
<1>4. ASSUME NEW n \in Nodes, Subscribe(n) \/ StreamEnds(n) \/ Reconnect(n)
      PROVE  TypeOK'
  BY <1>4 DEF Subscribe, StreamEnds, Reconnect, TypeOK
<1>5. ASSUME NEW n \in Nodes, NEW e \in Events, Receive(n, e)
      PROVE  TypeOK'
  <2>1. /\ slot' \in Slots
        /\ sent' \in [Nodes -> SUBSET Events]
        /\ stream' \in [Nodes -> {"connecting", "open", "backoff"}]
        /\ score' \in [Nodes -> 0..MaxScore]
    BY <1>5 DEF Receive, TypeOK
  <2>2. [event |-> e, slot |-> slot] \in Occurrence /\ e.key \in Keys
    BY DEF TypeOK, Occurrence, Keys
  <2>3. accepted' \in SUBSET Occurrence
    BY <1>5, <2>2 DEF Receive, HandleEvent, TypeOK
  <2>4. recent' \in Seq(Keys) /\ Len(recent') <= RecentLimit
    BY <1>5, <2>2, RememberedType DEF Receive, HandleEvent, HandleUnlessSeen, TypeOK
  <2>5. handled' \in Seq(Occurrence)
    <3>1. handled \in Seq(Occurrence)
      BY DEF TypeOK
    <3>2. \/ handled' = handled
          \/ handled' = Append(handled, [event |-> e, slot |-> slot])
      BY <1>5 DEF Receive, HandleEvent, HandleUnlessSeen
    <3> QED
      BY <2>2, <3>1, <3>2, AppendIndexed
  <2> QED
    BY <2>1, <2>3, <2>4, <2>5 DEF TypeOK
<1> QED
  BY <1>1, <1>2, <1>3, <1>4, <1>5 DEF Next, SubscribeFails, StreamFails

-----------------------------------------------------------------------------
(* Handling a new event *)

LEMMA KeysFromFinite ==
    ASSUME NEW a \in Int, NEW b \in Int
    PROVE  IsFiniteSet(KeysFrom(a, b))
<1> DEFINE f == [k \in a..b |-> handled[k].event.key]
<1>1. f \in Surjection(a..b, KeysFrom(a, b))
  BY DEF Surjection, KeysFrom
<1> QED
  BY <1>1, FS_Interval, FS_Surjection

\* A full deque holds RecentLimit different keys.
LEMMA FullDeque ==
    ASSUME IndInv, Len(recent) = RecentLimit,
           NEW i \in 1..Forgotten
    PROVE  Cardinality(KeysFrom(i + 1, Len(handled))) >= RecentLimit
<1> DEFINE f == [k \in 1..RecentLimit |-> recent[k]]
           between == KeysFrom(i + 1, Len(handled))
<1>1. /\ recent \in Seq(Keys) /\ handled \in Seq(Occurrence)
      /\ Len(recent) \in Nat /\ Len(handled) \in Nat /\ RecentLimit \in Nat
  BY DEF IndInv, TypeOK
<1>2. ASSUME NEW k \in 1..RecentLimit
      PROVE  recent[k] \in between
  <2>1. Forgotten + k \in (i + 1)..Len(handled)
    BY <1>1 DEF Forgotten
  <2>2. recent[k] = handled[Forgotten + k].event.key
    BY <1>1 DEF IndInv, RecentIsLatest
  <2> QED
    BY <2>1, <2>2 DEF KeysFrom
<1>3. f \in Injection(1..RecentLimit, between)
  <2>1. \A k, l \in 1..RecentLimit : recent[k] = recent[l] => k = l
    BY <1>1 DEF IndInv, RecentIsDistinct
  <2> QED
    BY <1>2, <2>1 DEF Injection, IsInjective
<1>4. IsFiniteSet(between)
  BY <1>1, KeysFromFinite
<1>5. Cardinality(1..RecentLimit) <= Cardinality(between)
  <2> HIDE DEF f, between
  <2> QED
    BY <1>3, <1>4, FS_Injection
<1>6. Cardinality(1..RecentLimit) = RecentLimit
  BY <1>1, FS_Interval
<1> QED
  BY <1>5, <1>6

\* The step of HandleUnlessSeen that calls the handlers of e.
Handles(e) ==
    /\ ~Seen(e.key)
    /\ recent' = Remembered(e.key)
    /\ handled' = Append(handled, [event |-> e, slot |-> slot])

LEMMA HandledType ==
    ASSUME IndInv, NEW e \in Events, Handles(e)
    PROVE  /\ e.key \in Keys
           /\ recent \in Seq(Keys) /\ handled \in Seq(Occurrence)
           /\ recent' \in Seq(Keys)
           /\ Len(recent) \in 0..RecentLimit /\ Len(handled) \in Nat
           /\ Len(handled') = Len(handled) + 1
           /\ \A i \in 1..Len(handled) : handled'[i] = handled[i]
           /\ handled'[Len(handled) + 1] = [event |-> e, slot |-> slot]
<1>1. e.key \in Keys /\ [event |-> e, slot |-> slot] \in Occurrence
  BY DEF IndInv, TypeOK, Occurrence, Keys
<1> QED
  BY <1>1, RememberedType, AppendIndexed DEF Handles, IndInv, TypeOK

LEMMA HandlingKeepsRecent ==
    ASSUME IndInv, NEW e \in Events, Handles(e)
    PROVE  RecentIsLatest' /\ RecentIsDistinct'
<1>1. /\ e.key \in Keys
      /\ recent \in Seq(Keys) /\ handled \in Seq(Occurrence)
      /\ recent' \in Seq(Keys)
      /\ Len(recent) \in 0..RecentLimit /\ Len(handled) \in Nat
      /\ Len(handled') = Len(handled) + 1
      /\ \A i \in 1..Len(handled) : handled'[i] = handled[i]
      /\ handled'[Len(handled) + 1] = [event |-> e, slot |-> slot]
  BY HandledType
<1>2. /\ Len(recent') = IF Len(recent) < RecentLimit THEN Len(recent) + 1
                        ELSE RecentLimit
      /\ recent'[Len(recent')] = e.key
      /\ \A i \in 1..(Len(recent') - 1) :
             recent'[i] = recent[i + Len(recent) + 1 - Len(recent')]
  BY <1>1, RememberedType DEF Handles, IndInv
<1>3. /\ Len(recent) <= Len(handled)
      /\ Len(recent) < RecentLimit => Len(recent) = Len(handled)
      /\ \A i \in 1..Len(recent) : recent[i] = handled[Forgotten + i].event.key
      /\ \A i, j \in 1..Len(recent) : recent[i] = recent[j] => i = j
      /\ \A i \in 1..Len(recent) : recent[i] # e.key
  BY <1>1 DEF IndInv, RecentIsLatest, RecentIsDistinct, Handles, Seen
<1>4. ASSUME NEW i \in 1..(Len(recent') - 1)
      PROVE  /\ i + Len(recent) + 1 - Len(recent') \in 1..Len(recent)
             /\ recent'[i] = handled'[Forgotten' + i].event.key
  <2> DEFINE k == i + Len(recent) + 1 - Len(recent')
  <2>1. k \in 1..Len(recent)
    BY <1>1, <1>2
  <2>2. Forgotten + k = Forgotten' + i
    BY <1>1, <1>2 DEF Forgotten
  <2>3. Forgotten + k \in 1..Len(handled)
    BY <1>1, <1>3, <2>1 DEF Forgotten
  <2>4. recent'[i] = handled[Forgotten + k].event.key
    BY <1>2, <1>3, <2>1
  <2>5. handled'[Forgotten + k] = handled[Forgotten + k]
    BY <1>1, <2>3
  <2> QED
    BY <2>1, <2>2, <2>4, <2>5
<1>5. recent'[Len(recent')] = handled'[Forgotten' + Len(recent')].event.key
  BY <1>1, <1>2 DEF Forgotten
<1>6. RecentIsLatest'
  <2>1. DOMAIN recent' = 1..Len(recent') /\ Len(recent') \in Nat
    BY <1>1
  <2>2. /\ Len(recent') <= Len(handled')
        /\ Len(recent') < RecentLimit => Len(recent') = Len(handled')
    BY <1>1, <1>2, <1>3
  <2>3. ASSUME NEW i \in 1..Len(recent')
        PROVE  recent'[i] = handled'[Forgotten' + i].event.key
    <3>1. i \in 1..(Len(recent') - 1) \/ i = Len(recent')
      BY <2>1 DEF Handles
    <3> QED
      BY <1>4, <1>5, <3>1
  <2> QED
    BY <2>1, <2>2, <2>3 DEF RecentIsLatest
<1>7. ASSUME NEW i \in 1..Len(recent'), NEW j \in 1..Len(recent'),
             recent'[i] = recent'[j]
      PROVE  i = j
  <2> DEFINE old(k) == k + Len(recent) + 1 - Len(recent')
  <2>1. ASSUME NEW k \in 1..(Len(recent') - 1)
        PROVE  /\ old(k) \in 1..Len(recent)
               /\ recent'[k] = recent[old(k)]
               /\ recent'[k] # e.key
    <3>1. old(k) \in 1..Len(recent)
      BY <1>4
    <3> QED
      BY <1>2, <1>3, <3>1
  <2>2. /\ i \in 1..(Len(recent') - 1) \/ i = Len(recent')
        /\ j \in 1..(Len(recent') - 1) \/ j = Len(recent')
        /\ Len(recent') \in Nat
    BY <1>1
  <2>3. CASE i \in 1..(Len(recent') - 1) /\ j \in 1..(Len(recent') - 1)
    <3>1. old(i) = old(j)
      <4> HIDE DEF old
      <4> QED
        BY <1>3, <1>7, <2>1, <2>3
    <3> QED
      BY <1>1, <2>2, <3>1
  <2>4. CASE i = Len(recent') \/ j = Len(recent')
    <3> HIDE DEF old
    <3> QED
      BY <1>2, <1>7, <2>1, <2>2, <2>4
  <2> QED
    BY <2>2, <2>3, <2>4
<1> QED
  BY <1>1, <1>6, <1>7 DEF RecentIsDistinct

LEMMA HandlingKeepsSpacing ==
    ASSUME IndInv, NEW e \in Events, Handles(e)
    PROVE  DuplicatesAreSpaced'
<1>1. /\ recent \in Seq(Keys) /\ handled \in Seq(Occurrence)
      /\ Len(recent) \in 0..RecentLimit /\ Len(handled) \in Nat
      /\ Len(handled') = Len(handled) + 1
      /\ \A i \in 1..Len(handled) : handled'[i] = handled[i]
      /\ handled'[Len(handled) + 1] = [event |-> e, slot |-> slot]
  BY HandledType
<1>2. DOMAIN handled' = 1..(Len(handled) + 1)
  BY <1>1, AppendIndexed DEF Handles
<1>3. ASSUME NEW a \in Nat, NEW b \in Nat, a >= 1, b <= Len(handled)
      PROVE  {handled'[k].event.key : k \in a..b} = KeysFrom(a, b)
  BY <1>1, <1>3 DEF KeysFrom
<1>4. ASSUME NEW i \in DOMAIN handled', NEW j \in DOMAIN handled',
             i < j, handled'[i].event.key = handled'[j].event.key
      PROVE  Cardinality({handled'[k].event.key : k \in (i + 1)..(j - 1)}) >= RecentLimit
  <2> USE <1>4
  <2>0. /\ i \in 1..(Len(handled) + 1) /\ j \in 1..(Len(handled) + 1)
        /\ i + 1 \in Nat /\ i + 1 >= 1 /\ j - 1 \in Nat /\ j - 1 <= Len(handled)
    BY <1>1, <1>2
  <2>1. {handled'[k].event.key : k \in (i + 1)..(j - 1)} = KeysFrom(i + 1, j - 1)
    BY <1>3, <2>0
  <2>2. i \in 1..Len(handled) /\ handled'[i] = handled[i]
    BY <1>1, <1>2, <1>4
  <2>3. CASE j <= Len(handled)
    <3>1. /\ DOMAIN handled = 1..Len(handled) /\ j \in 1..Len(handled)
          /\ handled'[j] = handled[j]
      BY <1>1, <2>0, <2>3
    <3>2. Cardinality(KeysFrom(i + 1, j - 1)) >= RecentLimit
      BY <2>2, <3>1 DEF IndInv, DuplicatesAreSpaced, KeysFrom
    <3> QED
      BY <2>1, <3>2
  <2>4. CASE j = Len(handled) + 1
    <3>1. handled[i].event.key = e.key
      BY <1>1, <1>4, <2>2, <2>4
    <3>2. ~(i > Forgotten)
      <4> SUFFICES ASSUME i > Forgotten PROVE FALSE
        OBVIOUS
      <4>1. i - Forgotten \in 1..Len(recent)
        BY <1>1, <2>2 DEF Forgotten
      <4>2. recent[i - Forgotten] = handled[Forgotten + (i - Forgotten)].event.key
        BY <1>1, <4>1 DEF IndInv, RecentIsLatest
      <4>3. Forgotten + (i - Forgotten) = i
        BY <1>1, <2>2 DEF Forgotten
      <4> QED
        BY <1>1, <3>1, <4>1, <4>2, <4>3 DEF Handles, Seen
    <3>3. i \in 1..Forgotten
      BY <1>1, <2>2, <3>2 DEF Forgotten
    <3>4. Len(recent) = RecentLimit
      BY <1>1, <3>3 DEF Forgotten, IndInv, RecentIsLatest
    <3>5. Cardinality(KeysFrom(i + 1, Len(handled))) >= RecentLimit
      BY <3>3, <3>4, FullDeque
    <3>6. j - 1 = Len(handled)
      BY <1>1, <2>4
    <3> QED
      BY <2>1, <3>5, <3>6
  <2> QED
    BY <1>1, <1>2, <2>3, <2>4
<1> QED
  BY <1>4 DEF DuplicatesAreSpaced

LEMMA HandlingKeepsAccepted ==
    ASSUME IndInv, NEW e \in Events, Handles(e),
           accepted' = accepted \cup {[event |-> e, slot |-> slot]}
    PROVE  AcceptedKeysAreHandled'
<1>1. /\ Len(handled) \in Nat /\ DOMAIN handled = 1..Len(handled)
      /\ DOMAIN handled' = 1..(Len(handled) + 1)
      /\ \A i \in 1..Len(handled) : handled'[i] = handled[i]
      /\ handled'[Len(handled) + 1] = [event |-> e, slot |-> slot]
  <2>1. handled \in Seq(Occurrence)
    BY DEF IndInv, TypeOK
  <2> QED
    BY <2>1, HandledType DEF Handles
<1>2. ASSUME NEW o \in accepted'
      PROVE  \E i \in DOMAIN handled' : handled'[i].event.key = o.event.key
  <2>1. CASE o \in accepted
    <3>1. PICK i \in 1..Len(handled) : handled[i].event.key = o.event.key
      BY <1>1, <2>1 DEF IndInv, AcceptedKeysAreHandled
    <3>2. i \in DOMAIN handled'
      BY <1>1
    <3> QED
      BY <1>1, <3>1, <3>2
  <2>2. CASE o = [event |-> e, slot |-> slot]
    <3>1. Len(handled) + 1 \in DOMAIN handled'
      BY <1>1
    <3> QED
      BY <1>1, <2>2, <3>1
  <2> QED
    BY <1>2, <2>1, <2>2
<1> QED
  BY <1>2 DEF AcceptedKeysAreHandled

\* A key in the deque has been handled, so dropping the event loses nothing.
LEMMA SeenIsHandled ==
    ASSUME IndInv, NEW e \in Events, Seen(e.key),
           UNCHANGED <<recent, handled>>,
           accepted' = accepted \cup {[event |-> e, slot |-> slot]}
    PROVE  AcceptedKeysAreHandled'
<1>1. /\ Len(recent) \in Nat /\ Len(handled) \in Nat
      /\ DOMAIN recent = 1..Len(recent) /\ DOMAIN handled = 1..Len(handled)
  BY DEF IndInv, TypeOK
<1>2. PICK i \in DOMAIN recent : recent[i] = e.key
  BY DEF Seen
<1>3. /\ recent[i] = handled[Forgotten + i].event.key
      /\ Len(recent) <= Len(handled)
  BY DEF IndInv, RecentIsLatest
<1>4. Forgotten + i \in DOMAIN handled
  BY <1>1, <1>3 DEF Forgotten
<1>5. handled[Forgotten + i].event.key = e.key
  BY <1>2, <1>3
<1> QED
  BY <1>4, <1>5 DEF IndInv, AcceptedKeysAreHandled

-----------------------------------------------------------------------------
(* The inductive invariant *)

LEMMA IndInvInit == Init => IndInv
<1> SUFFICES ASSUME Init PROVE IndInv
  OBVIOUS
<1>1. Len(recent) = 0 /\ Len(handled) = 0 /\ DOMAIN recent = {} /\ DOMAIN handled = {}
  BY DEF Init
<1>2. RecentIsLatest /\ RecentIsDistinct /\ DuplicatesAreSpaced
  BY <1>1 DEF RecentIsLatest, RecentIsDistinct, DuplicatesAreSpaced
<1>3. AcceptedKeysAreHandled
  BY DEF Init, AcceptedKeysAreHandled
<1> QED
  BY <1>2, <1>3, TypeInit DEF IndInv

LEMMA IndInvStep == IndInv /\ [Next]_vars => IndInv'
<1> SUFFICES ASSUME IndInv, [Next]_vars
             PROVE  IndInv'
  OBVIOUS
<1>1. TypeOK'
  BY TypeStep DEF IndInv
<1>2. ASSUME UNCHANGED <<recent, handled>>
      PROVE  RecentIsLatest' /\ RecentIsDistinct' /\ DuplicatesAreSpaced'
  BY <1>2 DEF IndInv, RecentIsLatest, RecentIsDistinct, DuplicatesAreSpaced, Forgotten
<1>3. ASSUME UNCHANGED <<recent, handled, accepted>>
      PROVE  IndInv'
  BY <1>1, <1>2, <1>3 DEF IndInv, AcceptedKeysAreHandled
<1>4. ASSUME NEW n \in Nodes, NEW e \in Events, Receive(n, e)
      PROVE  IndInv'
  <2>1. CASE IsOld(e)
    BY <1>3, <1>4, <2>1 DEF Receive, HandleEvent
  <2>2. CASE ~IsOld(e)
    <3>1. accepted' = accepted \cup {[event |-> e, slot |-> slot]}
      BY <1>4, <2>2 DEF Receive, HandleEvent
    <3>2. CASE Seen(e.key)
      <4>1. UNCHANGED <<recent, handled>>
        BY <1>4, <2>2, <3>2 DEF Receive, HandleEvent, HandleUnlessSeen
      <4> QED
        BY <1>1, <1>2, <3>1, <3>2, <4>1, SeenIsHandled DEF IndInv
    <3>3. CASE ~Seen(e.key)
      <4>1. Handles(e)
        BY <1>4, <2>2, <3>3 DEF Receive, HandleEvent, HandleUnlessSeen, Handles
      <4> QED
        BY <1>1, <3>1, <4>1, HandlingKeepsRecent, HandlingKeepsSpacing,
           HandlingKeepsAccepted DEF IndInv
    <3> QED
      BY <3>2, <3>3
  <2> QED
    BY <2>1, <2>2
<1>5. CASE UNCHANGED vars
  BY <1>3, <1>5 DEF vars
<1>6. CASE NextSlot
  BY <1>3, <1>6 DEF NextSlot
<1>7. ASSUME NEW n \in Nodes,
             \/ Subscribe(n) \/ SubscribeFails(n) \/ StreamFails(n)
             \/ StreamEnds(n) \/ Reconnect(n)
      PROVE  IndInv'
  BY <1>3, <1>7
     DEF Subscribe, SubscribeFails, StreamFails, StreamEnds, Reconnect, Fail
<1> QED
  BY <1>4, <1>5, <1>6, <1>7 DEF Next

LEMMA IndInvAlways == Spec => []IndInv
  BY IndInvInit, IndInvStep, PTL DEF Spec

-----------------------------------------------------------------------------
(* The properties *)

\* Scores stay in their range and the deque within its limit.
THEOREM TypeCorrect == Spec => []TypeOK
<1>1. IndInv => TypeOK
  BY DEF IndInv
<1> QED
  BY <1>1, IndInvAlways, PTL

\* Whatever the nodes send in whatever order, and however small the deque is: a key
\* is only handled again after RecentLimit other keys were.
THEOREM DuplicatesSpaced == Spec => []DuplicatesAreSpaced
<1>1. IndInv => DuplicatesAreSpaced
  BY DEF IndInv
<1> QED
  BY <1>1, IndInvAlways, PTL

\* The deque never hides a key from the handlers for good.
THEOREM AcceptedHandled == Spec => []AcceptedKeysAreHandled
<1>1. IndInv => AcceptedKeysAreHandled
  BY DEF IndInv
<1> QED
  BY <1>1, IndInvAlways, PTL
=============================================================================
