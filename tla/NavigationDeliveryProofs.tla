---------------------- MODULE NavigationDeliveryProofs ----------------------
(***************************************************************************)
(* Proofs about NavigationDelivery for any number of callers, epochs and   *)
(* restarts of the bridge, any monotonic clock and whichever of time and   *)
(* date becomes valid first: the state is well-typed, a woken caller gets  *)
(* the epoch that woke it or a later one, and the bridge implements        *)
(* EpochFeed.                                                              *)
(***************************************************************************)
EXTENDS NavigationDelivery, SequenceTheorems, TLAPS

(* The stored PVT is the newest epoch received. *)
StoreFollowsBurst ==
    store["pvt"] = IF burst.field = "sat" THEN burst.epoch ELSE burst.epoch - 1

(* The last key is the key of an epoch the store has held, and it covers    *)
(* everything this session was told: no later second, and in its own second *)
(* nothing dated that it is not itself.                                     *)
LastKeyHeld ==
    lastEpoch.timed => \E e \in TimeFrom..store["pvt"] : lastEpoch = EpochKey(e)

Covers(key, d) ==
    /\ Second[d] <= key.second
    /\ (Second[d] = key.second /\ d >= DateFrom) => key.dated

LastKeyCovers ==
    \A i \in 1..Len(emitted) : emitted[i] >= TimeFrom =>
        lastEpoch.timed /\ Covers(lastEpoch, emitted[i])

FeedInv == StoreFollowsBurst /\ LastKeyHeld /\ LastKeyCovers

(* The key of an epoch is well-typed. *)
LEMMA EpochKeyType ==
    ASSUME NEW e \in Epochs
    PROVE  EpochKey(e) \in KeyType
BY BoundsAssumption, ClockAssumption DEF EpochKey, NoTime, KeyType, Epochs

LEMMA InitTypeOK == Init => TypeOK
<1> SUFFICES ASSUME Init PROVE TypeOK
  OBVIOUS
<1>1. <<>> \in Seq(Epochs)
  BY EmptySeq
<1>2. /\ 0 \in Epochs /\ 1 \in 1..MaxEpoch + 1 /\ 0 \in 0..MaxSessions /\ 0 \in 0..0
      /\ NoTime \in KeyType
  BY BoundsAssumption DEF Epochs, NoTime, KeyType
<1>3. store \in NavigationType
  BY <1>2 DEF Init, NavigationType
<1>4. burst \in [epoch : 1..MaxEpoch + 1, field : Fields]
  BY <1>2 DEF Init, Fields
<1> QED
  BY <1>1, <1>2, <1>3, <1>4 DEF Init, TypeOK

(* Every step keeps the types. *)
LEMMA NextTypeOK == TypeOK /\ [Next]_vars => TypeOK'
<1> SUFFICES ASSUME TypeOK, [Next]_vars PROVE TypeOK'
  OBVIOUS
<1> USE DEF TypeOK
<1>1. CASE StoreMessage
  <2>1. burst.epoch \in 1..MaxEpoch /\ burst.field \in Fields
    BY <1>1, BoundsAssumption DEF StoreMessage
  <2>2. burst' \in [epoch : 1..MaxEpoch + 1, field : Fields]
    BY <1>1, <2>1, BoundsAssumption DEF StoreMessage, Follow, Fields
  <2>3. burst.epoch \in Epochs
    BY <2>1, BoundsAssumption DEF Epochs
  <2>4. store' \in NavigationType
    BY <1>1, <2>1, <2>3 DEF StoreMessage, NavigationType
  <2>5. epochSeen' \in BOOLEAN
    BY <1>1 DEF StoreMessage
  <2> QED
    BY <1>1, <2>2, <2>4, <2>5
    DEF StoreMessage, notifyVars, readerVars, fwdVars
<1>2. CASE EndPass
  <2>1. store["pvt"] \in Epochs
    BY DEF NavigationType, Fields
  <2>2. generation' = generation + 1 /\ announced' \in Epochs
    BY <1>2, <2>1 DEF EndPass, Notify
  <2>3. generation' \in Nat /\ cursor \in 0..generation'
    BY <2>2
  <2>4. ready' \in BOOLEAN /\ epochSeen' \in BOOLEAN
    BY <1>2 DEF EndPass, Notify
  <2>5. UNCHANGED <<burst, store, pc, mark, stop, fwd, fwdStop, sessions, attentive, cursor,
                    lastEpoch, emitted>>
    BY <1>2 DEF EndPass, readerVars, fwdVars
  <2> QED
    BY <2>2, <2>3, <2>4, <2>5
<1>3. ASSUME NEW r \in Readers, CallFresh(r) \/ Woken(r) \/ ReturnFresh(r) \/ ReturnStopped(r)
      PROVE  TypeOK'
  <2>1. pc' \in [Readers -> {"idle", "wait", "woken"}]
    BY <1>3 DEF CallFresh, Woken, ReturnFresh, ReturnStopped
  <2>2. 0 \in Epochs
    BY BoundsAssumption DEF Epochs
  <2>3. mark' \in [Readers -> Epochs]
    BY <1>3, <2>2 DEF CallFresh, Woken, ReturnFresh, ReturnStopped
  <2>4. ready' \in BOOLEAN
    BY <1>3 DEF CallFresh, Woken, ReturnFresh, ReturnStopped, notifyVars
  <2>5. UNCHANGED <<burst, store, epochSeen, generation, announced, stop, fwd, fwdStop,
                    sessions, attentive, cursor, lastEpoch, emitted>>
    BY <1>3 DEF CallFresh, Woken, ReturnFresh, ReturnStopped, hatVars, notifyVars, fwdVars
  <2> QED
    BY <2>1, <2>3, <2>4, <2>5
<1>4. CASE StartForward
  <2>1. emitted' \in Seq(Epochs)
    BY <1>4, EmptySeq DEF StartForward
  <2>2. sessions' \in 0..MaxSessions
    BY <1>4, BoundsAssumption DEF StartForward
  <2>3. lastEpoch' \in KeyType
    BY <1>4 DEF StartForward, NoTime, KeyType
  <2>4. /\ fwd' \in {"off", "top", "wait", "read", "exited"} /\ fwdStop' \in BOOLEAN
        /\ attentive' \in BOOLEAN
    BY <1>4 DEF StartForward
  <2>5. UNCHANGED <<burst, store, epochSeen, ready, generation, announced, pc, mark, stop>>
    BY <1>4 DEF StartForward, hatVars, notifyVars, readerVars
  <2>6. cursor' = 0
    BY <1>4 DEF StartForward, FirstCursor
  <2>7. cursor' \in 0..generation'
    BY <2>5, <2>6
  <2> QED
    BY <2>1, <2>2, <2>3, <2>4, <2>5, <2>7
<1>5. CASE StopForward \/ JoinForward \/ ForwardTop \/ ForwardStopped \/ ForwardSkip \/ Destroy
  <2>1. fwd' \in {"off", "top", "wait", "read", "exited"}
    BY <1>5 DEF StopForward, JoinForward, ForwardTop, ForwardStopped, ForwardSkip, Destroy
  <2> QED
    BY <1>5, <2>1
    DEF StopForward, JoinForward, ForwardTop, ForwardStopped, ForwardSkip, Destroy,
        hatVars, notifyVars, readerVars
<1>6. CASE ForwardWoken
  BY <1>6 DEF ForwardWoken, hatVars, notifyVars, readerVars
<1>7. CASE ForwardWrite
  <2>1. Snapshot["pvt"] \in Epochs
    BY DEF NavigationType, Fields, Snapshot
  <2>2. emitted' \in Seq(Epochs)
    BY <1>7, <2>1, AppendProperties DEF ForwardWrite
  <2>3. lastEpoch' \in KeyType
    BY <1>7, <2>1, EpochKeyType DEF ForwardWrite
  <2> QED
    BY <1>7, <2>2, <2>3 DEF ForwardWrite, hatVars, notifyVars, readerVars
<1>8. CASE UNCHANGED vars
  BY <1>8 DEF vars, hatVars, notifyVars, readerVars, fwdVars
<1> QED
  BY <1>1, <1>2, <1>3, <1>4, <1>5, <1>6, <1>7, <1>8
  DEF Next, ReaderStep, ForwardStep

(* The delivery's state is well-typed; in particular the bridge's cursor    *)
(* never runs ahead of the notifier's generation.                           *)
THEOREM DeliveryTypeCorrect == Spec => []TypeOK
BY InitTypeOK, NextTypeOK, PTL DEF Spec

-----------------------------------------------------------------------------
(* The feed *)

(* The clock is a monotonic function of natural numbers. *)
LEMMA ClockFacts ==
    /\ TimeFrom \in Nat /\ DateFrom \in Nat
    /\ \A e \in Epochs : e \in Nat /\ Second[e] \in Nat
    /\ \A d, e \in Epochs : d <= e => Second[d] <= Second[e]
    /\ \A e \in Epochs : \A d \in Nat : d <= e => d \in Epochs
<1>1. TimeFrom \in Nat /\ DateFrom \in Nat
  BY ClockAssumption
<1>2. \A e \in Epochs : e \in Nat
  BY BoundsAssumption DEF Epochs
<1>3. \A e \in Epochs : Second[e] \in Nat
  BY ClockAssumption
<1>4. \A d, e \in Epochs : d <= e => Second[d] <= Second[e]
  BY ClockAssumption
<1>5. \A e \in Epochs : \A d \in Nat : d <= e => d \in Epochs
  BY BoundsAssumption DEF Epochs
<1> QED
  BY <1>1, <1>2, <1>3, <1>4, <1>5

(* The key of an epoch without valid time, and of one with it. *)
LEMMA UntimedKey ==
    ASSUME NEW e \in Epochs, e < TimeFrom
    PROVE  EpochKey(e) = NoTime /\ EpochKey(e).timed = FALSE
BY DEF EpochKey, NoTime

LEMMA TimedKey ==
    ASSUME NEW e \in Epochs, e >= TimeFrom
    PROVE  /\ EpochKey(e) = [second |-> Second[e], dated |-> e >= DateFrom, timed |-> TRUE]
           /\ EpochKey(e).second = Second[e]
           /\ EpochKey(e).timed = TRUE
           /\ (EpochKey(e).dated <=> e >= DateFrom)
<1>1. ~(e < TimeFrom)
  BY ClockFacts
<1>2. EpochKey(e) = [second |-> Second[e], dated |-> e >= DateFrom, timed |-> TRUE]
  BY <1>1 DEF EpochKey
<1>3. EpochKey(e).second = Second[e] /\ EpochKey(e).timed = TRUE
  BY <1>2
<1>4. EpochKey(e).dated <=> e >= DateFrom
  <2>1. CASE e >= DateFrom
    <3>1. (e >= DateFrom) = TRUE
      BY <2>1
    <3>2. EpochKey(e) = [second |-> Second[e], dated |-> TRUE, timed |-> TRUE]
      BY <1>2, <3>1
    <3> QED
      BY <2>1, <3>2
  <2>2. CASE ~(e >= DateFrom)
    <3>1. (e >= DateFrom) = FALSE
      BY <2>2
    <3>2. EpochKey(e) = [second |-> Second[e], dated |-> FALSE, timed |-> TRUE]
      BY <1>2, <3>1
    <3> QED
      BY <2>2, <3>2
  <2> QED
    BY <2>1, <2>2
<1> QED
  BY <1>2, <1>3, <1>4

LEMMA InitFeedInv == Init => FeedInv
<1> SUFFICES ASSUME Init PROVE FeedInv
  OBVIOUS
<1>1. store["pvt"] = 0 /\ burst.field = "dop" /\ burst.epoch = 1
  BY DEF Init, Fields
<1>2. lastEpoch.timed = FALSE /\ emitted = <<>>
  BY DEF Init, NoTime
<1> QED
  BY <1>1, <1>2 DEF FeedInv, StoreFollowsBurst, LastKeyHeld, LastKeyCovers

(* Only parsing a NAV-PVT changes the newest epoch, and it brings the next. *)
LEMMA StoreStep ==
    ASSUME TypeOK, StoreFollowsBurst, StoreMessage
    PROVE  /\ StoreFollowsBurst'
           /\ \/ store["pvt"]' = store["pvt"]
              \/ store["pvt"]' = store["pvt"] + 1
           /\ UNCHANGED <<lastEpoch, emitted>>
<1>1. burst.epoch \in 1..MaxEpoch /\ burst.field \in Fields
  BY BoundsAssumption DEF StoreMessage, TypeOK
<1>2. store["pvt"]' = IF burst.field = "pvt" THEN burst.epoch ELSE store["pvt"]
  BY <1>1 DEF StoreMessage, TypeOK, NavigationType, Fields
<1>3. UNCHANGED <<lastEpoch, emitted>>
  BY DEF StoreMessage, fwdVars
<1>4. CASE burst.field = "dop"
  <2>1. burst'.field = "pvt" /\ burst'.epoch = burst.epoch
    BY <1>4 DEF StoreMessage, Follow
  <2> QED
    BY <1>1, <1>2, <1>3, <1>4, <2>1 DEF StoreFollowsBurst
<1>5. CASE burst.field = "pvt"
  <2>1. burst'.field = "sat" /\ burst'.epoch = burst.epoch
    BY <1>5 DEF StoreMessage, Follow
  <2> QED
    BY <1>1, <1>2, <1>3, <1>5, <2>1 DEF StoreFollowsBurst
<1>6. CASE burst.field = "sat"
  <2>1. burst'.field = "dop" /\ burst'.epoch = burst.epoch + 1
    BY <1>6 DEF StoreMessage, Follow
  <2> QED
    BY <1>1, <1>2, <1>3, <1>6, <2>1 DEF StoreFollowsBurst
<1> QED
  BY <1>1, <1>4, <1>5, <1>6 DEF Fields

(* The last key is that of an epoch no newer than the stored one.           *)
LEMMA LastKeyIsOlder ==
    ASSUME TypeOK, FeedInv, lastEpoch.timed
    PROVE  \E d \in Epochs : /\ d >= TimeFrom /\ d <= store["pvt"]
                            /\ lastEpoch = EpochKey(d)
                            /\ lastEpoch.second = Second[d]
                            /\ (lastEpoch.dated <=> d >= DateFrom)
                            /\ Second[d] <= Second[store["pvt"]]
<1>1. store["pvt"] \in Epochs
  BY DEF TypeOK, NavigationType, Fields
<1>2. PICK d \in TimeFrom..store["pvt"] : lastEpoch = EpochKey(d)
  BY DEF FeedInv, LastKeyHeld
<1>3. d \in Epochs /\ d >= TimeFrom /\ d <= store["pvt"]
  BY <1>1, <1>2, ClockFacts
<1>4. lastEpoch.second = Second[d] /\ (lastEpoch.dated <=> d >= DateFrom)
  BY <1>2, <1>3, TimedKey
<1>5. Second[d] <= Second[store["pvt"]]
  BY <1>1, <1>3, ClockFacts
<1> QED
  BY <1>2, <1>3, <1>4, <1>5

(* A sentence set that is not skipped is later than every one before: in a  *)
(* newer second, or the first dated one of the same second.                 *)
LEMMA NotRepeatedIsFresh ==
    ASSUME TypeOK, FeedInv, ~Repeats(EpochKey(store["pvt"]))
    PROVE  Feed!Fresh(store["pvt"])
<1> DEFINE e == store["pvt"]
<1> SUFFICES ASSUME e >= TimeFrom, NEW i \in 1..Len(emitted), emitted[i] >= TimeFrom
             PROVE  Feed!Later(emitted[i], e)
  BY DEF Feed!Fresh
<1>1. e \in Epochs /\ emitted[i] \in Epochs
  BY ElementOfSeq DEF TypeOK, NavigationType, Fields
<1>2. lastEpoch.timed /\ Covers(lastEpoch, emitted[i])
  BY DEF FeedInv, LastKeyCovers
<1>3. PICK d \in Epochs : /\ d >= TimeFrom /\ d <= e /\ lastEpoch = EpochKey(d)
                          /\ lastEpoch.second = Second[d]
                          /\ (lastEpoch.dated <=> d >= DateFrom)
                          /\ Second[d] <= Second[e]
  BY <1>2, LastKeyIsOlder
<1>4. /\ d \in Nat /\ e \in Nat /\ emitted[i] \in Nat /\ DateFrom \in Nat
      /\ Second[d] \in Nat /\ Second[e] \in Nat /\ Second[emitted[i]] \in Nat
  BY <1>1, <1>3, ClockFacts
<1>5. /\ Second[emitted[i]] <= Second[d]
      /\ (Second[emitted[i]] = Second[d] /\ emitted[i] >= DateFrom) => d >= DateFrom
  BY <1>2, <1>3 DEF Covers
<1>6. CASE Second[d] < Second[e]
  BY <1>4, <1>5, <1>6 DEF Feed!Later
<1>7. CASE Second[d] = Second[e]
  <2>1. EpochKey(d) # EpochKey(e)
    <3>1. EpochKey(e).timed = TRUE
      BY <1>1, TimedKey
    <3> QED
      BY <1>3, <3>1 DEF Repeats
  <2>2. EpochKey(d) = [second |-> Second[d], dated |-> d >= DateFrom, timed |-> TRUE]
    BY <1>3, TimedKey
  <2>3. EpochKey(e) = [second |-> Second[e], dated |-> e >= DateFrom, timed |-> TRUE]
    BY <1>1, TimedKey
  <2>4. (d >= DateFrom) # (e >= DateFrom)
    BY <1>7, <2>1, <2>2, <2>3
  <2>5. d < DateFrom /\ DateFrom <= e
    BY <1>3, <1>4, <2>4
  <2> QED
    BY <1>4, <1>5, <1>7, <2>5 DEF Feed!Later
<1> QED
  BY <1>3, <1>4, <1>6, <1>7

(* The key of the newest epoch covers what was told before it.              *)
LEMMA OldIsCovered ==
    ASSUME TypeOK, FeedInv, store["pvt"] >= TimeFrom,
           NEW i \in 1..Len(emitted), emitted[i] >= TimeFrom
    PROVE  Covers(EpochKey(store["pvt"]), emitted[i])
<1> DEFINE e == store["pvt"]
<1>1. e \in Epochs /\ emitted[i] \in Epochs
  BY ElementOfSeq DEF TypeOK, NavigationType, Fields
<1>2. lastEpoch.timed /\ Covers(lastEpoch, emitted[i])
  BY DEF FeedInv, LastKeyCovers
<1>3. PICK d \in Epochs : /\ d >= TimeFrom /\ d <= e
                          /\ lastEpoch.second = Second[d]
                          /\ (lastEpoch.dated <=> d >= DateFrom)
                          /\ Second[d] <= Second[e]
  BY <1>2, LastKeyIsOlder
<1>4. /\ d \in Nat /\ e \in Nat /\ emitted[i] \in Nat /\ DateFrom \in Nat
      /\ Second[d] \in Nat /\ Second[e] \in Nat /\ Second[emitted[i]] \in Nat
  BY <1>1, <1>3, ClockFacts
<1>5. EpochKey(e).second = Second[e] /\ (EpochKey(e).dated <=> e >= DateFrom)
  BY <1>1, TimedKey
<1>6. /\ Second[emitted[i]] <= Second[d]
      /\ (Second[emitted[i]] = Second[d] /\ emitted[i] >= DateFrom) => d >= DateFrom
  BY <1>2, <1>3 DEF Covers
<1>7. Second[emitted[i]] <= Second[e]
  BY <1>3, <1>4, <1>6
<1>8. (Second[emitted[i]] = Second[e] /\ emitted[i] >= DateFrom) => e >= DateFrom
  BY <1>3, <1>4, <1>6
<1> QED
  BY <1>5, <1>7, <1>8 DEF Covers

(* The invariant of the feed survives a written sentence set.               *)
LEMMA WriteStep ==
    ASSUME TypeOK, FeedInv, ForwardWrite
    PROVE  FeedInv'
<1> DEFINE e == store["pvt"]
<1>1. e \in Epochs
  BY DEF TypeOK, NavigationType, Fields
<1>2. UNCHANGED <<burst, store>> /\ Snapshot["pvt"] = e
  BY DEF ForwardWrite, hatVars, Snapshot
<1>3. StoreFollowsBurst'
  BY <1>2 DEF FeedInv, StoreFollowsBurst
<1>4. CASE e < TimeFrom
  <2>1. lastEpoch' = lastEpoch
    BY <1>1, <1>2, <1>4, UntimedKey DEF ForwardWrite
  <2>2. LastKeyHeld'
    BY <1>2, <2>1 DEF FeedInv, LastKeyHeld
  <2>3. ASSUME NEW i \in 1..Len(emitted'), emitted'[i] >= TimeFrom
        PROVE  i \in 1..Len(emitted) /\ emitted'[i] = emitted[i]
    <3>1. emitted' = emitted \/ emitted' = Append(emitted, e)
      BY <1>2 DEF ForwardWrite
    <3>2. emitted \in Seq(Epochs) /\ e \in Nat /\ TimeFrom \in Nat
      BY <1>1, ClockAssumption DEF TypeOK, Epochs
    <3>3. CASE emitted' = emitted
      BY <3>3, <2>3
    <3>4. CASE emitted' = Append(emitted, e)
      <4>1. Len(emitted') = Len(emitted) + 1 /\ Len(emitted) \in Nat
        BY <3>2, <3>4, <1>1, AppendProperties, LenProperties
      <4>2. emitted'[Len(emitted) + 1] = e
        BY <3>2, <3>4, <1>1, AppendProperties
      <4>3. i # Len(emitted) + 1
        BY <4>2, <1>4, <2>3, <3>2
      <4>4. i \in 1..Len(emitted)
        BY <4>1, <4>3, <2>3
      <4> QED
        BY <4>4, <3>2, <3>4, <1>1, AppendProperties
    <3> QED
      BY <3>1, <3>3, <3>4
  <2>4. LastKeyCovers'
    BY <2>1, <2>3 DEF FeedInv, LastKeyCovers, Covers
  <2> QED
    BY <1>3, <2>2, <2>4 DEF FeedInv
<1>5. CASE e >= TimeFrom
  <2>1. /\ EpochKey(e).timed /\ EpochKey(e).second = Second[e]
        /\ (EpochKey(e).dated <=> e >= DateFrom)
    BY <1>1, <1>5, TimedKey
  <2>2. lastEpoch' = EpochKey(e)
    BY <1>2, <2>1 DEF ForwardWrite
  <2>3. LastKeyHeld'
    <3>1. e \in TimeFrom..e
      BY <1>1, <1>5, ClockAssumption DEF Epochs
    <3> QED
      BY <1>2, <2>2, <3>1 DEF LastKeyHeld, EpochKey
  <2>4. ASSUME NEW i \in 1..Len(emitted'), emitted'[i] >= TimeFrom
        PROVE  Covers(EpochKey(e), emitted'[i])
    <3>1. emitted' = emitted \/ emitted' = Append(emitted, e)
      BY <1>2 DEF ForwardWrite
    <3>2. emitted \in Seq(Epochs) /\ Second[e] \in Nat
      BY <1>1, ClockAssumption DEF TypeOK
    <3>3. ASSUME NEW j \in 1..Len(emitted), emitted[j] >= TimeFrom
          PROVE  Covers(EpochKey(e), emitted[j])
      BY <1>5, <2>1, <3>3, OldIsCovered
    <3>4. CASE emitted' = emitted
      BY <3>3, <3>4, <2>4
    <3>5. CASE emitted' = Append(emitted, e)
      <4>1. Len(emitted') = Len(emitted) + 1 /\ Len(emitted) \in Nat
        BY <3>2, <3>5, <1>1, AppendProperties, LenProperties
      <4>2. CASE i = Len(emitted) + 1
        <5>1. emitted'[i] = e
          BY <3>2, <3>5, <1>1, <4>2, AppendProperties
        <5> QED
          BY <2>1, <3>2, <5>1 DEF Covers
      <4>3. CASE i # Len(emitted) + 1
        <5>1. i \in 1..Len(emitted)
          BY <4>1, <4>3, <2>4
        <5>2. emitted'[i] = emitted[i]
          BY <5>1, <3>2, <3>5, <1>1, AppendProperties
        <5> QED
          BY <5>1, <5>2, <3>3, <2>4
      <4> QED
        BY <4>2, <4>3
    <3> QED
      BY <3>1, <3>4, <3>5
  <2>5. LastKeyCovers'
    BY <2>1, <2>2, <2>4 DEF LastKeyCovers, Covers
  <2> QED
    BY <1>3, <2>3, <2>5 DEF FeedInv
<1> QED
  BY <1>1, <1>4, <1>5, ClockAssumption DEF Epochs

(* Every other step leaves the feed alone. *)
LEMMA NextFeedInv == TypeOK /\ FeedInv /\ [Next]_vars => FeedInv'
<1> SUFFICES ASSUME TypeOK, FeedInv, [Next]_vars PROVE FeedInv'
  OBVIOUS
<1>1. CASE StoreMessage
  <2>1. StoreFollowsBurst' /\ UNCHANGED <<lastEpoch, emitted>>
    BY <1>1, StoreStep DEF FeedInv
  <2>2. store["pvt"]' >= store["pvt"] /\ store["pvt"] \in Nat
    BY <1>1, StoreStep DEF FeedInv, TypeOK, NavigationType, Fields, Epochs
  <2>3. store["pvt"]' \in Nat
    BY <1>1, <2>2, StoreStep DEF FeedInv
  <2>4. LastKeyHeld'
    <3> SUFFICES ASSUME lastEpoch.timed
                 PROVE  \E e \in TimeFrom..store["pvt"]' : lastEpoch = EpochKey(e)
      BY <2>1 DEF LastKeyHeld, EpochKey
    <3>1. PICK e \in TimeFrom..store["pvt"] : lastEpoch = EpochKey(e)
      BY DEF FeedInv, LastKeyHeld
    <3>2. e \in TimeFrom..store["pvt"]'
      BY <3>1, <2>2, <2>3, ClockAssumption
    <3> QED
      BY <3>1, <3>2
  <2>5. LastKeyCovers'
    BY <2>1 DEF FeedInv, LastKeyCovers, Covers
  <2> QED
    BY <2>1, <2>4, <2>5 DEF FeedInv
<1>2. CASE StartForward
  <2>1. UNCHANGED <<burst, store>> /\ lastEpoch' = NoTime /\ emitted' = <<>>
    BY <1>2 DEF StartForward, hatVars
  <2>2. lastEpoch'.timed = FALSE /\ Len(emitted') = 0
    BY <2>1 DEF NoTime
  <2> QED
    BY <2>1, <2>2 DEF FeedInv, StoreFollowsBurst, LastKeyHeld, LastKeyCovers, Covers
<1>3. CASE ForwardWrite
  BY <1>3, WriteStep
<1>4. CASE UNCHANGED <<burst, store, lastEpoch, emitted>>
  BY <1>4 DEF FeedInv, StoreFollowsBurst, LastKeyHeld, LastKeyCovers, Covers, EpochKey
<1>5. ASSUME Next, ~StoreMessage, ~StartForward, ~ForwardWrite
      PROVE  UNCHANGED <<burst, store, lastEpoch, emitted>>
  <2>1. CASE EndPass
    BY <2>1 DEF EndPass, fwdVars
  <2>2. ASSUME NEW r \in Readers, CallFresh(r) \/ Woken(r) \/ ReturnFresh(r) \/ ReturnStopped(r)
        PROVE  UNCHANGED <<burst, store, lastEpoch, emitted>>
    BY <2>2 DEF CallFresh, Woken, ReturnFresh, ReturnStopped, hatVars, fwdVars
  <2>3. CASE StopForward \/ JoinForward \/ Destroy
    BY <2>3 DEF StopForward, JoinForward, Destroy, hatVars
  <2>4. CASE ForwardTop \/ ForwardWoken \/ ForwardStopped \/ ForwardSkip
    BY <2>4 DEF ForwardTop, ForwardWoken, ForwardStopped, ForwardSkip, hatVars
  <2> QED
    BY <1>5, <2>1, <2>2, <2>3, <2>4 DEF Next, ReaderStep, ForwardStep
<1>6. CASE UNCHANGED vars
  BY <1>4, <1>6 DEF vars, hatVars, fwdVars
<1> QED
  BY <1>1, <1>2, <1>3, <1>4, <1>5, <1>6

(* Every step of the delivery is a step of the feed, or none.               *)
LEMMA StepImplementsFeed ==
    ASSUME TypeOK, FeedInv, [Next]_vars
    PROVE  [Feed!Next]_<<store["pvt"], emitted>>
<1>1. CASE StoreMessage
  <2>1. /\ store["pvt"]' = store["pvt"] \/ store["pvt"]' = store["pvt"] + 1
        /\ emitted' = emitted
    BY <1>1, StoreStep DEF FeedInv
  <2> QED
    BY <2>1 DEF Feed!Next, Feed!Publish
<1>2. CASE StartForward
  <2>1. emitted' = <<>> /\ store' = store
    BY <1>2 DEF StartForward, hatVars
  <2> QED
    BY <2>1 DEF Feed!Next, Feed!Restart
<1>3. CASE ForwardWrite
  <2>1. /\ emitted' = emitted \/ emitted' = Append(emitted, store["pvt"])
        /\ store' = store
    BY <1>3 DEF ForwardWrite, hatVars, Snapshot
  <2>2. Feed!Fresh(store["pvt"])
    BY <1>3, NotRepeatedIsFresh DEF ForwardWrite, Snapshot
  <2> QED
    BY <2>1, <2>2 DEF Feed!Next, Feed!Feed
<1>4. ASSUME UNCHANGED <<store, emitted>>
      PROVE  [Feed!Next]_<<store["pvt"], emitted>>
  BY <1>4
<1>5. ASSUME Next, ~StoreMessage, ~StartForward, ~ForwardWrite
      PROVE  UNCHANGED <<store, emitted>>
  <2>1. CASE EndPass
    BY <2>1 DEF EndPass, fwdVars
  <2>2. ASSUME NEW r \in Readers, CallFresh(r) \/ Woken(r) \/ ReturnFresh(r) \/ ReturnStopped(r)
        PROVE  UNCHANGED <<store, emitted>>
    BY <2>2 DEF CallFresh, Woken, ReturnFresh, ReturnStopped, hatVars, fwdVars
  <2>3. CASE StopForward \/ JoinForward \/ Destroy
    BY <2>3 DEF StopForward, JoinForward, Destroy, hatVars
  <2>4. CASE ForwardTop \/ ForwardWoken \/ ForwardStopped \/ ForwardSkip
    BY <2>4 DEF ForwardTop, ForwardWoken, ForwardStopped, ForwardSkip, hatVars
  <2> QED
    BY <1>5, <2>1, <2>2, <2>3, <2>4 DEF Next, ReaderStep, ForwardStep
<1>6. CASE UNCHANGED vars
  BY <1>4, <1>6 DEF vars, hatVars, fwdVars
<1> QED
  BY <1>1, <1>2, <1>3, <1>4, <1>5, <1>6

(* The gpsd bridge implements the feed for every number of epochs, callers  *)
(* and restarts and every clock: within a session time never goes back, and *)
(* a valid second is told again only when its date became valid after the   *)
(* first telling (NmeaForwarder::forwardingThread).                         *)
THEOREM BridgeImplementsFeed == Spec => ImplementsFeed
<1>1. Init => Feed!Init
  BY DEF Init, Feed!Init, Fields
<1>2. TypeOK /\ FeedInv /\ [Next]_vars => [Feed!Next]_<<store["pvt"], emitted>>
  BY StepImplementsFeed
<1> QED
  BY <1>1, <1>2, InitTypeOK, NextTypeOK, InitFeedInv, NextFeedInv, PTL
  DEF Spec, ImplementsFeed, Feed!Spec

-----------------------------------------------------------------------------
(* What a woken caller is given.                                            *)

(* The store is never older than what was announced: DOP comes before PVT,  *)
(* and SAT is at most one epoch behind.                                     *)
StoreCoversPvt ==
    /\ burst.field # "dop" => store["dop"] = burst.epoch
    /\ burst.field = "dop" => store["dop"] = burst.epoch - 1
    /\ burst.field = "sat" => store["pvt"] = burst.epoch
    /\ burst.field # "sat" => store["pvt"] = burst.epoch - 1
    /\ store["sat"] = burst.epoch - 1

AnnouncedIsStored ==
    /\ epochSeen => store["pvt"] > 0
    /\ announced <= store["pvt"]
    /\ ready => announced > 0

MarksAnnounced ==
    \A r \in Readers : mark[r] <= announced /\ (pc[r] = "woken" => mark[r] > 0)

FreshInv == StoreCoversPvt /\ AnnouncedIsStored /\ MarksAnnounced

LEMMA InitFreshInv == Init => FreshInv
BY DEF Init, FreshInv, StoreCoversPvt, AnnouncedIsStored, MarksAnnounced, Fields

(* Storing a message: the burst moves on, and the store only grows.         *)
LEMMA StoreKeepsFresh ==
    ASSUME TypeOK, FreshInv, StoreMessage
    PROVE  FreshInv'
<1>1. burst.epoch \in 1..MaxEpoch /\ burst.field \in Fields /\ MaxEpoch \in Nat
  BY BoundsAssumption DEF TypeOK, StoreMessage
<1>2. store \in [Fields -> Epochs] /\ store' = [store EXCEPT ![burst.field] = burst.epoch]
  BY DEF TypeOK, NavigationType, StoreMessage
<1>3. burst' = Follow(burst.field) /\ UNCHANGED <<ready, generation, announced, pc, mark>>
  BY DEF StoreMessage, notifyVars, readerVars
<1>4. \A f \in Fields : store'[f] = IF f = burst.field THEN burst.epoch ELSE store[f]
  BY <1>2
<1>5. "dop" \in Fields /\ "pvt" \in Fields /\ "sat" \in Fields
  BY DEF Fields
<1>6. announced \in Nat /\ store["pvt"] \in Nat
  BY <1>2, <1>5 DEF TypeOK, Epochs
<1>7. StoreCoversPvt'
  <2>1. CASE burst.field = "dop"
    <3>1. burst' = [epoch |-> burst.epoch, field |-> "pvt"]
      BY <1>3, <2>1 DEF Follow
    <3>2. burst'.epoch = burst.epoch /\ burst'.field = "pvt"
      BY <3>1
    <3> QED
      BY <1>1, <1>4, <1>5, <2>1, <3>2 DEF FreshInv, StoreCoversPvt
  <2>2. CASE burst.field = "pvt"
    <3>1. burst' = [epoch |-> burst.epoch, field |-> "sat"]
      BY <1>3, <2>2 DEF Follow
    <3>2. burst'.epoch = burst.epoch /\ burst'.field = "sat"
      BY <3>1
    <3> QED
      BY <1>1, <1>4, <1>5, <2>2, <3>2 DEF FreshInv, StoreCoversPvt
  <2>3. CASE burst.field = "sat"
    <3>1. burst' = [epoch |-> burst.epoch + 1, field |-> "dop"]
      BY <1>3, <2>3 DEF Follow
    <3>2. burst'.epoch = burst.epoch + 1 /\ burst'.field = "dop"
      BY <3>1
    <3> QED
      BY <1>1, <1>4, <1>5, <2>3, <3>2 DEF FreshInv, StoreCoversPvt
  <2> QED
    BY <1>1, <2>1, <2>2, <2>3 DEF Fields
<1>8. store'["pvt"] >= store["pvt"] /\ (burst.field = "pvt" => store'["pvt"] > 0)
  BY <1>1, <1>4, <1>5, <1>6 DEF FreshInv, StoreCoversPvt
<1>9. store'["pvt"] \in Nat
  BY <1>1, <1>4, <1>5, <1>6
<1>10. epochSeen' => epochSeen \/ burst.field = "pvt"
  BY DEF StoreMessage, Marks
<1>11. AnnouncedIsStored'
  BY <1>3, <1>6, <1>8, <1>9, <1>10 DEF FreshInv, AnnouncedIsStored
<1>12. MarksAnnounced'
  BY <1>3 DEF FreshInv, MarksAnnounced
<1> QED
  BY <1>7, <1>11, <1>12 DEF FreshInv

(* The end of a pass announces what is stored. *)
LEMMA PassKeepsFresh ==
    ASSUME TypeOK, FreshInv, EndPass
    PROVE  FreshInv'
<1>1. /\ epochSeen /\ epochSeen' = FALSE /\ ready' = TRUE /\ announced' = store["pvt"]
      /\ UNCHANGED <<burst, store, pc, mark>>
  BY DEF EndPass, Notify, readerVars
<1>2. announced \in Nat /\ store["pvt"] \in Nat /\ \A r \in Readers : mark[r] \in Nat
  BY DEF TypeOK, NavigationType, Fields, Epochs
<1>3. StoreCoversPvt'
  BY <1>1 DEF FreshInv, StoreCoversPvt
<1>4. AnnouncedIsStored'
  BY <1>1, <1>2 DEF FreshInv, AnnouncedIsStored
<1>5. MarksAnnounced'
  BY <1>1, <1>2 DEF FreshInv, AnnouncedIsStored, MarksAnnounced
<1> QED
  BY <1>3, <1>4, <1>5 DEF FreshInv

(* A caller's step changes `ready`, its mark and where it is.               *)
LEMMA ReaderKeepsFresh ==
    ASSUME TypeOK, FreshInv, NEW r \in Readers, CallFresh(r) \/ ReaderStep(r)
    PROVE  FreshInv'
<1>1. UNCHANGED <<burst, store, epochSeen, announced>> /\ (ready' => ready)
  BY DEF CallFresh, ReaderStep, Woken, ReturnFresh, ReturnStopped, hatVars, notifyVars
<1>2. /\ \A q \in Readers : q # r => mark'[q] = mark[q] /\ pc'[q] = pc[q]
      /\ mark'[r] \in {0, announced}
      /\ pc'[r] = "woken" => mark'[r] = announced /\ ready
  BY DEF TypeOK, CallFresh, ReaderStep, Woken, ReturnFresh, ReturnStopped
<1>3. announced \in Nat
  BY DEF TypeOK, Epochs
<1>4. StoreCoversPvt' /\ AnnouncedIsStored'
  BY <1>1 DEF FreshInv, StoreCoversPvt, AnnouncedIsStored
<1>5. MarksAnnounced'
  BY <1>1, <1>2, <1>3 DEF FreshInv, AnnouncedIsStored, MarksAnnounced
<1> QED
  BY <1>4, <1>5 DEF FreshInv

(* The bridge and the destructor touch neither store, notifier nor callers. *)
LEMMA OthersKeepCallers ==
    ASSUME \/ StartForward \/ StopForward \/ JoinForward \/ ForwardStep \/ Destroy
           \/ UNCHANGED vars
    PROVE  UNCHANGED <<hatVars, notifyVars, readerVars>>
BY DEF StartForward, StopForward, JoinForward, ForwardStep, ForwardTop, ForwardWoken,
       ForwardStopped, ForwardSkip, ForwardWrite, Destroy, vars

LEMMA NextFreshInv == TypeOK /\ FreshInv /\ [Next]_vars => FreshInv'
<1> SUFFICES ASSUME TypeOK, FreshInv, [Next]_vars PROVE FreshInv'
  OBVIOUS
<1>1. CASE UNCHANGED <<hatVars, notifyVars, readerVars>>
  BY <1>1 DEF FreshInv, StoreCoversPvt, AnnouncedIsStored, MarksAnnounced, hatVars,
     notifyVars, readerVars
<1> QED
  BY <1>1, StoreKeepsFresh, PassKeepsFresh, ReaderKeepsFresh, OthersKeepCallers DEF Next

(* Whatever the parser stores between the wakeup and the copy, a caller of  *)
(* waitAndGetFreshNavigation that was woken by an epoch gets that epoch's   *)
(* PVT and DOP or later ones, and satellites at most one epoch older; for   *)
(* every number of callers.                                                 *)
THEOREM WokenGetsEpoch == Spec => FreshReflectsWakeup
<1> DEFINE Current(r) == /\ Snapshot["pvt"] >= mark[r] /\ mark[r] > 0
                         /\ Snapshot["dop"] >= mark[r]
                         /\ Snapshot["sat"] >= mark[r] - 1
<1>1. ASSUME TypeOK, FreshInv, NEW r \in Readers, Returns(r)
      PROVE  Current(r)
  <2>1. /\ mark[r] \in Nat /\ announced \in Nat /\ burst.epoch \in Nat
        /\ store["pvt"] \in Nat /\ store["dop"] \in Nat /\ store["sat"] \in Nat
    BY <1>1 DEF TypeOK, NavigationType, Fields, Epochs
  <2>2. mark[r] > 0 /\ mark[r] <= announced /\ announced <= store["pvt"]
    BY <1>1 DEF Returns, FreshInv, MarksAnnounced, AnnouncedIsStored
  <2>3. store["dop"] >= store["pvt"] /\ store["sat"] >= store["pvt"] - 1
    BY <1>1, <2>1 DEF FreshInv, StoreCoversPvt
  <2> QED
    BY <2>1, <2>2, <2>3 DEF Snapshot
<1>2. TypeOK /\ FreshInv /\ [Next]_vars => [\A r \in Readers : Returns(r) => Current(r)]_vars
  BY <1>1
<1> QED
  BY <1>2, InitTypeOK, NextTypeOK, InitFreshInv, NextFreshInv, PTL
  DEF Spec, FreshReflectsWakeup
=============================================================================
