------------------------- MODULE NavigationDelivery -------------------------
(***************************************************************************)
(* From the parser to the application: the ublox thread stores the decoded *)
(* NAV messages one by one (UbxCallbacks, NavigationStore) and announces a *)
(* new epoch through navigationNotifier_ (Notifier.hpp); threads of the    *)
(* application block in waitAndGetFreshNavigation(), and the gpsd bridge   *)
(* follows the same notifier as a side subscriber (NmeaForwarder.cpp).     *)
(*                                                                         *)
(* An epoch is a number; a message carries the number of its epoch and the *)
(* store keeps, per field, the epoch it was last written in. Epoch 0 is    *)
(* the empty Navigation.                                                   *)
(***************************************************************************)
EXTENDS Integers, Sequences, FiniteSets

CONSTANTS
    Readers,       \* threads that call waitAndGetFreshNavigation()
    MaxEpoch,      \* bound: epochs the receiver computes
    MaxSessions,   \* bound: times the gpsd bridge is started
    Second,        \* UTC second of an epoch
    TimeFrom,      \* first epoch whose UTC time is valid
    DateFrom       \* first epoch whose date is valid

Epochs == 0..MaxEpoch

ASSUME BoundsAssumption == MaxEpoch \in Nat /\ MaxSessions \in Nat
ASSUME ClockAssumption ==
    /\ Second \in [Epochs -> Nat]
    /\ \A d, e \in Epochs : d <= e => Second[d] <= Second[e]
    /\ TimeFrom \in Nat \ {0} /\ DateFrom \in Nat \ {0}

VARIABLES
    burst,        \* the epoch being received and the fields still to come
    store,        \* navigationStore_.navigation_: epoch of each field
    epochSeen,    \* navigationEpochSeen_
    ready,        \* navigationNotifier_.ready
    generation,   \* navigationNotifier_.generation
    announced,    \* history: epoch of the PVT behind the last notification
    pc,           \* per reader: "idle", "wait" or "woken"
    mark,         \* per reader: history, `announced` when it called or was woken
    stop,         \* stopSource_ requested
    fwd,          \* the forwarding thread: "off", "top", "wait", "read", "exited"
    fwdStop,      \* stop requested on forwardingThread_
    sessions,     \* times the bridge was started
    attentive,    \* somebody reads this session's tty, and keeps reading
    cursor,       \* navigationCursor
    lastEpoch,    \* lastEpoch_
    emitted       \* epochs whose sentences were written to this tty

hatVars    == <<burst, store, epochSeen>>
notifyVars == <<ready, generation, announced>>
readerVars == <<pc, mark>>
fwdVars    == <<fwd, fwdStop, sessions, attentive, cursor, lastEpoch, emitted>>
vars == <<hatVars, notifyVars, readerVars, stop, fwdVars>>

-----------------------------------------------------------------------------
(* The ublox thread *)

Fields == {"dop", "pvt", "sat"}

(* The receiver bursts the messages of an epoch in the order of their ids. *)
Follow(field) ==
    CASE field = "dop" -> [epoch |-> burst.epoch, field |-> "pvt"]
      [] field = "pvt" -> [epoch |-> burst.epoch, field |-> "sat"]
      [] field = "sat" -> [epoch |-> burst.epoch + 1, field |-> "dop"]

AnyMarks(field) == TRUE       \* mutant: any NAV message is a new epoch
Marks(field) == field = "pvt"

(* A message is parsed: its callback stores it, a NAV-PVT marks the epoch. *)
StoreMessage ==
    /\ burst.epoch <= MaxEpoch
    /\ store' = [store EXCEPT ![burst.field] = burst.epoch]
    /\ epochSeen' = (epochSeen \/ Marks(burst.field))
    /\ burst' = Follow(burst.field)
    /\ UNCHANGED <<notifyVars, readerVars, stop, fwdVars>>

(* Notifier::notify *)
Notify ==
    /\ ready' = TRUE
    /\ generation' = generation + 1

(* The end of a pass that carried a NAV-PVT; the pass may end anywhere in   *)
(* the burst and may already hold messages of the next one.                 *)
EndPass ==
    /\ epochSeen
    /\ epochSeen' = FALSE
    /\ Notify
    /\ announced' = store.pvt
    /\ UNCHANGED <<burst, store, readerVars, stop, fwdVars>>

-----------------------------------------------------------------------------
(* waitAndGetFreshNavigation: wait(stopSource_.get_token()), then a copy of *)
(* the store                                                                *)

CallFresh(r) ==
    /\ pc[r] = "idle"
    /\ ~stop
    /\ pc' = [pc EXCEPT ![r] = "wait"]
    /\ mark' = [mark EXCEPT ![r] = announced]
    /\ UNCHANGED <<hatVars, notifyVars, stop, fwdVars>>

Woken(r) ==
    /\ pc[r] = "wait"
    /\ ready
    /\ ready' = FALSE
    /\ pc' = [pc EXCEPT ![r] = "woken"]
    /\ mark' = [mark EXCEPT ![r] = announced]
    /\ UNCHANGED <<hatVars, generation, announced, stop, fwdVars>>

(* NavigationStore::navigation: the copy that the caller is given. *)
Snapshot == store

ReturnFresh(r) ==
    /\ pc[r] = "woken"
    /\ pc' = [pc EXCEPT ![r] = "idle"]
    /\ mark' = [mark EXCEPT ![r] = 0]
    /\ UNCHANGED <<hatVars, notifyVars, stop, fwdVars>>

(* mutant: wait() without a stop token. *)
KeepWaiting(r) == FALSE

(* The stop releases a waiting caller with an empty Navigation. *)
ReturnStopped(r) ==
    /\ pc[r] = "wait"
    /\ stop
    /\ ~ready
    /\ pc' = [pc EXCEPT ![r] = "idle"]
    /\ mark' = [mark EXCEPT ![r] = 0]
    /\ UNCHANGED <<hatVars, notifyVars, stop, fwdVars>>

-----------------------------------------------------------------------------
(* The gpsd bridge *)

(* What forwardingThread compares: UTC time and date at 1 s resolution; the *)
(* time is "" while it is not valid, and so is the date.                    *)
NoTime == [second |-> 0, dated |-> FALSE, timed |-> FALSE]
EpochKey(e) ==
    IF e < TimeFrom THEN NoTime
    ELSE [second |-> Second[e], dated |-> e >= DateFrom, timed |-> TRUE]

(* mutant: it waits for what is announced after it started. *)
FirstCursorNow == generation
FirstCursor == 0      \* navigationCursor starts behind every notification

(* startForwardForGpsd: a stopped forwarder is joined and replaced by a new *)
(* one with a new tty.                                                      *)
StartForward ==
    /\ sessions < MaxSessions
    /\ ~stop
    /\ fwd \in {"off", "exited"}
    /\ fwd' = "top"
    /\ fwdStop' = FALSE
    /\ sessions' = sessions + 1
    /\ attentive' \in BOOLEAN
    /\ cursor' = FirstCursor
    /\ lastEpoch' = NoTime
    /\ emitted' = <<>>
    /\ UNCHANGED <<hatVars, notifyVars, readerVars, stop>>

(* stopForwardForGpsd, and the destructor of the HAT *)
StopForward ==
    /\ fwd \notin {"off", "exited"}
    /\ ~fwdStop
    /\ fwdStop' = TRUE
    /\ UNCHANGED <<hatVars, notifyVars, readerVars, stop, fwd, sessions, attentive, cursor,
                   lastEpoch, emitted>>

(* joinForwardForGpsd *)
JoinForward ==
    /\ fwd = "exited"
    /\ fwd' = "off"
    /\ UNCHANGED <<hatVars, notifyVars, readerVars, stop, fwdStop, sessions, attentive, cursor,
                   lastEpoch, emitted>>

ForwardTop ==
    /\ fwd = "top"
    /\ fwd' = IF fwdStop THEN "exited" ELSE "wait"
    /\ UNCHANGED <<hatVars, notifyVars, readerVars, stop, fwdStop, sessions, attentive, cursor,
                   lastEpoch, emitted>>

(* mutant: the forwarder waits like a reader and consumes `ready`. *)
StealNotification ==
    /\ fwd = "wait"
    /\ ready
    /\ ready' = FALSE
    /\ fwd' = "read"
    /\ UNCHANGED <<hatVars, generation, announced, readerVars, stop, fwdStop, sessions, attentive,
                   cursor, lastEpoch, emitted>>

(* waitForNewGeneration *)
ForwardWoken ==
    /\ fwd = "wait"
    /\ generation # cursor
    /\ cursor' = generation
    /\ fwd' = "read"
    /\ UNCHANGED <<hatVars, notifyVars, readerVars, stop, fwdStop, sessions, attentive, lastEpoch,
                   emitted>>

ForwardStopped ==
    /\ fwd = "wait"
    /\ generation = cursor
    /\ fwdStop
    /\ fwd' = "exited"
    /\ UNCHANGED <<hatVars, notifyVars, readerVars, stop, fwdStop, sessions, attentive, cursor,
                   lastEpoch, emitted>>

(* mutant: every wakeup is forwarded. *)
NeverRepeats(key) == FALSE
Repeats(key) == key.timed /\ key = lastEpoch

(* The snapshot repeats the second of the last sentence set: skip it. *)
ForwardSkip ==
    /\ fwd = "read"
    /\ Repeats(EpochKey(Snapshot.pvt))
    /\ fwd' = "top"
    /\ UNCHANGED <<hatVars, notifyVars, readerVars, stop, fwdStop, sessions, attentive, cursor,
                   lastEpoch, emitted>>

(* Write one sentence set. Once nobody has read the tty for a while, the    *)
(* non-blocking write is short or fails with EAGAIN, and the set is lost.   *)
ForwardWrite ==
    /\ fwd = "read"
    /\ ~Repeats(EpochKey(Snapshot.pvt))
    /\ lastEpoch' = IF EpochKey(Snapshot.pvt).timed THEN EpochKey(Snapshot.pvt) ELSE lastEpoch
    /\ \/ emitted' = Append(emitted, Snapshot.pvt)
       \/ ~attentive /\ UNCHANGED emitted
    /\ fwd' = "top"
    /\ UNCHANGED <<hatVars, notifyVars, readerVars, stop, fwdStop, sessions, attentive, cursor>>

-----------------------------------------------------------------------------
(* ~GnssHat: release the readers, stop the bridge. *)
Destroy ==
    /\ ~stop
    /\ stop' = TRUE
    /\ fwdStop' = TRUE
    /\ UNCHANGED <<hatVars, notifyVars, readerVars, fwd, sessions, attentive, cursor, lastEpoch, emitted>>

Init ==
    /\ burst = [epoch |-> 1, field |-> "dop"]
    /\ store = [f \in Fields |-> 0]
    /\ epochSeen = FALSE
    /\ ready = FALSE
    /\ generation = 0
    /\ announced = 0
    /\ pc = [r \in Readers |-> "idle"]
    /\ mark = [r \in Readers |-> 0]
    /\ stop = FALSE
    /\ fwd = "off"
    /\ fwdStop = FALSE
    /\ sessions = 0
    /\ attentive = FALSE
    /\ cursor = 0
    /\ lastEpoch = NoTime
    /\ emitted = <<>>

ReaderStep(r) == Woken(r) \/ ReturnFresh(r) \/ ReturnStopped(r)
ForwardStep == ForwardTop \/ ForwardWoken \/ ForwardStopped \/ ForwardSkip \/ ForwardWrite

Next ==
    \/ StoreMessage \/ EndPass
    \/ \E r \in Readers : CallFresh(r) \/ ReaderStep(r)
    \/ StartForward \/ StopForward \/ JoinForward \/ ForwardStep
    \/ Destroy

(* A woken or wakeable thread is scheduled, and a pass that parsed a        *)
(* NAV-PVT ends. The receiver need not send and nobody has to call.         *)
Fairness ==
    /\ WF_vars(EndPass)
    /\ \A r \in Readers : WF_vars(ReaderStep(r))
    /\ WF_vars(ForwardStep)

Spec == Init /\ [][Next]_vars
FairSpec == Spec /\ Fairness

-----------------------------------------------------------------------------
(* Type invariant *)

NavigationType == [Fields -> Epochs]
KeyType == [second : Nat, dated : BOOLEAN, timed : BOOLEAN]

TypeOK ==
    /\ burst \in [epoch : 1..MaxEpoch + 1, field : Fields]
    /\ store \in NavigationType
    /\ epochSeen \in BOOLEAN
    /\ ready \in BOOLEAN
    /\ generation \in Nat
    /\ announced \in Epochs
    /\ pc \in [Readers -> {"idle", "wait", "woken"}]
    /\ mark \in [Readers -> Epochs]
    /\ stop \in BOOLEAN
    /\ fwd \in {"off", "top", "wait", "read", "exited"}
    /\ fwdStop \in BOOLEAN
    /\ sessions \in 0..MaxSessions
    /\ attentive \in BOOLEAN
    /\ cursor \in 0..generation
    /\ lastEpoch \in KeyType
    /\ emitted \in Seq(Epochs)

Returns(r) == pc[r] = "woken" /\ pc'[r] = "idle"

(* A caller woken by an epoch returns that epoch or a later one: its PVT     *)
(* and its DOP, while the satellites, sent after the PVT, may be one epoch  *)
(* behind (the wait and the copy of the store are two critical sections).   *)
FreshReflectsWakeup ==
    [][\A r \in Readers : Returns(r) =>
          /\ Snapshot["pvt"] >= mark[r] /\ mark[r] > 0
          /\ Snapshot["dop"] >= mark[r]
          /\ Snapshot["sat"] >= mark[r] - 1]_vars

(* A notification that finds callers waiting wakes one of them: nobody else *)
(* (the side subscriber in particular) takes it.                            *)
Waiting(r) == pc[r] = "wait"
NotificationTaken == (ready /\ \E r \in Readers : Waiting(r)) ~> \E r \in Readers : pc[r] = "woken"

(* README.md lets several threads call waitAndGetFreshNavigation()          *)
(* concurrently: each of them that waits when an epoch is announced should  *)
(* be given it. The notifier wakes all of them, but the first one resets    *)
(* `ready` before the others look.                                          *)
EveryCallerServed == \A r \in Readers : (Waiting(r) /\ announced > mark[r]) ~> ~Waiting(r)

(* The bridge implements the feed that EpochFeed specifies.                 *)
Feed == INSTANCE EpochFeed WITH published <- store["pvt"], fed <- emitted
ImplementsFeed == Feed!Spec

(* The comment in forwardingThread: "NMEA time has 1 s resolution, so a     *)
(* repeated epoch would confuse gpsd." No second is told twice in a session.*)
SecondToldOnce ==
    \A i, j \in 1..Len(emitted) :
        (i < j /\ emitted[i] >= TimeFrom) => Second[emitted[i]] # Second[emitted[j]]

(* The bridge follows: as long as somebody reads the tty, the second of an  *)
(* announced epoch, or a later one, is sooner or later written to it,       *)
(* unless the bridge is stopped first.                                      *)
Forwarding == fwd \notin {"off", "exited"}
Told(k) == \E i \in 1..Len(emitted) : emitted[i] >= TimeFrom /\ Second[emitted[i]] >= Second[k]
GpsdFollows ==
    \A k \in TimeFrom..MaxEpoch :
        (announced = k /\ Forwarding /\ attentive) ~> (~Forwarding \/ Told(k))

(* Destroying the HAT releases every blocked caller and ends the bridge.    *)
DestroyReleases == stop ~> ((\A r \in Readers : pc[r] = "idle") /\ ~Forwarding)
=============================================================================
