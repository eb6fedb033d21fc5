------------------------------ MODULE EpochFeed ------------------------------
(***************************************************************************)
(* What the gpsd bridge promises, apart from threads and notifiers: a      *)
(* receiver publishes navigation epochs, and a feed session hands out a    *)
(* subsequence of them in which time never runs backwards and a second of  *)
(* valid time is told again only when its date has become valid since (the *)
(* deduplication in NmeaForwarder::forwardingThread).                      *)
(***************************************************************************)
EXTENDS Integers, Sequences

CONSTANTS Second, TimeFrom, DateFrom

VARIABLES published,   \* the newest epoch
          fed          \* the epochs handed out in this session

Later(d, e) ==
    \/ Second[d] < Second[e]
    \/ Second[d] = Second[e] /\ d < DateFrom /\ DateFrom <= e

Fresh(e) ==
    e >= TimeFrom => \A i \in 1..Len(fed) : fed[i] >= TimeFrom => Later(fed[i], e)

Publish == published' = published + 1 /\ UNCHANGED fed
Feed    == Fresh(published) /\ fed' = Append(fed, published) /\ UNCHANGED published
Restart == fed' = <<>> /\ UNCHANGED published

Init == published = 0 /\ fed = <<>>
Next == Publish \/ Feed \/ Restart
Spec == Init /\ [][Next]_<<published, fed>>
=============================================================================
