---------------------------- MODULE HatLifecycle ----------------------------
(***************************************************************************)
(* The life of a HAT object (GnssHat.cpp): which objects exist, who points *)
(* to them, and which threads of the library run on them, while one        *)
(* application thread creates the HAT, starts it (again after a failure),  *)
(* uses timepulse, time mark trigger and gpsd bridge, and destroys it in   *)
(* any state between two calls.                                            *)
(*                                                                         *)
(* A call of the application is a sequence of steps, `todo`. An object is  *)
(* <<member, generation>>: assigning a unique_ptr constructs the new       *)
(* object while the old one still exists, and deletes the old one after.   *)
(* A thread is named by the object that owns its jthread; the HAT itself   *)
(* owns the ublox thread. What the threads do is in the other modules;     *)
(* here they only use objects until they were asked to stop and end.       *)
(*                                                                         *)
(* The application does not start a HAT that runs, and joins the bridge    *)
(* after it has stopped it.                                                *)
(***************************************************************************)
EXTENDS Naturals, Sequences

CONSTANTS
    Products,          \* the products looked at
    Generations    \* bound: objects of one member at a time

ASSUME ProductsAssumption == Products \subseteq {"L1", "TIME", "RTK"}
ASSUME GenerationsAssumption == Generations \subseteq Nat \ {0} /\ 1 \in Generations

VARIABLES
    product,        \* the product; never changes
    state,      \* "none", "exists" or "destroyed"
    live,       \* the objects that exist
    ptr,        \* member -> the generation it points to, 0 for nullptr
    threads,    \* the threads that run
    asked,      \* ... of which those that were asked to stop
    todo,       \* the steps that are left of the application's call
    started,    \* start() has returned true
    enabled     \* the devices enabled: timepulseEnabled_, timeMarkTriggerEnabled_

lifecycleVars == <<product, state, live, ptr, threads, asked, todo, started, enabled>>

-----------------------------------------------------------------------------
(* The members, in the order of their declaration *)

(* commDriver_ and navigationStore_, and the notifiers, are made with the   *)
(* HAT; rtcm3Store_ is a member of the RTK HAT.                             *)
Fixed == {"commDriver", "store", "notifiers"} \cup IF product = "RTK" THEN {"rtcm3Store"} ELSE {}
Made == {"registry", "parser", "run", "startup", "ublox", "txReady", "timepulse", "forwarder", "rtk",
         "timeMarkTrigger"}
Members == {"commDriver", "store", "notifiers", "rtcm3Store"} \cup Made

Ublox == <<"hat", 1>>

Object(c) == <<c, ptr[c]>>

(* The objects a thread uses as long as it runs. *)
Uses(th) ==
    CASE th = Ublox ->
            {Object(c) : c \in {"ublox", "run", "parser", "registry", "commDriver", "store", "notifiers"}}
      [] th[1] = "run" -> {th, <<"rtcm3Store", 1>>}
      [] th[1] = "forwarder" -> {th, <<"store", 1>>, <<"notifiers", 1>>}
      [] OTHER -> {th, <<"notifiers", 1>>}

(* What a call consists of. "make" is an assignment of make_unique, "reset" *)
(* of nullptr; "thread" starts the thread of a member.                      *)
Start ==
    (IF product = "RTK" THEN <<<<"make", "rtk">>>> ELSE <<>>) \o
    <<<<"validate", "config">>, <<"make", "registry">>, <<"make", "parser">>, <<"make", "startup">>,
      <<"make", "run">>, <<"make", "ublox">>, <<"startup", "ublox">>>> \o
    (IF product = "TIME" THEN <<>> ELSE <<<<"make", "txReady">>, <<"thread", "txReady">>>>) \o
    <<<<"thread", "hat">>>>

StartForward == <<<<"make", "forwarder">>, <<"createVirtualTty", "forwarder">>, <<"thread", "forwarder">>>>

StopUbloxThread == <<<<"ask", "hat">>, <<"join", "hat">>>>

(* mutant: the UART thread of the RTK HAT is left to the base class. *)
OwnPartHasty ==
    CASE product = "L1" -> <<>>
      [] product = "TIME" -> <<<<"reset", "timeMarkTrigger">>>> \o StopUbloxThread \o <<<<"reset", "forwarder">>>>
      [] product = "RTK" -> StopUbloxThread \o <<<<"reset", "txReady">>, <<"reset", "rtk">>, <<"free", "rtcm3Store">>>>

(* The destructors of the products, then their members. *)
OwnPart ==
    CASE product = "L1" -> <<>>
      [] product = "TIME" -> <<<<"reset", "timeMarkTrigger">>>> \o StopUbloxThread \o <<<<"reset", "forwarder">>>>
      [] product = "RTK" -> StopUbloxThread \o
             <<<<"reset", "txReady">>, <<"reset", "run">>, <<"reset", "rtk">>, <<"free", "rtcm3Store">>>>

(* ~GnssHat, then its members from the last to the first. *)
BasePart ==
    StopUbloxThread \o
    <<<<"reset", "txReady">>, <<"reset", "timepulse">>, <<"reset", "forwarder">>,
      <<"join", "hat">>, <<"free", "notifiers">>,
      <<"reset", "forwarder">>, <<"reset", "timepulse">>, <<"reset", "txReady">>,
      <<"reset", "ublox">>, <<"reset", "startup">>, <<"reset", "run">>,
      <<"reset", "parser">>, <<"reset", "registry">>,
      <<"free", "store">>, <<"free", "commDriver">>, <<"gone", "hat">>>>

-----------------------------------------------------------------------------
(* The application *)

AtRest == state = "exists" /\ todo = <<>>
ForwarderRuns == <<"forwarder", ptr["forwarder"]>> \in threads \ asked

Create ==
    /\ state = "none"
    /\ state' = "exists"
    /\ live' = live \cup {<<c, 1>> : c \in Fixed}
    /\ ptr' = [c \in Members |-> IF c \in Fixed THEN 1 ELSE 0]
    /\ started' = FALSE /\ enabled' = {}
    /\ UNCHANGED <<product, threads, asked, todo>>

CallStart ==
    /\ AtRest /\ ~started
    /\ todo' = Start
    /\ UNCHANGED <<product, state, live, ptr, threads, asked, started, enabled>>

(* The timepulse input has a thread, the time mark trigger of the TIME HAT  *)
(* is an output and has none.                                               *)
Devices == {"timepulse"} \cup IF product = "TIME" THEN {"timeMarkTrigger"} ELSE {}

Enable(c) ==
    /\ AtRest /\ c \in Devices \ enabled
    /\ todo' = <<<<"make", c>>>> \o (IF c = "timepulse" THEN <<<<"thread", c>>>> ELSE <<>>)
    /\ enabled' = enabled \cup {c}
    /\ UNCHANGED <<product, state, live, ptr, threads, asked, started>>

(* mutant: only the flag is cleared. *)
DisableFlag(c) ==
    /\ AtRest /\ c \in enabled
    /\ enabled' = enabled \ {c}
    /\ UNCHANGED <<product, state, live, ptr, threads, asked, todo, started>>

Disable(c) ==
    /\ AtRest /\ c \in enabled
    /\ todo' = <<<<"reset", c>>>>
    /\ enabled' = enabled \ {c}
    /\ UNCHANGED <<product, state, live, ptr, threads, asked, started>>

StartForwardForGpsd ==
    /\ AtRest /\ ~ForwarderRuns
    /\ todo' = StartForward
    /\ UNCHANGED <<product, state, live, ptr, threads, asked, started, enabled>>

StopForwardForGpsd ==
    /\ AtRest /\ ForwarderRuns
    /\ asked' = asked \cup {Object("forwarder")}
    /\ UNCHANGED <<product, state, live, ptr, threads, todo, started, enabled>>

JoinForwardForGpsd ==
    /\ AtRest /\ ptr["forwarder"] # 0 /\ ~ForwarderRuns
    /\ todo' = <<<<"join", "forwarder">>, <<"reset", "forwarder">>>>
    /\ UNCHANGED <<product, state, live, ptr, threads, asked, started, enabled>>

Destroy ==
    /\ AtRest
    /\ todo' = OwnPart \o BasePart
    /\ UNCHANGED <<product, state, live, ptr, threads, asked, started, enabled>>

-----------------------------------------------------------------------------
(* The steps of a call *)

Next1 == Head(todo)
At(kind) == todo # <<>> /\ Next1[1] = kind
Member == Next1[2]
Owner(c) == IF c = "hat" THEN Ublox ELSE Object(c)

(* The constructor of an F9PRun starts the UART thread of a base or a       *)
(* rover; then the old object, if any, is deleted.                          *)
Make ==
    /\ At("make")
    /\ \E g \in Generations :
          /\ <<Member, g>> \notin live /\ \A k \in Generations : k < g => <<Member, k>> \in live
          /\ live' = live \cup {<<Member, g>>}
          /\ ptr' = [ptr EXCEPT ![Member] = g]
          /\ \/ UNCHANGED threads
             \/ product = "RTK" /\ Member = "run" /\ threads' = threads \cup {<<"run", g>>}
    /\ todo' = (IF ptr[Member] = 0 THEN <<>> ELSE <<<<"delete", Object(Member)>>>>) \o Tail(todo)
    /\ UNCHANGED <<product, state, asked, started, enabled>>

Reset ==
    /\ At("reset")
    /\ ptr' = [ptr EXCEPT ![Member] = 0]
    /\ todo' = (IF ptr[Member] = 0 THEN <<>> ELSE <<<<"delete", Object(Member)>>>>) \o Tail(todo)
    /\ UNCHANGED <<product, state, live, threads, asked, started, enabled>>

(* A destructor asks its thread to stop, joins it, and the object is gone. *)
Delete ==
    /\ At("delete")
    /\ IF Member \in threads
       THEN /\ Member \notin asked /\ asked' = asked \cup {Member}
            /\ UNCHANGED <<live, todo>>
       ELSE /\ live' = live \ {Member}
            /\ todo' = Tail(todo)
            /\ UNCHANGED asked
    /\ UNCHANGED <<product, state, ptr, threads, started, enabled>>

Free ==
    /\ At("free")
    /\ live' = live \ {<<Member, 1>>}
    /\ todo' = Tail(todo)
    /\ UNCHANGED <<product, state, ptr, threads, asked, started, enabled>>

StartThread ==
    /\ At("thread")
    /\ threads' = threads \cup {Owner(Member)}
    /\ started' = (started \/ Member = "hat")
    /\ todo' = Tail(todo)
    /\ UNCHANGED <<product, state, live, ptr, asked, enabled>>

(* mutant: the thread is only waited for. *)
AskNobody ==
    /\ At("ask")
    /\ todo' = Tail(todo)
    /\ UNCHANGED <<product, state, live, ptr, threads, asked, started, enabled>>

Ask ==
    /\ At("ask")
    /\ asked' = asked \cup ({Owner(Member)} \cap threads)
    /\ todo' = Tail(todo)
    /\ UNCHANGED <<product, state, live, ptr, threads, started, enabled>>

Join ==
    /\ At("join") /\ Owner(Member) \notin threads
    /\ todo' = Tail(todo)
    /\ UNCHANGED <<product, state, live, ptr, threads, asked, started, enabled>>

(* The configuration is refused, or the receiver is not started: start()    *)
(* returns false and what it has made stays.                                *)
ValidateOrStartup ==
    /\ At("validate") \/ At("startup")
    /\ todo' \in {Tail(todo), <<>>}
    /\ UNCHANGED <<product, state, live, ptr, threads, asked, started, enabled>>

CreateVirtualTty ==
    /\ At("createVirtualTty")
    /\ todo' \in {Tail(todo), <<<<"reset", "forwarder">>>>}
    /\ UNCHANGED <<product, state, live, ptr, threads, asked, started, enabled>>

Gone ==
    /\ At("gone")
    /\ state' = "destroyed"
    /\ todo' = <<>>
    /\ UNCHANGED <<product, live, ptr, threads, asked, started, enabled>>

(* A thread looks at its stop token once per round; none of its waits is    *)
(* longer than a timeout or outlasts the token.                             *)
ThreadEnds(th) ==
    /\ th \in asked
    /\ threads' = threads \ {th}
    /\ asked' = asked \ {th}
    /\ UNCHANGED <<product, state, live, ptr, todo, started, enabled>>

-----------------------------------------------------------------------------

LifecycleInit ==
    /\ product \in Products /\ state = "none" /\ live = {} /\ ptr = [c \in Members |-> 0]
    /\ threads = {} /\ asked = {} /\ todo = <<>>
    /\ started = FALSE /\ enabled = {}

CallStep ==
    \/ Make \/ Reset \/ Delete \/ Free \/ StartThread \/ Ask \/ Join
    \/ ValidateOrStartup \/ CreateVirtualTty \/ Gone

LifecycleNext ==
    \/ Create \/ CallStart \/ \E c \in Members : Enable(c) \/ Disable(c)
    \/ StartForwardForGpsd \/ StopForwardForGpsd \/ JoinForwardForGpsd \/ Destroy
    \/ CallStep
    \/ \E th \in asked : ThreadEnds(th)

LifecycleSpec == LifecycleInit /\ [][LifecycleNext]_lifecycleVars

(* The calls proceed and threads that were asked to stop end; nobody has to *)
(* call anything.                                                           *)
LifecycleFairness == WF_lifecycleVars(CallStep) /\ WF_lifecycleVars(\E th \in asked : ThreadEnds(th))

FairLifecycleSpec == LifecycleSpec /\ LifecycleFairness

-----------------------------------------------------------------------------
(* Properties *)

LifecycleTypeOK ==
    /\ product \in Products /\ state \in {"none", "exists", "destroyed"}
    /\ live \subseteq Members \X Generations
    /\ ptr \in [Members -> Generations \cup {0}]
    /\ threads \subseteq (Members \cup {"hat"}) \X Generations /\ asked \subseteq threads
    /\ started \in BOOLEAN /\ enabled \subseteq Devices

(* No thread of the library runs on an object that is gone: the UART thread *)
(* of the RTK HAT ends before rtcm3Store_ goes, the interrupt threads and   *)
(* the bridge before the notifiers, and an object of an earlier start()     *)
(* goes only after its own thread.                                          *)
NothingGoneIsUsed == \A th \in threads : Uses(th) \subseteq live

(* A GPIO line belongs to one object at a time (the constructor of a second *)
(* interrupt line would terminate the process), whatever is enabled,        *)
(* disabled and restarted in which order.                                   *)
LinesRequestedOnce ==
    \A c \in {"txReady", "timepulse", "timeMarkTrigger"} : \A g, k \in Generations :
        {<<c, g>>, <<c, k>>} \subseteq live => g = k

(* Every call ends, the destructor included. *)
CallsEnd == []<>(todo = <<>>)
=============================================================================
