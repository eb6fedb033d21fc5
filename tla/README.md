# TLA+ models of the GNSS HAT library

This directory holds a formal model of the library in this repository, its C and
Python bindings, its base station tool and the public caster: TLA+ modules, the TLC
configurations that model-check them, and theorems checked by TLAPS. Paths below
are relative to the repository root; `ublox/...`, `ntrip/...` and `common/...` are
under `src/`.

`PROJECT.json` lists the components, the runs, the mutants that show that each
property can fail, the source lines behind every definition (`map`), the
hazards and the theorems.

    tlc -workers 2 -config Startup.cfg MCStartup      # a run
    tlapm StartupProofs.tla                           # a proof

## 1. The system

The library drives a u-blox GNSS receiver on a Raspberry Pi HAT. One program
uses one HAT object (L1 GNSS HAT: NEO-M9N, L1/L5 GNSS TIME HAT: NEO-F10T, L1/L5
GNSS RTK HAT: NEO-F9P); a HAT owns threads, and the application calls it from threads of
its own, in C++, C or Python.

| component | code | state it keeps | operations | whom it talks to |
|---|---|---|---|---|
| SPI receive path | `ublox/Run.cpp` (M9NRun), `ublox/UbxParser.cpp`, `ublox/TxReady.hpp`, `common/Notifier.hpp`, `common/GpioInterruptLine.cpp` | 8 KiB receive buffer, `moreDataPending_`, `frames_`, `txReadyNotifier_`, queue of edge events in the kernel | wait, drain in 1 KiB batches, frame, carry the rest over, notify | the module's output buffer, the TX-READY line, the navigation notifier |
| UART receive path | `ublox/Run.cpp` (F10TRun), `ublox/UartDriver.cpp` | the same buffer, epoll set | poll with a timeout, parse when enough or when quiet, notify | as the SPI path |
| Navigation delivery | `ublox/UbxCallbacks.cpp`, `ublox/NavigationStore.cpp`, `GnssHat.cpp` | `navigation_` under a timed lock, `navigationEpochSeen_`, `navigationNotifier_` (`ready`, `generation`), `stopSource_` | store a message, announce an epoch, `waitAndGetFreshNavigation`, destroy | parser above, application below |
| gpsd bridge | `ublox/NmeaForwarder.cpp` | the tty, `navigationCursor`, `lastEpoch_` | start, stop, join, forward | follows the navigation notifier as a side subscriber |
| Startup dialogue | `ublox/Startup.cpp`, `UbloxConfigRegistry.cpp` | the registry of expected and stored values, acknowledgement flags, `shouldSaveConfigToFlash` | poll, write, verify, save, probe ports, start the GNSS engine | the receiver through a driver |
| Configuration checks | `ublox/GnssConfig.cpp`, `BaseConfig.cpp` | none | refuse or accept | application, startup |
| UBX messages | `ublox/ubxmsg/`, `UbxFactory.cpp` | one object per kind of message | deserialize, serialize | parser, store |
| RTCM3 corrections | `ublox/Run.cpp` (F9PRun), `ublox/Rtcm3Parser.cpp`, `Rtcm3Store.cpp`, `RTK.cpp` | frames by type, `incomingFrames_`, 2 KiB UART buffer | store, collect, apply, send | base: receiver to application; rover: application to receiver |
| HAT lifecycle | `GnssHat.cpp`, `TimeMarkTrigger.hpp`, `Timepulse.hpp` | owned threads, objects, GPIO lines | `start`, resets, time mark, timepulse, destructor | all of the above |
| NTRIP caster | `ntrip/NtripCaster.cpp` | `clients_`, `sources_`, handler threads | accept, handshake, feed, relay, stop | rovers and push sources over TCP/TLS |
| NTRIP server | `ntrip/NtripServer.cpp` | socket, `connected_`, monitor thread | connect, feed, reconnect, disconnect | a caster |
| NTRIP client | `ntrip/NtripClient.cpp` | socket, parse buffer, frames, GGA position | connect, receive, GGA upload, reconnect, sourcetable | a caster |
| NTRIP statistics | `ntrip/NtripStats.hpp` | counters | record, read | the three above |
| C API | `GnssHat_C.cpp` | none of its own | convert and forward | C programs, the Python binding |
| Python binding | `python/src/jp_gnss_module.c` | wrapped pointer, log callback | check, convert, release and take the interpreter lock | Python threads, native threads that log |
| Base station tool | `tools/gnsshat-rtk-base.cpp`, `RtkBaseConfig.hpp` | its configuration | TOML file and options to a `GnssConfig` | the library |
| Public caster | `ntrip-caster-pub/src/` | mountpoint, active source, rovers, analyzer | claim, relay, register, stop | sources and rovers |

### Behaviours that are hard, and what must hold

* **Receive paths.** The level of TX-READY, the edges the kernel queues for
  it, the `ready` flag and what is left in the module and in the buffer are
  four views of one thing, kept by two threads. It must never sleep on a
  backlog, whatever the order of edge, drain and wait; a buffer limit or a poll
  that times out must not lose, repeat or reorder a frame; an epoch must be
  announced once.
* **Navigation delivery.** The parser writes field by field; the notification,
  the wakeup and the copy of the store are separate critical sections. A caller
  must get at least the epoch that woke it; the side subscriber must not take
  its notification; a destructor must release everybody.
* **gpsd bridge.** It is woken more often than once a second, drops sentence
  sets when nobody reads the tty, and is stopped and restarted under the
  running HAT. A second must never be told twice, and time never runs backwards.
* **Startup.** Requests and replies are lost, damaged, late or left over from an
  earlier run; replies carry no request number; a write can change the port it
  travels on. `start()` must not return true over a misconfigured receiver and
  must always return.
* **Configuration.** What the application means goes through up to four
  representations (dictionary, C structure, C++ structure, registers), and the
  receiver keeps the registers of earlier starts. What is asked must be in force,
  and what makes no sense refused, in every language alike.
* **Messages.** Objects and stores are reused; frames have a variable number of
  blocks. What is shown must be what was told last.
* **RTCM3.** Frames of an epoch are replaced one by one while the application
  collects a set; a rover's sets are replaced while one is sent. Sets must not be
  mixed or cut.
* **Lifecycle.** Threads of a failed start outlive the call, every HAT's
  destructor has an order of its own, a GPIO line has one owner.
* **Lists across languages.** Each element is a separate allocation that can fail.
* **NTRIP.** Sending under a lock, descriptors that are reused, reconnection racing
  a disconnect, a connection that ends inside a frame, joins of threads that nobody
  wakes.
* **Python.** Native threads log through the interpreter: whoever joins them, or
  waits for a mutex they hold, must not hold its lock.

## 2. Modules

| module | what it is |
|---|---|
| `SpiReceiveLoop` | receiver output buffer, TX-READY line and kernel queue, interrupt thread, ublox thread with drain loop and parser |
| `UartReceiveLoop` | the TIME HAT's polling loop with the same parser; both HATs in one specification |
| `NavigationDelivery` | store, notifier, callers of `waitAndGetFreshNavigation`, gpsd bridge, destructor |
| `EpochFeed` | abstract specification: what the bridge promises to gpsd |
| `StartupPlans` | the startup strategies step by step |
| `Startup` | one start over a bad link: the strategies and the receiver they talk to |
| `GnssConfiguration` | a configuration from the dictionary to the registers and back: checks and conversions, as operators |
| `NavigationData` | a message from the frame to the Python object and the NMEA sentence, as operators |
| `RtkBaseTool` | file and options of `gnsshat-rtk-base` to the library's configuration, as operators |
| `Handover` | lists that cross the languages, with allocations that fail, as operators |
| `NtripStatistics` | what is counted and how it reaches Python, as operators |
| `HatData` | composes the five above: a HAT's registers, flash and store over starts, failures, resets and messages |
| `Rtcm3Corrections` | base and rover of the RTK HAT: UART thread, parser, store, application |
| `HatLifecycle` | objects, threads and GPIO lines of a HAT through the application's calls |
| `NtripCaster` | accept thread, handler threads, broadcasts under `clientsMutex_`, `stop()`; the peers around them |
| `NtripServer` | application thread, feeding thread and monitor over sockets |
| `NtripClient` | application thread and receive thread over connections that are cut |
| `PublicCaster` | the public caster's handlers, mountpoint and lists, each under its own mutex |
| `PythonBinding` | interpreter lock, `clientsMutex_`, native threads and the log callback |
| `MC...` | small instances for TLC |
| `...Proofs` | theorems and TLAPS proofs |

How they fit together: `UartReceiveLoop` extends `SpiReceiveLoop`, whose
parser and end of pass it uses. They end where `NavigationDelivery` begins:
`navGen` there and `generation` here are the same counter, advanced by the end of a
pass; `NavigationDelivery!EndPass` is enabled whenever a NAV-PVT was parsed, at
any point of the burst, which over-approximates where passes end. `Startup` and
`HatData` run the same plans (`StartupPlans`): `Startup` knows only whether a
value in the receiver is the wanted one and how a request gets lost; `HatData` knows
the values, and a group that does not get through is one step (`ConfigureFails`).
`HatLifecycle` takes the threads of the other modules as things that run until
they are asked to end. `PythonBinding` takes the native objects as threads that
log and locks that are held.

### SpiReceiveLoop and UartReceiveLoop

A byte is abstracted to a *cell*; a frame is a run of cells whose first two are
the sync characters, the second standing for the header with the claimed length.
A damaged header may claim more cells than the frame has. One SPI transaction
takes `Batch` cells, padded with idle cells; one read of the UART takes what has
arrived, or as much as there is room for.

| model | code |
|---|---|
| `out`, `High`, `LineFollows`, `edges`, `missed` | the module's output buffer and its TX-READY pin; edge events of the GPIO line (external) |
| `TxTop`, `TxEdge`, `TxTimeout`, `TxCheck` | `TxReadyInterrupt::interruptHandler`, `waitEvent` |
| `SkipWait`, `Woken`, `WaitStopped` | the start of `M9NRun::execute`, `Notifier::wait(stoken)` |
| `ReadBatch`, `BufferLimit` | the batch loop: `SpiDriver::getRxBuff` until idle or full |
| `PollTop`, `PollReads`, `PollTimesOut` | `F10TRun::execute`, `UartDriver::epoll` |
| `NextHeader`, `ExtractFrame`, `NoMoreFrames`, `UnfinishedFrame`, `NoMoreSlots` | `UbxParser::extractFrames`, checksum and callbacks |
| `EndPass`, `CarryOver`, `MoreDataPending`, `NewEpoch` | the end of `execute` |
| `RequestStop`, `LoopTop` | `stopUbloxThread`, the loop of `ubloxThread_` |

`missed`, `wire` and `lossy` are history variables: a rising edge that found no
room in the kernel's queue, all that was ever appended to the buffer, and
whether a pass has thrown away the beginning of a frame (a first sync cell alone
at the end of a pass, or more than `frames_` has room for).

### NavigationDelivery

An epoch is a number and a message carries the number of its epoch; the store
keeps, per field, the epoch it was last written in. The receiver bursts DOP,
PVT and SAT in the order of their message ids. `mark` and `announced` are
history variables. `ForwardWrite` may drop the set (EAGAIN on the tty).
`EpochFeed` publishes epochs and hands out a subsequence in which no second of
valid time is repeated; `Feed` in `NavigationDelivery` is the refinement mapping
(`published` is the stored PVT, `fed` what reached the tty).

### Startup

Configuration keys are model values, grouped as the strategies group them; `ram`
and `flash` are the keys whose value in the receiver is the wanted one. Reading
a key says whether it is right; writing it makes it right. The channel consists
of `reqs` and `replies`; every loss, damage, refusal and late answer is a fault
out of a budget (`hat.faults`). The port the receiver listens on follows from
`ram`; a reply after a port change may get lost without a fault, because it is
sent on a port the host does not read. Leftovers of an earlier run may be waiting
at the beginning: there is no request number, so they count as an answer.

`hat.plan` is the strategy's sequence of steps (`F9PPlan`, `F10TPlan`, ...);
`Attempt` to `VerifyConfig` are `StartupBase::configure`; `TryAgain` is
`try3times`; `NextRound`, `BackToExpected`, `NextProbe`, `NotFound` are
`reconfigureCommPort`.

### HatData and the operators it is built from

| model | code |
|---|---|
| `GnssConfiguration!ValidateConfig`, `PopulateConfig` | the checks of a dictionary and the copy into the C structure, `jp_gnss_module.c` |
| `ConvertGnssConfig`, `AddGeofence`, `InitConfig` | `GnssHat_C.cpp` |
| `ValidForHat` and the `Check...` operators | ``GnssConfig.cpp`, `BaseConfig.cpp` |
| `ExpectedValues` and the `...2Registers` operators | the constructors of the strategies, `Startup.cpp` |
| `Answer`, `ParseAsResponse`, `KeySize` | UBX-CFG-VALGET cut by `ConfigKeySizeMap` |
| `RtkBaseTool!LoadConfigFromToml`, `CommandLine`, `BuildGnssConfig` | `RtkBaseConfig.hpp`, `gnsshat-rtk-base.cpp` |
| `HatData!Start`, `Configure2Registers`, `SaveCurrentConfigToFlash`, `Started` | `GnssHat::start`, group by group |
| `ConfigureFails`, `SaveFails` | a group or a save that is given up: the write took effect or not |
| `Reset`, `Recreate` | resets, a power cut; a new HAT object (the receiver boots from flash) |
| `NavigationData!Deserialize`, `Store` | `ubxmsg/`, `UbxFactory`, `UbxCallbacks`, `NavigationStore` |
| `ConvertNavigation...`, `...InPython` | the copies into C structures and Python objects |
| `Nmea` and the `GenerateNmea...` operators | `NmeaForwarder.cpp` |
| `HatData!Receive`, `Hand` | a frame is parsed; a list is asked for or handed over |
| `Handover`: `RtkGet...Corrections`, `Receive2List`, `RtkApplyCorrections`, `...Feed`, `SourcetableInPython` | the lists, allocation by allocation |
| `NtripStatistics!Record`, `GetStatsInPython` | `statsRecord...`, `fillStats`, `get_stats` |

The application says what it means (`asked`), and `AsDict`, `AsStruct`, `AsFile`
and `BaseOptions` put it into the form of its language; the properties compare the
meaning with what arrived. Numbers are in units of the registers, and widths are
those of the C types: a request fits them (what Python does with 65537 Hz is among
the observations). A register whose value never depends on the configuration is
`Fixed`. A `Scope` names one history and what it may contain.

### Rtcm3Corrections

| model | code |
|---|---|
| `ReadUart`, `ExtractFrame`, `ExtractEnds` | `executeUartBase`, `Rtcm3Parser::extractFrames` |
| `UpdateFrame`, `WriteFrame`, `UpdateTimesOut` | `Rtcm3Store::updateFrame` under `JPGuard` with its 100 ms |
| `Ask`, `GetFrames`, `LookUp`, `Collected` | `getFullCorrections`, `getTinyCorrections`, `getRtcm3Frame` |
| `Apply`, `UpdateFrames`, `ReleaseApplied`, `AndNotify` | `applyCorrections`, `updateFramesAndNotify` |
| `Notified`, `WaitForFrames`, `Transmit` | `waitForFrames(stoken)`, `executeUartRover` |

A cell stands for a few bytes; `claims[k]` is the length a frame would have if cell
`k` were its preamble, so payload bytes that look like one are in the model.

### HatLifecycle

A call is a sequence of steps (`todo`), so a failing `start()` leaves what it has
made. An object is `<<member, generation>>`: assigning a `unique_ptr` constructs
the new object while the old one exists. A thread is named by the object that owns
its `jthread`; `Uses` says what it touches. `OwnPart` and `BasePart` are the
destructors of the products and of `GnssHat`, followed by the members in reverse.

### NtripCaster

| model | code |
|---|---|
| `Peers`, `Asks`, `Slow`; `Ask`, `HangUp`, `Stall`, `Resume` | what rovers and sources do to their connections (external) |
| `Fds`, `fd`, `shut`, `Close` | descriptor numbers; `::accept` hands out the lowest free one, `::shutdown`, `::close` |
| `AcceptTop`, `Accept`, `AcceptFails` | `acceptLoop`, with the joining of finished handlers |
| `RecvRequest`, `RecvNothing`, `CheckLimit`, `Enlist` | the handshake of `handleClient`, `registerClient` |
| `ServeTop`, `Discard`, `RecvEnds`, `RecvChunk`, `Leave` | the loops for a client and a source, and their ends |
| `BeginFeed`, `BeginRelay`, `SendWorks`, `SendFails`, `DropDead`, `EndCast` | `feed()` and the relay of a source, client by client, under `clientsMutex_` (`lock`) |
| `CallStop` to `ClearLists`, `StartAgain` | `stop()` statement by statement, `start()` after it |

The mutex is a variable only where a broadcast keeps it across sends that may
block; the other critical sections are single steps that need it free. The limit
is checked (`CheckLimit`) and the client registered (`Enlist`) under two
acquisitions, as in the code, so the list can exceed `MaxClients`. `log`, `got`
and `joined` are history variables. A peer stands for a slot: when its handler
has been joined, the same name connects again as somebody else.

### NtripServer, NtripClient

`connectInternal` is a group of steps used by both callers, `connect()` and the
background thread, with the caller's position as a parameter (`Resolve`, `Dial`,
`Handshake`; `Refused`, `Stopped`, `Accepted`, `Established`). In `NtripServer` a
descriptor is a number that is never reused, and `left` is what was open when the
last `disconnect()` returned. In `NtripClient` the bytes matter: `buf` is
`parseBuffer_`, and `extractFrames` is `SkipToPreamble`, `SkipPreamble`,
`TakeFrame`, `NeedMoreData`.

### PublicCaster

As `NtripCaster`, but a connection is a descriptor and what matters is the
mountpoint: `RecvRequest` asks whether it is free, `Claim` takes it, `Track`,
`ResetAnalyzer` and `Inform` enter the source in the other lists, each under its
own mutex, and `Untrack`, `Uninform`, `Release` undo it. `lastClaim` is a history
variable.

### PythonBinding

`Releases` and `Keeps` list, for each object, the methods with and without
`Py_BEGIN_ALLOW_THREADS`. A native thread logs in three steps (is there a
callback, call it, get the interpreter lock), a handler of the caster with
`clientsMutex_` held. `crashed` is the call of an empty `std::function`.

## 3. Runs

A run that passes shows its properties for its bounds; the one that ends in a
violation shows that a sentence of the repository does not describe the code.

| run | shows | bounds |
|---|---|---|
| `receive` | framing in passes equals framing the whole stream at once, unless a frame's beginning was thrown away; no sleep on a backlog; one wakeup per epoch; a backlog is served | both kinds of HAT; 3 frames of 3 shapes (a PVT, a longer message, a damaged header that claims a successor's cells); batches of 2 cells in a buffer of 6, parse threshold 3, 2 slots in `frames_`, room for 2 edges |
| `delivery` | a woken caller gets the epoch that woke it or a later one; it is woken; the destructor releases everybody; the bridge implements `EpochFeed` and keeps up | 1 caller beside the bridge, 3 epochs, time and date valid from the second, 2 sessions of the bridge |
| `startup` | success means configured, and saved where asked; success without faults; termination | the real plans of base and rover (1 and 0 faults), of the TIME HAT (1), and a short plan with every kind of step (2); 2 tries |
| `hat_data` | what was asked is in force and survives when saved; refused exactly when wrong, in every language; shown is what was told; lists arrive whole or not at all; counts are right | nine histories: configurations of the three products and of the base tool in pairs (2 starts, 1 fault), corrections, NTRIP lists and statistics with every failing allocation, messages in pairs across restarts |
| `rtcm3` | room for the next read; the cuts of reads do not matter; corrections handed out belong together; a rover's sets are sent whole, once, in order, and the newest is | 4 messages of bursts of 2, three shapes (a preamble in a payload, a damaged length beyond the field), buffer of 6 cells, 2 slots, 2 calls, sets of 0 and 2 frames |
| `hat_lifecycle` | no thread uses what is gone; one owner per GPIO line; every call ends | the three products, any sequence of calls |
| `caster` | only served descriptors are listed; nobody stays connected unfed; one order for all clients; a stopped caster is quiet | 2 slots, 2 descriptors, limit 1, 2 chunks, one slow reader |
| `ntrip_server` | no monitor after `disconnect()`; one descriptor at a time; the link comes back; `disconnect()` returns | 4 sockets, 4 failures |
| `ntrip_client` | no intact frame is lost, whatever precedes it; frames come out once and in order over reconnects | 3 frames of 3 shapes, 2 lost connections or failed attempts, cut anywhere |
| `public_caster` | lists hold open descriptors only; the mountpoint follows its last claimant; `stop()` returns | 2 peers that are sources or rovers, limit 1, one slow reader |
| `python_ntrip` | no freed callback is called; every method returns (see below) | 2 Python threads, 2 native threads, all four kinds of object; every method but `__exit__` and `client_count` |
| `python_exit` | *violation*: `__exit__` joins native threads while it keeps the interpreter lock, and neither ends | the same, with `__exit__` |

Why these bounds are enough to be interesting. *Receive*: three frames let a frame
straddle a pass while another is queued behind it, and 6 cells are three batches,
so the buffer limit falls into every position of a frame; two slots in `frames_`
overflow; a queue of two edges overflows; a threshold of 3 lets a read end below
it, on it and above it. *Delivery*: three epochs put one
between a wakeup and the copy and one behind it, and two epochs in a
second make the deduplication work. *Startup*: the plans are the real ones, and in them
every step is independent of its neighbours but for the port and the two halves of
the RTK plan. Two faults suffice to lose a reply and damage its repetition;
two tries are then the smallest number that can fail and succeed. *Data*: what
one start leaves is all that the next one sees, so two starts with a failure and
resets between them are a pair of any configurations; a second message of a kind
is enough to see the first through it. *RTCM3*: two messages of a burst let a
collector meet the boundary of two bursts; a buffer of 6 holds a carried frame
of any length but for the last cell. *Lifecycle*: an object has at most two
generations at a time, since assignment deletes the old one; the number of calls
is not bounded. *Caster*: one descriptor is reused as soon as it is closed, two
broadcasts compete for the lock, and two handlers pass a limit of one. More
clients repeat what one does, since a broadcast treats them one after the other.
*Server and client*: the first failure loses the link, the second the
reconnection, the others what comes after it. *Python*: one thread waits while the
other is in any method.

Deadlock is checked where the program runs for ever or ends in a named final
step (`Terminated`, `Ended`). The other models stop when their bounds are used
up or nobody calls any more (`CHECK_DEADLOCK FALSE`).

### Fairness

* `receive`: weak fairness of the threads; a `waitEvent` or `epoll` that times
  out is a step of the thread. Reading is strongly fair, since `epoll` reports what
  has arrived and a poll times out in between only while nothing new is there.
  Nothing is assumed of the receiver.
* `delivery`: weak fairness of a pass that parsed a NAV-PVT (it ends),
  of each caller that can run and of the bridge. A condition variable's waiter
  that was notified is such a caller; that it finds `ready` cleared by another
  one is in the model. Neither the receiver nor a caller has to do anything.
* `startup`: weak fairness of the host (deadlines pass) and of a receiver that
  has a request; the reply may be damaged or refused out of the fault budget.
* `rtcm3`: weak fairness of the UART thread and of the application inside a call.
* `hat_lifecycle`: weak fairness of a call's steps and of threads that were asked
  to stop: each of their waits has a stop token or a timeout.
* `ntrip_server`: weak fairness of the threads; their system calls have timeouts
  (poll 500 ms, connect 5 s, header 3 s).
* `public_caster`: every thread, with strong fairness where it needs a mutex; a
  peer sooner or later asks or hangs up, and reads on or hangs up. The code has
  no timeout that enforces the latter: without it one silent connection keeps
  `stop()` waiting. The same holds for the library's caster, whose `stop()`
  has the same structure; its liveness is checked on the public caster only.
* `python_ntrip`: threads are scheduled, the interpreter lock and the mutex go to
  everybody who keeps waiting, and a native thread that was told to stop ends. A
  method that waits for the receiver may wait for ever, and `CallsReturn` says so.

## 4. Proofs

| theorem | says | for all |
|---|---|---|
| `ReceiveLoopProofs!TypeCorrect` | the receive buffer and the other bounds hold | frames, claims, buffer, batch and table sizes |
| `ReceiveLoopProofs!NoSleepOnBacklog` | `NeverSleepsOnBacklog` | the same, and thresholds and edge queues |
| `ReceiveLoopProofs!DrainPassesFrame`, `PassesFrame` | `PassesFrameTheStream`, of the SPI path and of both | the same, and when the UART thread parses |
| `ReceiveLoopProofs!WakesOncePerEpoch` | `OneWakeupPerEpoch` | the same |
| `NavigationDeliveryProofs!DeliveryTypeCorrect` | types; the cursor never passes the generation | callers, epochs, sessions, monotonic clocks |
| `NavigationDeliveryProofs!BridgeImplementsFeed` | `ImplementsFeed` | the same, with `DateFrom <= TimeFrom` |
| `NavigationDeliveryProofs!WokenGetsEpoch` | `FreshReflectsWakeup` | callers, epochs, sessions, clocks |
| `StartupProofs!StartupTypeCorrect` | types and loop counters | plans, keys, fault budgets, tries |
| `StartupProofs!StartedConfigured` | `StartedMeansConfigured` | the same |
| `StartupProofs!ChangesAreSaved` | `WrittenIsSaved` | the same; plans that save behind their last group |
| `StartupProofs!FaultFreeStarts` | `FaultFreeStartSucceeds` | the same; plans that look for the port first |
| `Rtcm3CorrectionsProofs!CorrectionsTypeCorrect`, `AlwaysRoomToRead` | types; `RoomToRead` | message types, frames, claims, buffer and table sizes, messages, calls |
| `Rtcm3CorrectionsProofs!CutsAreHarmless` | `CutsDoNotMatter` | the same |
| `Rtcm3CorrectionsProofs!CorrectionsOfOneBurst` | `CorrectionsBelongTogether` | the same, and requests |
| `Rtcm3CorrectionsProofs!WholeSetsInOrder` | `SetsSentWholeInOrder` | the same, and sizes of sets |
| `NtripProofs!CasterTypeCorrect`, `ListsAreServed`, `NoClientForgotten`, `StoppedCasterIsQuiet` | the `TypeOK`, `ListedAreServed`, `NobodyForgotten`, `StoppedIsQuiet` of the caster | connections, descriptors, limits, chunks |
| `NtripProofs!ClientsFedInOrder` | `FedInOrder` | the same |
| `NtripProofs!ClientTypeCorrect` | types of the client | frames, claims, messages, losses, cuts, field limit |
| `NtripProofs!FramesComeInOrder` | `FramesInOrder` | the same |
| `NtripProofs!IntactFramesArrive` | `NoIntactFrameLost` | the same |
| `NtripServerProofs!ServerTypeCorrect`, `NoMonitorLeftBehind`, `ReconnectHoldsOneDescriptor` | types; `QuietAfterDisconnect`, `OneDescriptor` | sockets, faults |
| `PublicCasterProofs!PublicCasterTypeCorrect`, `ListsHoldOpenDescriptors`, `MountIsTheLastClaims` | types; `ListedAreOpen`, `MountFollowsLastClaim` | connections, requests, limits |
| `PublicCasterProofs!StoppedPublicCasterIsFree` | after `stop()` nothing is open, listed or claimed | the same |
| `ObjectLifetimeProofs!BindingTypeCorrect`, `CallbackOutlivesItsCallers` | types; `CallbackReferenced` | Python and native threads, kinds of object |
| `ObjectLifetimeProofs!LifecycleTypeCorrect`, `NothingGoneIsUsedHolds` | types; `NothingGoneIsUsed` | products, generations of each object, starts |
| `ObjectLifetimeProofs!LinesRequestedOnceHolds` | `LinesRequestedOnce` | the same |

**Receive paths.** `TypeCorrect`, `NoSleepOnBacklog` and `DrainPassesFrame` are about
`SpiReceiveLoop!Spec`, the part of `receive` with `link = "spi"`; `PassesFrame` and
`WakesOncePerEpoch` are about `UartReceiveLoop!ReceiveSpec`, both HATs.
`NeverSleepsOnBacklog` is not inductive: it says something only when
the thread is about to sleep, and what makes it true happens when the module
was last seen idle. `RestingIsSafe` says that from that moment on
(`drained`, or `wait` without `more`) a high line implies a wakeup under way.
The step that matters is `ReadBatch`: only an empty module clocks out a whole
batch of idle cells (`IdleBatchMeansEmpty`).

`PassesFrameTheStream` compares what the passes handed out with `Scan` of the whole
stream, and no step of the thread changes that in an obvious way: each read
makes the stream longer behind the buffer's end. `StreamInv` therefore speaks of
every continuation of the stream. `Stands(q, p, m)` says that the buffer holds it
from cell q on, and that framing any stream that begins with what was read arrives,
after m frames, at cell p with exactly `delivered` found (`Continues`); between p and
the parse position no header begins. A frame parsed in the buffer is the next frame
of the stream (`ExtractsNext`), a rest that holds no whole frame yields no further
one. That the recursive function behind `Scan` exists and unfolds is proved by the
least argument for which it would not. `OneWakeupPerEpoch` needs the same function in
one pass: what `Scan` would still frame behind the parse position (`Remaining`) holds
a NAV-PVT, or the one the pass had is already marked (`EpochInv`).

**Corrections.** `CutsDoNotMatter` is proved the same way, with the rounds of
`extractFrames` for the recursion (`Rounded`, `CutInv`); after the last round the
buffer holds a frame that is not all there (`Unfinished`), so that the search over
the whole stream ends where the pass ended. `CorrectionsBelongTogether` rests on the
store being filled in the order of the burst (`StoreInOrder`: the types up to
the last one stored are of burst b, the others of b - 1) and on nobody storing while
a call looks types up (`FoundIsStored`, from the guard). `SetsSentWholeInOrder` needs
that a waiting set is newer than everything sent or being sent
(`WaitingIsNewer`) and that what is being sent goes on where the
transmission ends (`SendingGoesOn`).

**Delivery.** The refinement maps every step to a publication, a sentence set or
a stutter. The invariant `FeedInv` ties the three things the code keeps apart:
the stored PVT follows the burst, `lastEpoch` is the key of an epoch the store
held, and it is not older than anything this session was told. The assumption
`DateFrom <= TimeFrom` is necessary (see the late date under observations).
`WokenGetsEpoch` rests on `FreshInv`: the order of the burst relates the store's three
fields (`StoreCoversPvt`), nothing is announced before it is stored, and a caller's
mark is not ahead of what was announced, although the wait and the copy are two
critical sections.

**Startup.** `StartedConfigured` is a monotonic argument: every VALSET carries
expected values, so the set of right keys only grows, and a report that was true
once is true now, be it as stale as it may. So it does not matter that a reply
carries no request number; the damage of a stale acknowledgement is confined to
steps without keys (`PhaseMatches`). For `WrittenIsSaved` that is not enough: an
acknowledgement of an earlier save would stand for a later one if it could still be
under way. It cannot, because requests and replies stay in order: once a group of
keys is acknowledged, nothing of an earlier save is on the line (`LineInOrder`), so
an acknowledged save covers what was written (`SaveCovers`, `Settled`). The
assumption `SavesAssumption` is what the strategies' `execute()` have: a save
behind the last group, and `shouldSaveConfigToFlash(false)` only where nothing is
left to be saved.

`FaultFreeStartSucceeds` says something only at the end, when a start has failed or
succeeded; what holds all the way, as long as no fault has been used, is `Calm`. Its
first half (`Where`) is about the port: host and receiver can fail to hear each other
only while the host looks for the port (`Deaf`, `DeafAtPort`), a receiver on its old
port is on one that is still to be probed (`NotYet`), and a try that timed out was one
on a port where nobody is. The second half (`Said`) is about the line: the answer
to what is awaited is on it or about to be, behind everything left over by an
earlier run (`AnswerComes`), nothing that is awaited once is on it twice
(`OnlyOne`), once a VALSET is acknowledged the line is empty and the group has its
values (`Acked`, `SetHolds`), and so the second poll meets its own reply and finds
what was written (`Verifies`). `PortAssumption` is again
what `execute()` does in all strategies: `reconfigureCommPort` comes before anything
the receiver has to answer, and always with the same keys.

**Caster.** `ListedAreServed` needs that a descriptor has one owner
(`OneOwner`), open exactly between accept and close (`HandlersOpen`);
`NobodyForgotten` follows only together with it, since a number on the list must
not be a reused one; `StoppedIsQuiet` needs that every handler that is not `off`
is on `clientThreads_` (`ThreadsTracked`) and that nothing is accepted once the
socket is closed (`StopPhase`). `FedInOrder` rests on one broadcast at a time
(`CastInv`): only it can owe a client a chunk, the one logged last (`Owed`), and
whoever is on the list and is owed nothing has everything since it registered
(`FedInv`).

**Public caster.** `ListedByRole` says at which steps of its handler a descriptor may
be on which list, so that none is left when the handler closes it; `RequestKnown`
and `RelaysLocked` say why a source and a rover never take each other's steps. The
mountpoint's invariant is inductive with these.

**Server.** The crux is who owns the descriptor: whoever is about to open one holds
none of the connection before (`NothingHeld`), whether the caller's thread or the
monitor dials; what `disconnect()` leaves open is in `left`.

**Client.** `StreamInv` relates three places a cell may be in: `wire \o pipe` are the
cells since the buffers were cleared, of which those of `wire` were received; `buf`
is the end of the received part (`BufferIsRest`); what was handed out
rises and lies before the buffer (`HandedBefore`). Cells of one frame stand together
and in order, but a frame may end anywhere, where the connection was cut
(`CellsInOrder`). `NoneSkipped` is the heart: an intact frame that begins before
the buffer was handed out. The parse position can pass such a frame's first cell
in two ways: `TakeFrame` hands out the frame it begins, and takes nothing else since the
CRC matches one frame only; and one of the skips goes over one cell, which is
not the first of an intact frame that is all there (`ShapesAssumption`: its length
field tells its length and has the reserved bits clear). A lost
connection only leaves out cells on their way; when the buffers are cleared, the
stream begins anew behind the frames handed out before.

**Lifecycle.** What a thread uses exists because of the order of the steps that
remain in `todo`; so the invariant (`LifeInv`) is about that sequence. `Plan` says
which calls it can be the rest of, `Stages` and `Dying` which members can be set at that
point, `Owned` that a live object is the one its pointer names or the one being
deleted. `FreedAfterThread` and `UbloxSafe` are what the destructors must get right:
what a thread uses exists, and is freed or reset behind the step that joins the
thread. `MadeBeforeStarted` is the same for `start()`: a thread's objects are there or are
made before it starts. `LinesFree` says that a line is requested only while its pointer
is null. For the enabled devices the flags see to that (`DevicesOnce`), for
TX-READY that nothing behind its request can fail, so that a `start()` that is
tried again has not made it yet (`TxReadyOnce`).

**Python.** A native thread that has decided to call needs `SetsInPeace`: while a
method replaces the callback nothing runs that could call the old one. That is the
caller's doing (the model's programs set the callback before they start the object,
see the observations), and `set_log_callback()` keeps the interpreter lock
meanwhile. `StoppedIsJoined` and `DeallocAlone` do the same for the end of the threads.

The constants' assumptions (`...Assumption` in the modules) are what the code's
sizes and types give, and TLC evaluates them in the runs. Among them: there is at
least one type of correction message, and a length field holds more than 0.

Only model-checked: every liveness property (the prover treats neither fairness
nor `ENABLED`), and what `HatData` and the operators below it (`GnssConfiguration`,
`NavigationData`, `Handover`, `NtripStatistics`, `RtkBaseTool`) compute. Its four
properties compare the results of folds, filters and flattenings of sequences of any
length with a reference definition: a register's value with the fold that parsed the
answer and the `@@` of all groups, sentences with the filtered satellites,
counts with sums over all that was sent. These are inductions over data, and the
prover knows nothing of `SelectSeq` or a fold.

## 5. What is left

Every safety invariant of the protocols and threads (parsers, delivery, startup,
corrections, NTRIP, binding, lifecycle) is a theorem. What could be added is in `HatData`:
with a library of lemmas about `SelectSeq`, `FoldLeft` and `FlattenSeq` that do
not take operators as parameters, `HandedWhole` and `ShownIsTold` would follow by the
steps of one call; `RefusedExactlyWhenWrong` and `SettingsAsAsked` would in
addition need the shapes of all requests as an assumption.

## 6. Not modelled

* Byte layouts, byte order and checksums of UBX, RTCM3 and NMEA messages (a frame is
  intact or damaged); fields that are copied one to one are together one value.
* SPI, I2C, GPIO and termios calls: only what they deliver.
* TLS in the NTRIP components; the times in the statistics; the GGA thread's timer.
* `start()` on a running HAT, and two application threads in the calls that change
  a HAT; the observations say what they lead to. `waitAndGetFreshTimeMark()`.
* The TIME HAT's rate and time pulse: its startup does not write them, and
  `SettingsAsAsked` asks for neither (see the observations). An empty list of
  geofences, which C and Python drop and C++ refuses, is not asked for.
* The main loop of `gnsshat-rtk-base`, `gnsshat-info` and `gnsshat-probe`: displays
  of what the library returns. String tables of enumerations.
* The public caster's analyzer of RTCM3 contents, its HTTP status server and web page.
* Spurious wakeups of condition variables: every wait has a predicate.

## 7. Observations

Met while reading and modelling the code. What a run shows is in `PROJECT.json` under
`findings`; the following are not checked by a run.

**Receive paths**

* A pass that stops on the buffer limit between the two sync bytes loses the frame
  (`UbxParser.cpp:124`), although the loop
  "resumes at the buffer limit instead of discarding the buffer" (`CHANGELOG.md:35-36`).
* One damaged length larger than the buffer fills it with a carried prefix; the SPI
  loop then spins without reading the module (`Run.cpp:37`; `README.md:425` says
  "no busy-wait loops"). `BacklogIsServed` has claims that fit.
* The first drain pass may announce an epoch without a NAV-PVT: the startup
  dialogue's parsing leaves `navigationEpochSeen_` set (`Run.cpp:71,74`).
  `OneWakeupPerEpoch` excepts it.

**Delivery and gpsd**

* Of two callers of `waitAndGetFreshNavigation` one may be starved: a woken caller
  finds `ready` cleared by the other (`Notifier.hpp:40`; `README.md:425` promises
  concurrent callers). `EveryCallerServed` is checked for one caller beside the bridge.
* `waitAndGetFreshNavigation` may return the same epoch twice: waiting and
  copying are two critical sections (`GnssHat.cpp:506-509`).
* When the date becomes valid within a second, that second is sent twice
  (`NmeaForwarder.cpp:262` against the comment in line 258).
* `createVirtualTty()` closes both descriptors on failure and leaves their
  numbers set; the destructor closes them again (`NmeaForwarder.cpp:98`).

**Startup and configuration**

* `shouldSaveConfigToFlash` is set only after an acknowledged VALSET: when the
  acknowledgement is lost, the next attempt finds the values right, `start()`
  returns true and flash is not written (`Startup.cpp:955`). Likewise, a start with
  `saveToFlash` after an identical unsaved one writes nothing.
* UBX-CFG-RST of the GNSS engine's start has no acknowledgement: if it is lost on a
  receiver whose engine is stopped, `start()` still succeeds (`Startup.cpp:820`).
* The TIME HAT's strategy derives rate and time pulse registers that no group of its
  plan writes (`Startup.cpp:990`; `README.md:259-261` lists them for every HAT).
* `ConfigKeySizeMap` lacks `CFG_NAVSPG_FIXMODE` and the `OUTFIL` masks of PDOP, TDOP,
  PACC and TACC (`UBX_CFG_VALGET.cpp`): a start with one of these filters throws
  `std::runtime_error`, which nobody catches, although `GnssHat.h:405-420` and
  `tests/TestGnssConfig.cpp` offer them. `RefusedExactlyWhenWrong` says for which.
* Python narrows without a check: 65537 Hz becomes 1, a confidence level of 256
  becomes 0. Python and C drop an empty list of geofences, C++ refuses it. RTK mode
  base without a base becomes a rover. Enumerations are cast unchecked.
* A base that becomes a rover keeps its RTCM3 output keys. `min_svs` and `max_svs`
  asked for in two different starts may end with min > max. An accuracy or radius
  below one unit of its register passes the check and is written as 0.
* The geofencing configuration that is shown stays that of the last successful start
  after a restart that failed. A MON-SYS or MON-VER that is too short, after a
  retried start, replaces what was stored by defaults. The block counts of
  NAV-GEOFENCE, MON-RF and MON-SPAN are trusted.
* `UBX_NAV_PVT.hpp:37,42` read the date and time validity bits in the opposite
  order to the protocol description.

**RTCM3**

* A rover's set whose wait for the guard times out in `waitForFrames` stays there
  until the next set is applied (`NewestIsSent` excepts it).
* `getFullCorrections` hands out the stored frames again when no new ones came.

**HAT lifecycle**

* `start()` on a running HAT replaces the parser under the ublox thread, and the
  second `TxReadyInterrupt` terminates the process on the busy GPIO line.
* A retry of a failed RTK start briefly runs two UART threads. `rtk_` is replaced
  even when the configuration is then refused, so an `IRtk*` taken before dangles.
* `timepulse()` waits without a stop token (`GnssHat.cpp:569`): after
  `disableTimepulse()` or the destructor its caller stays; it also returns for a
  pulse of before the call (`README.md:234` says "next timepulse").
  `waitAndGetFreshTimeMark()` ignores what `wait()` returned (line 208) and may
  return a stale mark.
* A soft reset while the HAT runs uses `commDriver_` beside the ublox thread.
  `enableTimepulse()` and `disableTimepulse()` are not made for two threads.
* `jp_gnss_hat_get_mon_ver` reads versions and extensions in three separate calls.

**NTRIP**

* `NtripCaster`: a failing `accept()` ends the accept loop for good while
  `running_` stays true (line 224); `feed()` frees the TLS handle of a client
  whose handler may be reading through it (line 165); the client limit can be
  exceeded by connections that are checked before either registers (378, 454); a
  connection that says nothing keeps `stop()` waiting (118; the comment in 100-101
  says otherwise).
* `NtripServer`: `disconnect()` during a reconnect leaves `connected_` set and a
  socket open (375); after a lost link it does not close `sockFd_`; `connect()`
  while the monitor pauses runs two `connectInternal()`; `feed()` may send before
  the POST was answered; a send that failed on the old link marks the new one lost.
* `NtripClient`: the same race leaves a client connected after `disconnect()`
  (290; `tests/TestNtrip.cpp:372-373` expects otherwise); GGA may be sent before the
  GET; frames of a lost session survive into the next; `reconnectCount_` is not
  reset; a change of the GGA interval can miss its notification. A sourcetable cut
  by the end of the connection is returned as complete.
* Public caster: "is the mountpoint free" and the claim are two critical sections
  (370), as are limit and registration; rovers of an old mountpoint hear the
  next source; the analyzer keeps what it knew of it.
* Statistics: what is relayed is counted per read, so a header cut by a read is
  lost and a preamble byte in the tail of a payload is counted; `startTime_` is
  read without a lock; two recorders may store a negative gap; only the 32 smallest
  message types are told.

**Python and C**

* `__exit__` of caster, client and server keeps the interpreter lock while it joins
  (the run `python_exit`); `client_count` takes `clientsMutex_` with the lock held,
  while a handler that logs does the opposite.
* The callback may be cleared between the check and the call in `NtripLog.hpp:47`;
  `set_log_callback` drops the old callback while a thread may be about to call
  it (`jp_gnss_module.c:4288`).
* `feed` and `rtk_apply_corrections` borrow bytes of the list's items while the
  lock is released. `__exit__` while another thread is in a method frees what
  that one uses. `send_position` and `start` keep the lock for as long as they take.
* `receive()`: an element whose `malloc` failed is handed out uninitialized, a
  failed `calloc` loses the frames without a word. Sourcetable text that is not UTF-8
  gives a NULL that is then released. `get_stats` keeps a reference to each of
  its numbers. `GnssHat()` without a supported HAT wraps NULL.

**Base station tool** (`tools/gnsshat-rtk-base.cpp`)

* After a lost fix the next epoch without one sets the state back to "awaiting",
  although the comment in line 699 distinguishes the two. SIGTERM acts at the
  next navigation epoch.
* Typing errors in `reset_mode`, `base.mode`, `type` and `polarity` silently mean
  the default; a TOML integer where a float is expected is refused; the base of
  an RTK configuration is never checked for its range.
