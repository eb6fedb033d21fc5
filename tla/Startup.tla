------------------------------- MODULE Startup -------------------------------
(***************************************************************************)
(* The startup dialogue of start(): for every group of configuration keys  *)
(* the host polls the receiver (UBX-CFG-VALGET), writes the keys that      *)
(* differ (UBX-CFG-VALSET, RAM layer), and polls again to verify           *)
(* (StartupBase::configure, awaitAck); the strategies (M9NStartup,         *)
(* F9PStartup, F10TStartup) run their groups in order, look for the        *)
(* receiver on other SPI modes or baud rates if the first group fails, and *)
(* save to flash what was changed.                                         *)
(*                                                                         *)
(* Values are abstracted to "the expected value" or not: `ram`, `flash`    *)
(* and `stored` are the sets of keys that hold the expected one. Requests  *)
(* and replies travel in order, and may be lost or late.                   *)
(***************************************************************************)
EXTENDS Integers, Sequences, FiniteSets, StartupPlans

CONSTANTS
    Hats,        \* strategies and settings: see HatsAssumption
    Keys,        \* configuration keys
    StartRams,   \* the keys a receiver may already have right
    OldPorts,    \* port parameters it may still have
    Expected,    \* the port parameters of the host driver
    Tries        \* attempts of try3times

Steps == [kind : {"port", "configure"}, keys : SUBSET Keys] \cup
         [kind : {"save", "dontSave", "startGnss", "monVer"}, keys : {{}}]
ASSUME HatsAssumption ==
    Hats \subseteq [plan    : Seq(Steps),     \* execute(), step by step
                    probed  : Seq(OldPorts),  \* ports reconfigureCommPort tries
                    flushes : BOOLEAN,        \* transmitting discards pending input
                    save    : BOOLEAN,        \* saveToFlash
                    faults  : Nat]            \* bound: lost, refused, late or misleading messages

(* Every group of keys before step i of a plan has a save behind it. The    *)
(* strategies end that way, and call shouldSaveConfigToFlash(false) only    *)
(* where that is so: at the beginning (F10T) or after a save (F9P).         *)
SavedBefore(plan, i) ==
    \A j \in 1..(i - 1) :
        plan[j].kind \in {"port", "configure"} =>
            \E k \in (j + 1)..(i - 1) : plan[k].kind = "save"
ASSUME SavesAssumption ==
    \A h \in Hats :
        /\ SavedBefore(h.plan, Len(h.plan) + 1)
        /\ \A i \in 1..Len(h.plan) : h.plan[i].kind = "dontSave" => SavedBefore(h.plan, i)
(* A strategy looks for the receiver before it talks to it, and the keys    *)
(* that move the port are one group.                                        *)
ASSUME PortAssumption ==
    \A h \in Hats : \A i \in 1..Len(h.plan) :
        /\ h.plan[i].kind # "dontSave" => \E j \in 1..i : h.plan[j].kind = "port"
        /\ \A j \in 1..Len(h.plan) :
              h.plan[i].kind = "port" /\ h.plan[j].kind = "port" => h.plan[i].keys = h.plan[j].keys
ASSUME ReceiverAssumption == StartRams \subseteq SUBSET Keys
ASSUME TriesAssumption == Tries \in Nat \ {0}

VARIABLES
    hat,         \* the strategy and settings in use
    ram,         \* receiver: keys with the expected value
    flash,       \* receiver: keys saved with the expected value
    oldPort,     \* receiver: port parameters until the port keys are right
    engine,      \* receiver: the GNSS engine runs
    reqs,        \* requests on their way to the receiver
    replies,     \* replies not yet read by the host
    faults,      \* history: messages lost, refused, late or no longer true
    misled,      \* history: keys a left-over reply wrongly reports right
    hostPort,    \* port parameters of the host
    at,          \* where start() is
    step,        \* step of the plan
    probe,       \* index into probed, 0 outside reconfigureCommPort
    rounds,      \* its try3times over configure()
    tries,       \* try3times inside configure() and around the save
    phase,       \* what the awaited acknowledgement is for
    ack,         \* ack_ of that message
    stored,      \* storedConfigValues_: keys stored with the expected value
    mismatches,  \* keys of the last VALSET
    shouldSave,  \* shouldSaveConfigToFlash_
    written,     \* history: keys of acknowledged VALSETs
    ok           \* what start() returned

receiverVars == <<ram, flash, oldPort, engine, misled>>
messageVars == <<reqs, replies, faults>>
loopVars == <<hostPort, at, step, probe, rounds, tries>>
ackVars  == <<phase, ack, stored, mismatches>>
saveVars == <<shouldSave, written>>
startupVars == <<hat, receiverVars, messageVars, loopVars, ackVars, saveVars, ok>>

-----------------------------------------------------------------------------
(* The receiver *)

PlanKeys == UNION {hat.plan[i].keys : i \in 1..Len(hat.plan)}
PortKeys == UNION {hat.plan[i].keys : i \in {j \in 1..Len(hat.plan) : hat.plan[j].kind = "port"}}
RxPort(right) == IF PortKeys \subseteq right THEN Expected ELSE oldPort
Connected == hostPort = RxPort(ram)

Values(keys, right) == [type |-> "values", of |-> "poll", keys |-> keys, right |-> right]
Ack(of) == [type |-> "ack", of |-> of, keys |-> {}, right |-> {}]
Request(of, keys) == [of |-> of, keys |-> keys]

Fault == faults < hat.faults /\ faults' = faults + 1

(* The replies to a request; UBX-CFG-RST has none. *)
RepliesTo(req) ==
    CASE req.of = "poll"      -> << Values(req.keys, req.keys \cap ram), Ack("poll") >>
      [] req.of = "startGnss" -> << >>
      [] OTHER                -> << Ack(req.of) >>

(* It serves a request; the reply of one that moves the port can be lost,   *)
(* since the host still listens on the old one.                             *)
Answer ==
    /\ reqs # <<>>
    /\ LET req == Head(reqs)
       IN  /\ ram' = IF req.of = "set" THEN ram \cup req.keys ELSE ram
           /\ flash' = IF req.of = "save" THEN ram ELSE flash
           /\ engine' = (engine \/ req.of = "startGnss")
           /\ \/ replies' = replies \o RepliesTo(req)
              \/ RxPort(ram') # hostPort /\ UNCHANGED replies
    /\ reqs' = Tail(reqs)
    /\ UNCHANGED <<hat, oldPort, misled, faults, loopVars, ackVars, saveVars, ok>>

(* The request is lost, damaged, or refused (nothing looks at nak_).        *)
Refuse ==
    /\ reqs # <<>>
    /\ Fault
    /\ reqs' = Tail(reqs)
    /\ UNCHANGED <<hat, receiverVars, replies, loopVars, ackVars, saveVars, ok>>

-----------------------------------------------------------------------------
(* awaitAck *)

(* The UART driver flushes what has arrived by then. *)
FlushInput ==
    \E n \in 0..(IF hat.flushes THEN Len(replies) ELSE 0) :
        replies' = SubSeq(replies, n + 1, Len(replies))

Transmit(req) ==
    /\ FlushInput
    /\ reqs' = IF Connected THEN Append(reqs, req) ELSE reqs

Await(of, keys) ==
    /\ Transmit(Request(of, keys))
    /\ phase' = of
    /\ ack' = FALSE
    /\ at' = "await"

(* A reply is parsed: values are stored, an acknowledgement sets its flag.  *)
(* Those that share a read with it are parsed before the flag is looked at. *)
ParseReply ==
    /\ at = "await"
    /\ replies # <<>>
    /\ Connected
    /\ LET m == Head(replies)
       IN  /\ ack' = (ack \/ (m.type = "ack" /\ m.of = (IF phase = "verify" THEN "poll" ELSE phase)))
           /\ stored' = (stored \ m.keys) \cup m.right
    /\ replies' = Tail(replies)
    /\ UNCHANGED <<hat, receiverVars, reqs, faults, loopVars, phase, mismatches, saveVars, ok>>

(* A reply is damaged (or cut by the end of a read, between its sync bytes   *)
(* or by padding), or read with the wrong port parameters.                  *)
DropReply ==
    /\ at = "await"
    /\ replies # <<>>
    /\ \/ ~Connected /\ UNCHANGED faults
       \/ Connected /\ Fault
    /\ replies' = Tail(replies)
    /\ UNCHANGED <<hat, receiverVars, reqs, loopVars, ackVars, saveVars, ok>>

-----------------------------------------------------------------------------
(* The control flow around it *)

Current == hat.plan[step]
Advance ==
    /\ step' = step + 1
    /\ at' = "step"
    /\ probe' = 0 /\ rounds' = 1 /\ tries' = 1

(* A task of try3times failed. *)
TryAgain ==
    /\ IF tries < Tries THEN tries' = tries + 1 /\ at' = "attempt"
                        ELSE at' = "failed" /\ UNCHANGED tries
    /\ UNCHANGED <<hostPort, step, probe, rounds>>

(* The driver is opened again with other port parameters. *)
ReinitSame(port) ==      \* mutant: the driver keeps its parameters
    /\ at' = "attempt"
    /\ tries' = 1 /\ rounds' = 1
    /\ UNCHANGED <<hostPort, replies>>
Reinit(port) ==
    /\ hostPort' = port
    /\ at' = "attempt"
    /\ tries' = 1 /\ rounds' = 1
    /\ FlushInput

(* A group passed: the next step, unless it passed on a probed port.        *)
Passed ==
    IF probe > 0 /\ hostPort # Expected
    THEN /\ Reinit(Expected)
         /\ UNCHANGED <<reqs, faults, step, probe>>
    ELSE /\ Advance
         /\ UNCHANGED <<messageVars, hostPort>>

AtStep(kinds) == at = "step" /\ step <= Len(hat.plan) /\ Current.kind \in kinds

(* configure() of no keys succeeds at once. *)
BeginConfigure ==
    /\ AtStep({"port", "configure"})
    /\ IF Current.keys = {} THEN Advance
                            ELSE at' = "attempt" /\ UNCHANGED <<step, probe, rounds, tries>>
    /\ UNCHANGED <<hat, receiverVars, messageVars, hostPort, ackVars, saveVars, ok>>

BeginSave ==
    /\ AtStep({"save"})
    /\ IF hat.save /\ shouldSave THEN at' = "attempt" /\ UNCHANGED <<step, probe, rounds, tries>>
                                 ELSE Advance
    /\ UNCHANGED <<hat, receiverVars, messageVars, hostPort, ackVars, saveVars, ok>>

(* shouldSaveConfigToFlash(false) *)
DontSave ==
    /\ AtStep({"dontSave"})
    /\ shouldSave' = FALSE
    /\ Advance
    /\ UNCHANGED <<hat, receiverVars, messageVars, hostPort, ackVars, written, ok>>

SendGnssEngineStart ==
    /\ AtStep({"startGnss"})
    /\ Transmit(Request("startGnss", {}))
    /\ Advance
    /\ UNCHANGED <<hat, receiverVars, faults, hostPort, ackVars, saveVars, ok>>

PollMonVer ==
    /\ AtStep({"monVer"})
    /\ Await("monVer", {})
    /\ UNCHANGED <<hat, receiverVars, faults, hostPort, step, probe, rounds, tries, stored,
                   mismatches, saveVars, ok>>

(* configure(): forget the stored values and poll the group. *)
Attempt ==
    /\ at = "attempt"
    /\ IF Current.kind = "save"
       THEN Await("save", {}) /\ UNCHANGED stored
       ELSE Await("poll", Current.keys) /\ stored' = {}
    /\ UNCHANGED <<hat, receiverVars, faults, hostPort, step, probe, rounds, tries, mismatches,
                   saveVars, ok>>

PollPassed ==
    /\ at = "await" /\ ack /\ phase = "poll"
    /\ Current.keys \subseteq stored
    /\ Passed
    /\ UNCHANGED <<hat, receiverVars, ackVars, saveVars, ok>>

WriteMismatches ==
    /\ at = "await" /\ ack /\ phase = "poll"
    /\ ~(Current.keys \subseteq stored)
    /\ mismatches' = Current.keys \ stored
    /\ Await("set", mismatches')
    /\ UNCHANGED <<hat, receiverVars, faults, hostPort, step, probe, rounds, tries, stored,
                   saveVars, ok>>

(* The VALSET was acknowledged: poll again. *)
PollAgainOnly ==      \* mutant: a change is not marked for saving
    /\ at = "await" /\ ack /\ phase = "set"
    /\ written' = written \cup mismatches
    /\ stored' = {}
    /\ Transmit(Request("poll", Current.keys))
    /\ phase' = "verify"
    /\ ack' = FALSE
    /\ UNCHANGED <<hat, receiverVars, faults, loopVars, mismatches, shouldSave, ok>>

PollAgain ==
    /\ at = "await" /\ ack /\ phase = "set"
    /\ shouldSave' = TRUE
    /\ written' = written \cup mismatches
    /\ stored' = {}
    /\ Transmit(Request("poll", Current.keys))
    /\ phase' = "verify"
    /\ ack' = FALSE
    /\ UNCHANGED <<hat, receiverVars, faults, loopVars, mismatches, ok>>

VerifyConfig ==
    /\ at = "await" /\ ack /\ phase = "verify"
    /\ IF Current.keys \subseteq stored THEN Passed ELSE TryAgain /\ UNCHANGED messageVars
    /\ UNCHANGED <<hat, receiverVars, ackVars, saveVars, ok>>

SavedOrPolled ==
    /\ at = "await" /\ ack /\ phase \in {"save", "monVer"}
    /\ Advance
    /\ UNCHANGED <<hat, receiverVars, messageVars, hostPort, ackVars, saveVars, ok>>

(* The deadline of awaitAck passes: nothing is coming, or it comes late.    *)
Timeout ==
    /\ at = "await" /\ ~ack
    /\ \/ reqs = <<>> /\ replies = <<>> /\ UNCHANGED faults
       \/ ~(reqs = <<>> /\ replies = <<>>) /\ Fault
    /\ IF phase = "monVer" THEN Advance /\ UNCHANGED hostPort ELSE TryAgain
    /\ UNCHANGED <<hat, receiverVars, reqs, replies, ackVars, saveVars, ok>>

(* All attempts failed. *)
IgnoreFailure ==      \* mutant: a group's result is not looked at
    /\ at = "failed"
    /\ Current.kind # "port"
    /\ Advance
    /\ UNCHANGED <<hat, receiverVars, messageVars, hostPort, ackVars, saveVars, ok>>

GiveUp ==
    /\ at = "failed"
    /\ Current.kind # "port"
    /\ at' = "done"
    /\ UNCHANGED <<hat, receiverVars, messageVars, hostPort, step, probe, rounds, tries, ackVars,
                   saveVars, ok>>

(* reconfigureCommPort, round by round: on a probed port, then - whatever   *)
(* came of it - on the expected one, then the next probe.                   *)
RoundForever ==      \* mutant: rounds are not counted
    /\ at = "failed"
    /\ probe > 0 /\ rounds < Tries
    /\ tries' = 1
    /\ at' = "attempt"
    /\ UNCHANGED <<hat, receiverVars, messageVars, hostPort, step, probe, rounds, ackVars, saveVars,
                   ok>>

NextRound ==
    /\ at = "failed"
    /\ probe > 0 /\ rounds < Tries
    /\ rounds' = rounds + 1
    /\ tries' = 1
    /\ at' = "attempt"
    /\ UNCHANGED <<hat, receiverVars, messageVars, hostPort, step, probe, ackVars, saveVars, ok>>

BackToExpected ==
    /\ at = "failed"
    /\ probe > 0 /\ rounds = Tries /\ hostPort # Expected
    /\ Reinit(Expected)
    /\ UNCHANGED <<hat, receiverVars, reqs, faults, step, probe, ackVars, saveVars, ok>>

LastRound == probe = 0 \/ (rounds = Tries /\ hostPort = Expected)

NextProbe ==
    /\ at = "failed" /\ Current.kind = "port"
    /\ LastRound
    /\ probe < Len(hat.probed)
    /\ probe' = probe + 1
    /\ Reinit(hat.probed[probe + 1])
    /\ UNCHANGED <<hat, receiverVars, reqs, faults, step, ackVars, saveVars, ok>>

NotFound ==
    /\ at = "failed" /\ Current.kind = "port"
    /\ LastRound
    /\ probe = Len(hat.probed)
    /\ at' = "done"
    /\ UNCHANGED <<hat, receiverVars, messageVars, hostPort, step, probe, rounds, tries, ackVars,
                   saveVars, ok>>

Succeed ==
    /\ at = "step"
    /\ step > Len(hat.plan)
    /\ at' = "done"
    /\ ok' = TRUE
    /\ UNCHANGED <<hat, receiverVars, messageVars, hostPort, step, probe, rounds, tries, ackVars,
                   saveVars>>

StartEnds == at = "done" /\ reqs = <<>> /\ UNCHANGED startupVars

-----------------------------------------------------------------------------
(* An earlier run of the program may have left replies unread: the end of   *)
(* one, or what a group of keys held when that run polled it. Such a report *)
(* may be too good: the receiver was changed, or lost its RAM, since.       *)
PolledGroups == {hat.plan[i].keys : i \in 1..Len(hat.plan)}
Leftovers ==
    {<<>>, <<Ack("poll")>>} \cup
    UNION {{<<Values(keys, right), Ack("poll")>> : right \in SUBSET keys} : keys \in PolledGroups}
Reported == UNION {replies[i].right : i \in 1..Len(replies)}

StartupInit ==
    /\ hat \in Hats
    /\ ram \in StartRams
    /\ flash \in {{}, ram}
    /\ oldPort \in OldPorts
    /\ engine \in BOOLEAN
    /\ reqs = <<>>
    /\ replies \in Leftovers
    /\ misled = Reported \ ram
    /\ faults = (IF misled = {} THEN 0 ELSE 1) /\ faults <= hat.faults
    /\ hostPort = Expected
    /\ at = "step"
    /\ step = 1
    /\ probe = 0
    /\ rounds = 1
    /\ tries = 1
    /\ phase = "poll"
    /\ ack = FALSE
    /\ stored = {}
    /\ mismatches = {}
    /\ shouldSave = FALSE
    /\ written = {}
    /\ ok = FALSE

HostStep ==
    \/ ParseReply \/ DropReply \/ BeginConfigure \/ BeginSave \/ DontSave
    \/ SendGnssEngineStart \/ PollMonVer \/ Attempt \/ PollPassed \/ WriteMismatches
    \/ PollAgain \/ VerifyConfig \/ SavedOrPolled \/ Timeout \/ GiveUp \/ NextRound
    \/ BackToExpected \/ NextProbe \/ NotFound \/ Succeed

StartupNext == Answer \/ Refuse \/ HostStep \/ StartEnds

(* The host's deadlines pass, and a receiver that got a request answers it. *)
StartupFairness == WF_startupVars(HostStep) /\ WF_startupVars(Answer \/ Refuse)

StartupSpec == StartupInit /\ [][StartupNext]_startupVars
StartupFairSpec == StartupSpec /\ StartupFairness

-----------------------------------------------------------------------------
Kinds == {"poll", "set", "save", "startGnss", "monVer"}
Reply == [type : {"values", "ack"}, of : Kinds, keys : SUBSET Keys, right : SUBSET Keys]

ReceiverType ==
    /\ ram \in SUBSET Keys /\ flash \in SUBSET Keys
    /\ oldPort \in OldPorts
    /\ engine \in BOOLEAN
    /\ misled \in SUBSET Keys
LineType ==
    /\ reqs \in Seq([of : Kinds, keys : SUBSET Keys])
    /\ replies \in Seq(Reply)
    /\ faults \in 0..hat.faults
LoopType ==
    /\ hostPort \in OldPorts \cup {Expected}
    /\ at \in {"step", "attempt", "await", "failed", "done"}
    /\ step \in 1..Len(hat.plan) + 1
    /\ probe \in 0..Len(hat.probed)
    /\ rounds \in 1..Tries /\ tries \in 1..Tries
AckType ==
    /\ phase \in {"poll", "set", "verify", "save", "monVer"}
    /\ ack \in BOOLEAN
    /\ stored \in SUBSET Keys /\ mismatches \in SUBSET Keys
SaveType == shouldSave \in BOOLEAN /\ written \in SUBSET Keys

StartupTypeOK == hat \in Hats /\ ReceiverType /\ LineType /\ LoopType /\ AckType /\ SaveType
          /\ ok \in BOOLEAN

(* start() returns true only over a receiver that holds every value of the  *)
(* plan: whatever was lost, refused or late, no group passes on values that *)
(* were never the receiver's. The exception is what a reply left over from  *)
(* an earlier run reports right although it no longer is: nothing tells     *)
(* such a reply from one of this run, and start() believes it.              *)
StartedMeansConfigured == ok => PlanKeys \subseteq ram \cup misled

(* With saveToFlash, what an acknowledged VALSET changed is in flash when   *)
(* start() returns true, also when a save had to be repeated.               *)
WrittenIsSaved == (ok /\ hat.save) => written \subseteq flash

(* Without faults, a left-over report that misleads being one, start()      *)
(* succeeds on every port it looks at, and leaves host and receiver on the  *)
(* same parameters.                                                         *)
Reachable == oldPort = Expected \/ \E i \in 1..Len(hat.probed) : hat.probed[i] = oldPort
FaultFreeStartSucceeds ==
    (at = "done" /\ faults = 0 /\ (Reachable \/ PortKeys \subseteq ram)) => (ok /\ Connected)

(* Whatever the receiver does, start() returns. *)
StartReturns == <>(at = "done")

=============================================================================
