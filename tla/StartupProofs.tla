---------------------------- MODULE StartupProofs ----------------------------
(***************************************************************************)
(* Proofs about Startup, for every plan, every set of keys, every receiver *)
(* and any number of lost, refused and late messages: start() returns true *)
(* only over a receiver that holds the whole configuration, but for what a *)
(* reply left over from an earlier run wrongly reports.                    *)
(*                                                                         *)
(* The argument is monotonic: during a start the receiver's set of right   *)
(* values only grows, since every VALSET carries expected values. So a     *)
(* value the receiver reported right during this start still is, be the    *)
(* report as stale as it may; only the left-over one can mislead.          *)
(* Without faults it does return true: then every request meets the reply  *)
(* that is its own, and the receiver is looked for where it is.            *)
(***************************************************************************)
EXTENDS Startup, SequenceTheorems, TLAPS

(* What the receiver holds, as far as the host can tell: what it does hold  *)
(* and what a left-over report of this start wrongly says.                  *)
Held == ram \cup misled

TrueReply == {r \in Reply : r.right \subseteq Held}

(* Reports that are still true, and what was stored from them. *)
ReportsTrue == replies \in Seq(TrueReply) /\ stored \subseteq Held

(* The groups passed so far are configured. *)
PassedConfigured ==
    /\ \A i \in 1..Len(hat.plan) : i < step => hat.plan[i].keys \subseteq Held
    /\ at \in {"attempt", "await", "failed"} => step <= Len(hat.plan)
    /\ ok => at = "done" /\ step = Len(hat.plan) + 1

(* Only an acknowledgement that stands for no key ends these phases. *)
PhaseMatches == (at = "await" /\ phase \in {"save", "monVer"}) => Current.keys = {}

(* A report that misleads is one of the faults.                             *)
MisledIsFault == faults = 0 => misled = {}

Inv == StartupTypeOK /\ ReportsTrue /\ PassedConfigured /\ PhaseMatches /\ MisledIsFault

(* The fields of a strategy. *)
LEMMA HatFacts ==
    ASSUME StartupTypeOK
    PROVE  /\ hat.plan \in Seq(Steps) /\ hat.probed \in Seq(OldPorts)
           /\ hat.flushes \in BOOLEAN /\ hat.faults \in Nat
           /\ Len(hat.plan) \in Nat /\ Len(hat.probed) \in Nat
<1>1. hat \in [plan : Seq(Steps), probed : Seq(OldPorts), flushes : BOOLEAN,
               save : BOOLEAN, faults : Nat]
  BY HatsAssumption DEF StartupTypeOK
<1>2. hat.plan \in Seq(Steps) /\ hat.probed \in Seq(OldPorts)
  BY <1>1
<1>3. hat.flushes \in BOOLEAN /\ hat.faults \in Nat
  BY <1>1
<1> QED
  BY <1>2, <1>3, LenProperties

LEMMA CurrentType ==
    ASSUME StartupTypeOK, step <= Len(hat.plan)
    PROVE  Current \in Steps /\ Current.keys \in SUBSET Keys
<1>1. step \in 1..Len(hat.plan)
  BY HatFacts DEF StartupTypeOK, LoopType
<1>2. hat.plan[step] \in Steps
  BY <1>1, HatFacts, ElementOfSeq
<1> QED
  BY <1>2 DEF Current, Steps

(* Flushing keeps what is left. *)
LEMMA FlushKeeps ==
    ASSUME StartupTypeOK, ReportsTrue, FlushInput
    PROVE  replies' \in Seq(TrueReply)
<1>1. PICK n \in 0..(IF hat.flushes THEN Len(replies) ELSE 0) :
          replies' = SubSeq(replies, n + 1, Len(replies))
  BY DEF FlushInput
<1>2. Len(replies) \in Nat
  BY LenProperties DEF ReportsTrue
<1>3. n \in Nat
  BY <1>1, <1>2, HatFacts
<1>4. \A i \in n + 1..Len(replies) : replies[i] \in TrueReply
  <2> TAKE i \in n + 1..Len(replies)
  <2>1. i \in 1..Len(replies)
    BY <1>2, <1>3
  <2> QED
    BY <2>1, ElementOfSeq DEF ReportsTrue
<1>5. n + 1 \in Int /\ Len(replies) \in Int
  BY <1>2, <1>3
<1> QED
  BY <1>1, <1>4, <1>5, SubSeqProperties

LEMMA TrueRepliesAreReplies == Seq(TrueReply) \subseteq Seq(Reply)
BY SeqMonotonic DEF TrueReply

(* A report of what the receiver holds is true. *)
LEMMA RepliesToTrue ==
    ASSUME StartupTypeOK, NEW req \in [of : Kinds, keys : SUBSET Keys]
    PROVE  RepliesTo(req) \in Seq(TrueReply)
<1>1. ASSUME NEW of \in Kinds PROVE Ack(of) \in TrueReply
  BY DEF Ack, TrueReply, Reply
<1>2. Values(req.keys, req.keys \cap ram) \in TrueReply
  BY DEF Held, Values, TrueReply, Reply, Kinds
<1>3. CASE req.of = "poll"
  <2>1. Ack("poll") \in TrueReply
    BY <1>1 DEF Kinds
  <2>2. << Values(req.keys, req.keys \cap ram), Ack("poll") >> \in Seq(TrueReply)
    BY <1>2, <2>1
  <2> QED
    BY <1>3, <2>2 DEF RepliesTo
<1>4. CASE req.of = "startGnss"
  BY <1>4, EmptySeq DEF RepliesTo
<1>5. CASE req.of # "poll" /\ req.of # "startGnss"
  <2>1. << Ack(req.of) >> \in Seq(TrueReply)
    BY <1>1
  <2> QED
    BY <1>5, <2>1 DEF RepliesTo
<1> QED
  BY <1>3, <1>4, <1>5

(* The initial states. *)
LEMMA InitInv == StartupInit => Inv
<1> SUFFICES ASSUME StartupInit PROVE Inv
  OBVIOUS
<1>1. hat \in [plan : Seq(Steps), probed : Seq(OldPorts), flushes : BOOLEAN,
               save : BOOLEAN, faults : Nat]
  BY HatsAssumption DEF StartupInit
<1>2. hat.plan \in Seq(Steps) /\ hat.probed \in Seq(OldPorts) /\ hat.faults \in Nat
  BY <1>1
<1>3. Len(hat.plan) \in Nat /\ Len(hat.probed) \in Nat
  BY <1>2, LenProperties
<1>4. \A i \in 1..Len(hat.plan) : hat.plan[i].keys \in SUBSET Keys
  BY <1>2, ElementOfSeq DEF Steps
<1>5. PolledGroups \subseteq SUBSET Keys
  BY <1>4 DEF PolledGroups
<1>6. ram \in SUBSET Keys /\ flash \in SUBSET Keys
  BY ReceiverAssumption DEF StartupInit
<1>7. replies \in Seq(Reply)
  <2>1. Ack("poll") \in Reply
    BY DEF Ack, Reply, Kinds
  <2>2. ASSUME NEW keys \in PolledGroups, NEW right \in SUBSET keys
        PROVE  Values(keys, right) \in Reply
    BY <1>5, <2>2 DEF Values, Reply, Kinds
  <2>3. Leftovers \subseteq Seq(Reply)
    <3>1. <<>> \in Seq(Reply) /\ <<Ack("poll")>> \in Seq(Reply)
      BY <2>1, EmptySeq
    <3>2. ASSUME NEW keys \in PolledGroups, NEW right \in SUBSET keys
          PROVE  <<Values(keys, right), Ack("poll")>> \in Seq(Reply)
      BY <2>1, <2>2, <3>2
    <3>3. ASSUME NEW r \in Leftovers PROVE r \in Seq(Reply)
      <4>1. CASE r \in {<<>>, <<Ack("poll")>>}
        BY <3>1, <4>1
      <4>2. CASE r \notin {<<>>, <<Ack("poll")>>}
        <5>1. PICK keys \in PolledGroups :
                  r \in {<<Values(keys, right), Ack("poll")>> : right \in SUBSET keys}
          BY <4>2 DEF Leftovers
        <5> QED
          BY <3>2, <5>1
      <4> QED
        BY <4>1, <4>2
    <3> QED
      BY <3>3
  <2> QED
    BY <2>3 DEF StartupInit
<1>8. Reported \subseteq Held /\ misled \in SUBSET Keys
  <2>1. Len(replies) \in Nat /\ \A i \in 1..Len(replies) : replies[i] \in Reply
    BY <1>7, LenProperties, ElementOfSeq
  <2>2. Reported \in SUBSET Keys
    BY <2>1 DEF Reported, Reply
  <2> QED
    BY <2>2 DEF StartupInit, Held
<1>9. replies \in Seq(TrueReply)
  <2>1. \A i \in 1..Len(replies) : replies[i] \in Reply
    BY <1>7, ElementOfSeq
  <2>2. \A i \in 1..Len(replies) : replies[i] \in TrueReply
    BY <1>8, <2>1 DEF TrueReply, Reported
  <2> QED
    BY <1>7, <2>2, LenProperties, SeqDef
<1>10. ReportsTrue
  BY <1>9 DEF ReportsTrue, StartupInit
<1>11. LineType
  <2>1. reqs \in Seq([of : Kinds, keys : SUBSET Keys])
    BY EmptySeq DEF StartupInit
  <2>2. faults \in 0..hat.faults
    BY <1>2 DEF StartupInit
  <2> QED
    BY <1>7, <2>1, <2>2 DEF LineType
<1>12. LoopType
  BY <1>3, TriesAssumption DEF StartupInit, LoopType
<1>13. ReceiverType /\ MisledIsFault
  BY <1>6, <1>8 DEF MisledIsFault, StartupInit, ReceiverType
<1>14. AckType /\ SaveType /\ ok \in BOOLEAN /\ hat \in Hats
  BY DEF StartupInit, AckType, SaveType
<1>15. PassedConfigured
  BY <1>3 DEF StartupInit, PassedConfigured
<1>16. PhaseMatches
  BY DEF StartupInit, PhaseMatches
<1> QED
  BY <1>10, <1>11, <1>12, <1>13, <1>14, <1>15, <1>16 DEF Inv, StartupTypeOK

-----------------------------------------------------------------------------
(* The receiver's steps: its right values only grow.                        *)
LEMMA ReceiverSteps == Inv /\ (Answer \/ Refuse) => Inv'
<1> SUFFICES ASSUME Inv, Answer \/ Refuse PROVE Inv'
  OBVIOUS
<1> USE DEF Inv
<1>1. reqs \in Seq([of : Kinds, keys : SUBSET Keys]) /\ reqs # <<>>
  BY DEF Answer, Refuse, StartupTypeOK, LineType
<1>2. Head(reqs) \in [of : Kinds, keys : SUBSET Keys]
      /\ Tail(reqs) \in Seq([of : Kinds, keys : SUBSET Keys])
  BY <1>1, HeadTailProperties
<1>3. UNCHANGED <<hat, oldPort, misled, loopVars, ackVars, saveVars, ok>> /\ reqs' = Tail(reqs)
  BY DEF Answer, Refuse, receiverVars
<1>4. LoopType' /\ AckType' /\ SaveType' /\ ok' \in BOOLEAN /\ hat' \in Hats
  BY <1>3 DEF StartupTypeOK, LoopType, AckType, SaveType, loopVars, ackVars, saveVars
<1>5. ReceiverType' /\ ram \subseteq ram' /\ Held \subseteq Held'
  <2>1. CASE Answer
    <3>1. ram' = (IF Head(reqs).of = "set" THEN ram \cup Head(reqs).keys ELSE ram)
          /\ flash' = (IF Head(reqs).of = "save" THEN ram ELSE flash)
          /\ engine' \in BOOLEAN /\ oldPort' = oldPort
      BY <2>1 DEF Answer, StartupTypeOK, ReceiverType
    <3>2. Head(reqs).keys \in SUBSET Keys
      BY <1>2
    <3> QED
      BY <1>3, <3>1, <3>2 DEF StartupTypeOK, ReceiverType, Held
  <2>2. CASE Refuse
    BY <2>2 DEF Refuse, receiverVars, StartupTypeOK, ReceiverType, Held
  <2> QED
    BY <2>1, <2>2
<1>6. Seq(TrueReply) \subseteq Seq(TrueReply')
  <2>1. TrueReply \subseteq TrueReply'
    BY <1>5 DEF TrueReply
  <2> QED
    BY <2>1, SeqMonotonic
<1>7. replies' \in Seq(TrueReply')
  <2>1. replies \in Seq(TrueReply)
    BY DEF ReportsTrue
  <2>2. CASE Answer
    <3>1. replies' = replies \o RepliesTo(Head(reqs)) \/ replies' = replies
      BY <2>2 DEF Answer
    <3>2. RepliesTo(Head(reqs)) \in Seq(TrueReply)
      BY <1>2, RepliesToTrue
    <3> QED
      BY <1>6, <2>1, <3>1, <3>2, ConcatProperties
  <2>3. CASE Refuse
    BY <1>6, <2>1, <2>3 DEF Refuse
  <2> QED
    BY <2>2, <2>3
<1>8. faults' \in 0..hat'.faults /\ MisledIsFault'
  <2>1. faults \in 0..hat.faults /\ hat.faults \in Nat
    BY HatFacts DEF StartupTypeOK, LineType
  <2>2. faults' = faults \/ (faults < hat.faults /\ faults' = faults + 1)
    BY DEF Answer, Refuse, Fault
  <2> QED
    BY <1>3, <2>1, <2>2 DEF MisledIsFault
<1>9. LineType'
  <2>1. Seq(TrueReply') \subseteq Seq(Reply)
    BY SeqMonotonic DEF TrueReply
  <2> QED
    BY <1>2, <1>3, <1>7, <1>8, <2>1 DEF LineType
<1>10. ReportsTrue'
  BY <1>3, <1>5, <1>7 DEF ReportsTrue, ackVars
<1>11. PassedConfigured'
  <2>1. UNCHANGED <<hat, step, at, ok>>
    BY <1>3 DEF loopVars
  <2> QED
    BY <1>5, <2>1 DEF PassedConfigured
<1>12. PhaseMatches'
  BY <1>3 DEF PhaseMatches, Current, loopVars, ackVars
<1> QED
  BY <1>4, <1>5, <1>8, <1>9, <1>10, <1>11, <1>12 DEF StartupTypeOK

-----------------------------------------------------------------------------
(* What a step of the host leaves alone, and what is then left to show. It  *)
(* goes on to the next step only past a configured group.                   *)
HostFrame ==
    /\ UNCHANGED <<hat, receiverVars>>
    /\ replies' \in Seq(TrueReply)
    /\ reqs' \in Seq([of : Kinds, keys : SUBSET Keys])
    /\ faults' \in faults..hat.faults

StepFrame ==
    /\ PhaseMatches'
    /\ \/ step' = step /\ (at' \in {"attempt", "await", "failed"} => step <= Len(hat.plan))
       \/ /\ step' = step + 1
          /\ step <= Len(hat.plan) /\ Current.keys \subseteq Held
          /\ at' = "step"

LEMMA HostFrameInv ==
    ASSUME Inv, HostFrame, StepFrame, LoopType', AckType', stored' \subseteq Held, SaveType',
           ~ok, ok' = ok
    PROVE  Inv'
<1> USE DEF Inv
<1>1. UNCHANGED <<hat, ram, flash, oldPort, engine, misled>> /\ Held' = Held
  BY DEF HostFrame, receiverVars, Held
<1>2. ReceiverType' /\ hat' \in Hats /\ ok' \in BOOLEAN
  BY <1>1 DEF StartupTypeOK, ReceiverType
<1>3. LineType' /\ MisledIsFault'
  <2>1. faults \in 0..hat.faults /\ hat.faults \in Nat /\ faults' \in faults..hat.faults
    BY HatFacts DEF StartupTypeOK, LineType, HostFrame
  <2>2. faults' \in 0..hat.faults /\ (faults' = 0 => faults = 0)
    BY <2>1
  <2> QED
    BY <1>1, <2>2, TrueRepliesAreReplies DEF HostFrame, LineType, MisledIsFault
<1>4. ReportsTrue'
  <2>1. TrueReply' = TrueReply
    BY <1>1 DEF TrueReply
  <2> QED
    BY <1>1, <2>1 DEF HostFrame, ReportsTrue
<1>5. PassedConfigured'
  <2>1. step \in Nat /\ Len(hat.plan) \in Nat
    BY HatFacts DEF StartupTypeOK, LoopType
  <2>2. CASE step' = step /\ (at' \in {"attempt", "await", "failed"} => step <= Len(hat.plan))
    BY <1>1, <2>2 DEF PassedConfigured
  <2>3. CASE step' = step + 1 /\ step <= Len(hat.plan) /\ Current.keys \subseteq Held /\ at' = "step"
    <3>1. ASSUME NEW i \in 1..Len(hat.plan), i < step + 1
          PROVE  hat.plan[i].keys \subseteq Held
      <4>1. CASE i = step
        BY <2>3, <4>1 DEF Current
      <4>2. CASE i < step
        BY <4>2 DEF PassedConfigured
      <4> QED
        BY <2>1, <3>1, <4>1, <4>2
    <3> QED
      BY <1>1, <2>3, <3>1 DEF PassedConfigured
  <2> QED
    BY <2>2, <2>3 DEF StepFrame
<1>6. PhaseMatches'
  BY DEF StepFrame
<1> QED
  BY <1>2, <1>3, <1>4, <1>5, <1>6 DEF StartupTypeOK

-----------------------------------------------------------------------------
(* The parts a step of the host is made of.                                 *)

LEMMA SameLine ==
    ASSUME Inv, UNCHANGED <<hat, receiverVars, messageVars>>
    PROVE  HostFrame
BY HatFacts DEF Inv, StartupTypeOK, LineType, ReportsTrue, HostFrame, messageVars

LEMMA TransmitLine ==
    ASSUME Inv, NEW req \in [of : Kinds, keys : SUBSET Keys], Transmit(req),
           UNCHANGED <<hat, receiverVars, faults>>
    PROVE  HostFrame
<1>1. replies' \in Seq(TrueReply)
  BY FlushKeeps DEF Inv, Transmit
<1>2. reqs \in Seq([of : Kinds, keys : SUBSET Keys])
  BY DEF Inv, StartupTypeOK, LineType
<1>3. reqs' \in Seq([of : Kinds, keys : SUBSET Keys])
  BY <1>2, AppendProperties DEF Transmit
<1>4. faults' \in faults..hat.faults
  BY HatFacts DEF Inv, StartupTypeOK, LineType
<1> QED
  BY <1>1, <1>3, <1>4 DEF HostFrame

LEMMA AdvanceLoop ==
    ASSUME Inv, Advance, UNCHANGED <<hat, hostPort>>, step <= Len(hat.plan),
           Current.keys \subseteq Held
    PROVE  StepFrame /\ LoopType'
<1>1. step \in 1..Len(hat.plan) /\ Len(hat.plan) \in Nat /\ Len(hat.probed) \in Nat
  BY HatFacts DEF Inv, StartupTypeOK, LoopType
<1>2. step' \in 1..Len(hat'.plan) + 1 /\ probe' \in 0..Len(hat'.probed)
  BY <1>1 DEF Advance
<1>3. rounds' \in 1..Tries /\ tries' \in 1..Tries /\ at' = "step"
  BY TriesAssumption DEF Advance
<1>4. LoopType'
  BY <1>2, <1>3 DEF Inv, StartupTypeOK, LoopType
<1>5. PhaseMatches'
  BY <1>3 DEF PhaseMatches
<1> QED
  BY <1>4, <1>5 DEF Advance, StepFrame

LEMMA TryAgainLoop ==
    ASSUME Inv, TryAgain, UNCHANGED hat, step <= Len(hat.plan)
    PROVE  StepFrame /\ LoopType'
<1>1. tries \in 1..Tries
  BY DEF Inv, StartupTypeOK, LoopType
<1>2. tries' \in 1..Tries /\ at' \in {"attempt", "failed"}
  BY <1>1, TriesAssumption DEF TryAgain
<1>3. UNCHANGED <<hostPort, step, probe, rounds>>
  BY DEF TryAgain
<1>4. PhaseMatches'
  BY <1>2 DEF PhaseMatches
<1> QED
  BY <1>2, <1>3, <1>4 DEF Inv, StartupTypeOK, LoopType, StepFrame

LEMMA SameLoop ==
    ASSUME Inv, UNCHANGED <<hat, hostPort, step, probe, rounds, tries>>,
           at' \in {"attempt", "await", "failed", "done"}, step <= Len(hat.plan),
           PhaseMatches'
    PROVE  StepFrame /\ LoopType'
<1>1. at' \in {"step", "attempt", "await", "failed", "done"}
  OBVIOUS
<1> QED
  BY <1>1 DEF Inv, StartupTypeOK, LoopType, StepFrame

LEMMA ReinitStep ==
    ASSUME Inv, NEW port \in OldPorts \cup {Expected}, Reinit(port),
           UNCHANGED <<hat, receiverVars, reqs, faults, step>>,
           probe' \in 0..Len(hat.probed), step <= Len(hat.plan)
    PROVE  HostFrame /\ StepFrame /\ LoopType'
<1>1. replies' \in Seq(TrueReply)
  BY FlushKeeps DEF Inv, Reinit
<1>2. HostFrame
  BY <1>1, HatFacts DEF Inv, StartupTypeOK, LineType, HostFrame
<1>3. /\ hostPort' \in OldPorts \cup {Expected} /\ at' = "attempt"
      /\ rounds' \in 1..Tries /\ tries' \in 1..Tries
  BY TriesAssumption DEF Reinit
<1>4. step' = step /\ step \in 1..Len(hat'.plan) + 1
  BY DEF Inv, StartupTypeOK, LoopType
<1>5. LoopType'
  BY <1>3, <1>4 DEF LoopType
<1>6. PhaseMatches'
  BY <1>3 DEF PhaseMatches
<1> QED
  BY <1>2, <1>3, <1>5, <1>6 DEF StepFrame

LEMMA PassedStep ==
    ASSUME Inv, Passed, UNCHANGED <<hat, receiverVars>>, step <= Len(hat.plan),
           Current.keys \subseteq stored
    PROVE  HostFrame /\ StepFrame /\ LoopType'
<1>1. CASE probe > 0 /\ hostPort # Expected
  <2>1. Reinit(Expected) /\ UNCHANGED <<reqs, faults, step, probe>>
    BY <1>1 DEF Passed
  <2>2. probe' \in 0..Len(hat.probed)
    BY <2>1 DEF Inv, StartupTypeOK, LoopType
  <2> QED
    BY <2>1, <2>2, ReinitStep
<1>2. CASE ~(probe > 0 /\ hostPort # Expected)
  <2>1. Advance /\ UNCHANGED <<messageVars, hostPort>>
    BY <1>2 DEF Passed
  <2>2. Current.keys \subseteq Held
    BY DEF Inv, ReportsTrue
  <2> QED
    BY <2>1, <2>2, SameLine, AdvanceLoop
<1> QED
  BY <1>1, <1>2

(* A step that sends a request and waits for its acknowledgement.           *)
LEMMA AwaitStep ==
    ASSUME Inv, NEW of \in {"poll", "set", "save", "monVer"}, NEW keys \in SUBSET Keys,
           Await(of, keys), step <= Len(hat.plan),
           UNCHANGED <<hat, receiverVars, faults, hostPort, step, probe, rounds, tries>>,
           stored' \subseteq Held, stored' \in SUBSET Keys, mismatches' \in SUBSET Keys,
           of \in {"save", "monVer"} => Current.keys = {}
    PROVE  HostFrame /\ StepFrame /\ LoopType' /\ AckType'
<1>1. Request(of, keys) \in [of : Kinds, keys : SUBSET Keys]
  BY DEF Request, Kinds
<1>2. HostFrame
  BY <1>1, TransmitLine DEF Await
<1>3. StepFrame /\ LoopType'
  <2>1. PhaseMatches'
    BY DEF Await, PhaseMatches, Current
  <2> QED
    BY <2>1, SameLoop DEF Await
<1>4. AckType'
  BY DEF Await, AckType
<1> QED
  BY <1>2, <1>3, <1>4

-----------------------------------------------------------------------------
(* The host's steps, one by one. *)

LEMMA ParseReplyStep == Inv /\ ParseReply => Inv'
<1> SUFFICES ASSUME Inv, ParseReply PROVE Inv'
  OBVIOUS
<1>1. replies \in Seq(TrueReply) /\ replies # <<>>
  BY DEF Inv, ReportsTrue, ParseReply
<1>2. Head(replies) \in TrueReply /\ Tail(replies) \in Seq(TrueReply)
  BY <1>1, HeadTailProperties
<1>3. /\ UNCHANGED <<hat, receiverVars, reqs, faults, phase, mismatches, shouldSave, written, ok>>
      /\ UNCHANGED <<hostPort, at, step, probe, rounds, tries>>
      /\ replies' = Tail(replies) /\ at = "await"
  BY DEF ParseReply, loopVars, saveVars
<1>4. stored' = (stored \ Head(replies).keys) \cup Head(replies).right /\ ack' \in BOOLEAN
  BY DEF ParseReply, Inv, StartupTypeOK, AckType
<1>5. Head(replies).right \subseteq Held /\ Head(replies).right \in SUBSET Keys
  BY <1>2 DEF TrueReply, Reply
<1>6. stored' \subseteq Held /\ stored' \in SUBSET Keys
  BY <1>4, <1>5 DEF Inv, ReportsTrue, StartupTypeOK, AckType
<1>7. HostFrame
  BY <1>2, <1>3, HatFacts DEF HostFrame, Inv, StartupTypeOK, LineType
<1>8. StepFrame /\ LoopType'
  <2>1. PhaseMatches'
    BY <1>3 DEF Inv, PhaseMatches, Current
  <2> QED
    BY <1>3, <2>1, SameLoop DEF Inv, PassedConfigured
<1>9. AckType' /\ SaveType'
  BY <1>3, <1>4, <1>6 DEF Inv, StartupTypeOK, AckType, SaveType
<1>10. ~ok
  BY <1>3 DEF Inv, PassedConfigured
<1> QED
  BY <1>3, <1>6, <1>7, <1>8, <1>9, <1>10, HostFrameInv

LEMMA DropReplyStep == Inv /\ DropReply => Inv'
<1> SUFFICES ASSUME Inv, DropReply PROVE Inv'
  OBVIOUS
<1>1. replies \in Seq(TrueReply) /\ replies # <<>>
  BY DEF Inv, ReportsTrue, DropReply
<1>2. Tail(replies) \in Seq(TrueReply)
  BY <1>1, HeadTailProperties
<1>3. /\ UNCHANGED <<hat, receiverVars, reqs, ackVars, saveVars, ok>>
      /\ UNCHANGED <<hostPort, at, step, probe, rounds, tries>>
      /\ replies' = Tail(replies) /\ at = "await"
  BY DEF DropReply, loopVars
<1>4. faults' \in faults..hat.faults
  <2>1. faults \in 0..hat.faults /\ hat.faults \in Nat
    BY HatFacts DEF Inv, StartupTypeOK, LineType
  <2>2. faults' = faults \/ (faults < hat.faults /\ faults' = faults + 1)
    BY DEF DropReply, Fault
  <2> QED
    BY <2>1, <2>2
<1>5. HostFrame
  BY <1>2, <1>3, <1>4 DEF HostFrame, Inv, StartupTypeOK, LineType
<1>6. StepFrame /\ LoopType'
  <2>1. PhaseMatches'
    BY <1>3 DEF Inv, PhaseMatches, Current, ackVars
  <2> QED
    BY <1>3, <2>1, SameLoop DEF Inv, PassedConfigured
<1>7. AckType' /\ SaveType' /\ stored' \subseteq Held
  BY <1>3 DEF Inv, StartupTypeOK, AckType, SaveType, ackVars, saveVars, ReportsTrue
<1>8. ~ok
  BY <1>3 DEF Inv, PassedConfigured
<1> QED
  BY <1>3, <1>5, <1>6, <1>7, <1>8, HostFrameInv

(* The steps that begin an item of the plan. *)
LEMMA BeginSteps ==
    Inv /\ (BeginConfigure \/ BeginSave \/ DontSave \/ SendGnssEngineStart \/ PollMonVer) => Inv'
<1> SUFFICES ASSUME Inv, BeginConfigure \/ BeginSave \/ DontSave \/ SendGnssEngineStart \/ PollMonVer
             PROVE  Inv'
  OBVIOUS
<1>1. at = "step" /\ step <= Len(hat.plan)
  BY DEF BeginConfigure, BeginSave, DontSave, SendGnssEngineStart, PollMonVer, AtStep
<1>2. ~ok
  BY <1>1 DEF Inv, PassedConfigured
<1>3. Current \in Steps
  BY <1>1, CurrentType DEF Inv
<1>4. Current.kind \notin {"port", "configure"} => Current.keys = {}
  BY <1>3 DEF Steps
<1>5. stored \subseteq Held /\ AckType /\ SaveType
  BY DEF Inv, ReportsTrue, StartupTypeOK
<1>6. CASE BeginConfigure \/ BeginSave
  <2>1. UNCHANGED <<hat, receiverVars, messageVars, hostPort, ackVars, saveVars, ok>>
    BY <1>6 DEF BeginConfigure, BeginSave
  <2>2. HostFrame
    BY <2>1, SameLine
  <2>3. AckType' /\ SaveType' /\ stored' \subseteq Held
    BY <1>5, <2>1 DEF AckType, SaveType, ackVars, saveVars
  <2>4. \/ Advance /\ Current.keys = {}
        \/ at' = "attempt" /\ UNCHANGED <<step, probe, rounds, tries>>
    BY <1>4, <1>6 DEF BeginConfigure, BeginSave, AtStep
  <2>5. StepFrame /\ LoopType'
    <3>1. CASE Advance /\ Current.keys = {}
      BY <1>1, <2>1, <3>1, AdvanceLoop
    <3>2. CASE at' = "attempt" /\ UNCHANGED <<step, probe, rounds, tries>>
      <4>1. PhaseMatches'
        BY <3>2 DEF PhaseMatches
      <4> QED
        BY <1>1, <2>1, <3>2, <4>1, SameLoop
    <3> QED
      BY <2>4, <3>1, <3>2
  <2> QED
    BY <1>2, <2>1, <2>2, <2>3, <2>5, HostFrameInv
<1>7. CASE DontSave
  <2>1. UNCHANGED <<hat, receiverVars, messageVars, hostPort, ackVars, written, ok>>
        /\ shouldSave' = FALSE /\ Advance /\ Current.keys = {}
    BY <1>4, <1>7 DEF DontSave, AtStep
  <2>2. HostFrame
    BY <2>1, SameLine
  <2>3. StepFrame /\ LoopType'
    BY <1>1, <2>1, AdvanceLoop
  <2>4. AckType' /\ SaveType' /\ stored' \subseteq Held
    BY <1>5, <2>1 DEF AckType, SaveType, ackVars
  <2> QED
    BY <1>2, <2>1, <2>2, <2>3, <2>4, HostFrameInv
<1>8. CASE SendGnssEngineStart
  <2>1. UNCHANGED <<hat, receiverVars, faults, hostPort, ackVars, saveVars, ok>>
        /\ Transmit(Request("startGnss", {})) /\ Advance /\ Current.keys = {}
    BY <1>4, <1>8 DEF SendGnssEngineStart, AtStep
  <2>2. Request("startGnss", {}) \in [of : Kinds, keys : SUBSET Keys]
    BY DEF Request, Kinds
  <2>3. HostFrame
    BY <2>1, <2>2, TransmitLine
  <2>4. StepFrame /\ LoopType'
    BY <1>1, <2>1, AdvanceLoop
  <2>5. AckType' /\ SaveType' /\ stored' \subseteq Held
    BY <1>5, <2>1 DEF AckType, SaveType, ackVars, saveVars
  <2> QED
    BY <1>2, <2>1, <2>3, <2>4, <2>5, HostFrameInv
<1>9. CASE PollMonVer
  <2>1. UNCHANGED <<hat, receiverVars, faults, hostPort, step, probe, rounds, tries, stored,
                    mismatches, shouldSave, written, ok>>
        /\ Await("monVer", {}) /\ Current.keys = {}
    BY <1>4, <1>9 DEF PollMonVer, AtStep, saveVars
  <2>2. stored' \subseteq Held /\ stored' \in SUBSET Keys /\ mismatches' \in SUBSET Keys
    BY <1>5, <2>1 DEF AckType
  <2>3. HostFrame /\ StepFrame /\ LoopType' /\ AckType'
    BY <1>1, <2>1, <2>2, AwaitStep
  <2>4. SaveType'
    BY <1>5, <2>1 DEF SaveType
  <2> QED
    BY <1>2, <2>1, <2>2, <2>3, <2>4, HostFrameInv
<1> QED
  BY <1>6, <1>7, <1>8, <1>9

(* The steps that send a request of configure() or of the save.             *)
LEMMA RequestSteps == Inv /\ (Attempt \/ WriteMismatches \/ PollAgain) => Inv'
<1> SUFFICES ASSUME Inv, Attempt \/ WriteMismatches \/ PollAgain PROVE Inv'
  OBVIOUS
<1>1. at \in {"attempt", "await"}
  BY DEF Attempt, WriteMismatches, PollAgain
<1>2. step <= Len(hat.plan) /\ ~ok
  BY <1>1 DEF Inv, PassedConfigured
<1>3. Current.keys \in SUBSET Keys
  BY <1>2, CurrentType DEF Inv
<1>4. stored \subseteq Held /\ AckType /\ SaveType
  BY DEF Inv, ReportsTrue, StartupTypeOK
<1>5. CASE Attempt
  <2>1. UNCHANGED <<hat, receiverVars, faults, hostPort, step, probe, rounds, tries, mismatches,
                    shouldSave, written, ok>>
    BY <1>5 DEF Attempt, saveVars
  <2>2. \/ Await("save", {}) /\ stored' = stored /\ Current.kind = "save"
        \/ Await("poll", Current.keys) /\ stored' = {}
    BY <1>5 DEF Attempt
  <2>3. stored' \subseteq Held /\ stored' \in SUBSET Keys /\ mismatches' \in SUBSET Keys
    BY <1>4, <2>1, <2>2 DEF AckType
  <2>4. HostFrame /\ StepFrame /\ LoopType' /\ AckType'
    <3>1. Current.kind = "save" => Current.keys = {}
      BY <1>2, CurrentType DEF Inv, Steps
    <3>2. CASE Await("save", {}) /\ Current.kind = "save"
      BY <1>2, <2>1, <2>3, <3>1, <3>2, AwaitStep
    <3>3. CASE Await("poll", Current.keys)
      BY <1>2, <1>3, <2>1, <2>3, <3>3, AwaitStep
    <3> QED
      BY <2>2, <3>2, <3>3
  <2>5. SaveType'
    BY <1>4, <2>1 DEF SaveType
  <2> QED
    BY <1>2, <2>1, <2>3, <2>4, <2>5, HostFrameInv
<1>6. CASE WriteMismatches
  <2>1. UNCHANGED <<hat, receiverVars, faults, hostPort, step, probe, rounds, tries, stored,
                    shouldSave, written, ok>>
        /\ mismatches' = Current.keys \ stored
    BY <1>6 DEF WriteMismatches, saveVars
  <2>2. Await("set", Current.keys \ stored) /\ Current.keys \ stored \in SUBSET Keys
    BY <1>3, <1>6, <2>1 DEF WriteMismatches
  <2>3. stored' \subseteq Held /\ stored' \in SUBSET Keys /\ mismatches' \in SUBSET Keys
    BY <1>4, <2>1, <2>2 DEF AckType
  <2>4. HostFrame /\ StepFrame /\ LoopType' /\ AckType'
    BY <1>2, <2>1, <2>2, <2>3, AwaitStep
  <2>5. SaveType'
    BY <1>4, <2>1 DEF SaveType
  <2> QED
    BY <1>2, <2>1, <2>3, <2>4, <2>5, HostFrameInv
<1>7. CASE PollAgain
  <2>1. /\ UNCHANGED <<hat, receiverVars, faults, mismatches, ok>>
        /\ UNCHANGED <<hostPort, at, step, probe, rounds, tries>>
        /\ stored' = {} /\ phase' = "verify" /\ ack' = FALSE /\ at = "await"
        /\ Transmit(Request("poll", Current.keys))
    BY <1>7 DEF PollAgain, loopVars
  <2>2. Request("poll", Current.keys) \in [of : Kinds, keys : SUBSET Keys]
    BY <1>3 DEF Request, Kinds
  <2>3. HostFrame
    BY <2>1, <2>2, TransmitLine
  <2>4. StepFrame /\ LoopType'
    <3>1. PhaseMatches'
      BY <2>1 DEF PhaseMatches
    <3> QED
      BY <1>2, <2>1, <3>1, SameLoop
  <2>5. AckType' /\ stored' \subseteq Held
    BY <1>4, <2>1 DEF AckType
  <2>6. shouldSave' = TRUE /\ written' = written \cup mismatches
    BY <1>7 DEF PollAgain
  <2>7. SaveType'
    BY <1>4, <2>6 DEF SaveType, AckType
  <2> QED
    BY <1>2, <2>1, <2>3, <2>4, <2>5, <2>7, HostFrameInv
<1> QED
  BY <1>5, <1>6, <1>7

(* The steps that end an attempt. *)
LEMMA OutcomeSteps ==
    Inv /\ (PollPassed \/ VerifyConfig \/ SavedOrPolled \/ Timeout) => Inv'
<1> SUFFICES ASSUME Inv, PollPassed \/ VerifyConfig \/ SavedOrPolled \/ Timeout PROVE Inv'
  OBVIOUS
<1>1. UNCHANGED <<hat, receiverVars, ackVars, saveVars, ok>> /\ at = "await"
  BY DEF PollPassed, VerifyConfig, SavedOrPolled, Timeout
<1>2. step <= Len(hat.plan) /\ ~ok
  BY <1>1 DEF Inv, PassedConfigured
<1>3. AckType' /\ SaveType' /\ stored' \subseteq Held
  BY <1>1 DEF Inv, ReportsTrue, StartupTypeOK, AckType, SaveType, ackVars, saveVars
<1>4. SUFFICES HostFrame /\ StepFrame /\ LoopType'
  BY <1>1, <1>2, <1>3, HostFrameInv
<1>5. CASE PollPassed
  BY <1>1, <1>2, <1>5, PassedStep DEF PollPassed
<1>6. CASE VerifyConfig
  <2>1. CASE Current.keys \subseteq stored
    BY <1>1, <1>2, <1>6, <2>1, PassedStep DEF VerifyConfig
  <2>2. CASE ~(Current.keys \subseteq stored)
    <3>1. TryAgain /\ UNCHANGED messageVars
      BY <1>6, <2>2 DEF VerifyConfig
    <3> QED
      BY <1>1, <1>2, <3>1, SameLine, TryAgainLoop
  <2> QED
    BY <2>1, <2>2
<1>7. CASE SavedOrPolled
  <2>1. Current.keys = {}
    BY <1>7 DEF SavedOrPolled, Inv, PhaseMatches
  <2>2. Advance /\ UNCHANGED <<messageVars, hostPort>>
    BY <1>7 DEF SavedOrPolled
  <2> QED
    BY <1>1, <1>2, <2>1, <2>2, SameLine, AdvanceLoop
<1>8. CASE Timeout
  <2>1. faults' \in faults..hat.faults
    <3>1. faults \in 0..hat.faults /\ hat.faults \in Nat
      BY HatFacts DEF Inv, StartupTypeOK, LineType
    <3>2. faults' = faults \/ (faults < hat.faults /\ faults' = faults + 1)
      BY <1>8 DEF Timeout, Fault
    <3> QED
      BY <3>1, <3>2
  <2>2. UNCHANGED <<reqs, replies>>
    BY <1>8 DEF Timeout
  <2>3. HostFrame
    BY <1>1, <2>1, <2>2 DEF HostFrame, Inv, StartupTypeOK, LineType, ReportsTrue
  <2>4. CASE phase = "monVer"
    <3>1. Advance /\ UNCHANGED hostPort /\ Current.keys = {}
      BY <1>1, <1>8, <2>4 DEF Timeout, Inv, PhaseMatches
    <3> QED
      BY <1>1, <1>2, <2>3, <3>1, AdvanceLoop
  <2>5. CASE phase # "monVer"
    <3>1. TryAgain
      BY <1>8, <2>5 DEF Timeout
    <3> QED
      BY <1>1, <1>2, <2>3, <3>1, TryAgainLoop
  <2> QED
    BY <2>4, <2>5
<1> QED
  BY <1>5, <1>6, <1>7, <1>8

(* The steps after the last failed attempt. *)
LEMMA FailureSteps ==
    Inv /\ (GiveUp \/ NextRound \/ BackToExpected \/ NextProbe \/ NotFound) => Inv'
<1> SUFFICES ASSUME Inv, GiveUp \/ NextRound \/ BackToExpected \/ NextProbe \/ NotFound
             PROVE  Inv'
  OBVIOUS
<1>1. UNCHANGED <<hat, receiverVars, ackVars, saveVars, ok>> /\ at = "failed"
  BY DEF GiveUp, NextRound, BackToExpected, NextProbe, NotFound
<1>2. step <= Len(hat.plan) /\ ~ok
  BY <1>1 DEF Inv, PassedConfigured
<1>3. AckType' /\ SaveType' /\ stored' \subseteq Held
  BY <1>1 DEF Inv, ReportsTrue, StartupTypeOK, AckType, SaveType, ackVars, saveVars
<1>4. SUFFICES HostFrame /\ StepFrame /\ LoopType'
  BY <1>1, <1>2, <1>3, HostFrameInv
<1>5. CASE GiveUp \/ NotFound
  <2>1. UNCHANGED <<messageVars, hostPort, step, probe, rounds, tries>> /\ at' = "done"
    BY <1>5 DEF GiveUp, NotFound
  <2>2. PhaseMatches'
    BY <2>1 DEF PhaseMatches
  <2> QED
    BY <1>1, <1>2, <2>1, <2>2, SameLine, SameLoop
<1>6. CASE NextRound
  <2>1. /\ UNCHANGED <<messageVars, hostPort, step, probe>>
        /\ at' = "attempt" /\ tries' = 1 /\ rounds' = rounds + 1 /\ rounds < Tries
    BY <1>6 DEF NextRound
  <2>2. rounds' \in 1..Tries /\ tries' \in 1..Tries
    BY <2>1, TriesAssumption DEF Inv, StartupTypeOK, LoopType
  <2>3. LoopType'
    BY <1>1, <2>1, <2>2 DEF Inv, StartupTypeOK, LoopType
  <2>4. PhaseMatches'
    BY <2>1 DEF PhaseMatches
  <2> QED
    BY <1>1, <1>2, <2>1, <2>3, <2>4, SameLine DEF StepFrame
<1>7. CASE BackToExpected
  <2>1. Reinit(Expected) /\ UNCHANGED <<reqs, faults, step, probe>>
    BY <1>7 DEF BackToExpected
  <2>2. probe' \in 0..Len(hat.probed)
    BY <2>1 DEF Inv, StartupTypeOK, LoopType
  <2> QED
    BY <1>1, <1>2, <2>1, <2>2, ReinitStep
<1>8. CASE NextProbe
  <2>1. /\ Reinit(hat.probed[probe + 1]) /\ UNCHANGED <<reqs, faults, step>>
        /\ probe' = probe + 1 /\ probe < Len(hat.probed)
    BY <1>8 DEF NextProbe
  <2>2. probe \in 0..Len(hat.probed) /\ Len(hat.probed) \in Nat
    BY HatFacts DEF Inv, StartupTypeOK, LoopType
  <2>3. probe + 1 \in 1..Len(hat.probed)
    BY <2>1, <2>2
  <2>4. hat.probed[probe + 1] \in OldPorts
    BY <2>3, HatFacts, ElementOfSeq DEF Inv
  <2>5. probe' \in 0..Len(hat.probed)
    BY <2>1, <2>3
  <2> QED
    BY <1>1, <1>2, <2>1, <2>4, <2>5, ReinitStep
<1> QED
  BY <1>5, <1>6, <1>7, <1>8

(* The end of the plan. *)
LEMMA SucceedStep == Inv /\ Succeed => Inv'
<1> SUFFICES ASSUME Inv, Succeed PROVE Inv'
  OBVIOUS
<1>1. /\ UNCHANGED <<hat, ram, flash, oldPort, engine, misled, reqs, replies, faults>>
      /\ UNCHANGED <<hostPort, step, probe, rounds, tries, phase, ack, stored, mismatches>>
      /\ UNCHANGED <<shouldSave, written>>
      /\ at = "step" /\ at' = "done" /\ ok' = TRUE /\ step > Len(hat.plan)
  BY DEF Succeed, receiverVars, messageVars, ackVars, saveVars
<1>2. step = Len(hat.plan) + 1
  <2>1. step \in 1..Len(hat.plan) + 1 /\ Len(hat.plan) \in Nat
    BY HatFacts DEF Inv, StartupTypeOK, LoopType
  <2> QED
    BY <1>1, <2>1
<1>3. ReceiverType' /\ LineType' /\ LoopType' /\ AckType' /\ SaveType'
  BY <1>1 DEF Inv, StartupTypeOK, ReceiverType, LineType, LoopType, AckType, SaveType
<1>4. ReportsTrue' /\ MisledIsFault'
  BY <1>1 DEF Inv, ReportsTrue, TrueReply, Held, MisledIsFault
<1>5. PassedConfigured' /\ PhaseMatches'
  BY <1>1, <1>2 DEF Inv, PassedConfigured, PhaseMatches, Held
<1> QED
  BY <1>1, <1>3, <1>4, <1>5 DEF Inv, StartupTypeOK

LEMMA StutterStep == Inv /\ UNCHANGED startupVars => Inv'
<1> SUFFICES ASSUME Inv, UNCHANGED startupVars PROVE Inv'
  OBVIOUS
<1>1. /\ UNCHANGED <<hat, ram, flash, oldPort, engine, misled, reqs, replies, faults, ok>>
      /\ UNCHANGED <<hostPort, at, step, probe, rounds, tries, phase, ack, stored, mismatches>>
      /\ UNCHANGED <<shouldSave, written>>
  BY DEF startupVars, receiverVars, messageVars, loopVars, ackVars, saveVars
<1>2. StartupTypeOK'
  BY <1>1 DEF Inv, StartupTypeOK, ReceiverType, LineType, LoopType, AckType, SaveType
<1>3. ReportsTrue' /\ MisledIsFault'
  BY <1>1 DEF Inv, ReportsTrue, TrueReply, Held, MisledIsFault
<1>4. PassedConfigured' /\ PhaseMatches'
  BY <1>1 DEF Inv, PassedConfigured, PhaseMatches, Current, Held
<1> QED
  BY <1>2, <1>3, <1>4 DEF Inv

LEMMA NextInv == Inv /\ [StartupNext]_startupVars => Inv'
<1> SUFFICES ASSUME Inv, [StartupNext]_startupVars PROVE Inv'
  OBVIOUS
<1>1. CASE Answer \/ Refuse
  BY <1>1, ReceiverSteps
<1>2. CASE HostStep
  BY <1>2, ParseReplyStep, DropReplyStep, BeginSteps, RequestSteps, OutcomeSteps,
     FailureSteps, SucceedStep DEF HostStep
<1>3. CASE StartEnds \/ UNCHANGED startupVars
  BY <1>3, StutterStep DEF StartEnds
<1> QED
  BY <1>1, <1>2, <1>3 DEF StartupNext

(* Every variable keeps its type; in particular the indices into the plan   *)
(* and the probed ports, and the counters of try3times, keep their bounds.  *)
THEOREM StartupTypeCorrect == StartupSpec => []StartupTypeOK
<1>1. Inv => StartupTypeOK
  BY DEF Inv
<1> QED
  BY <1>1, InitInv, NextInv, PTL DEF StartupSpec

(* start() returns true only over a receiver that holds every value of the  *)
(* plan, but for those that a reply an earlier run left unread, whatever it *)
(* says, reports right although the receiver does not hold them any more    *)
(* (StartupBase::configure, awaitAck and the chains of execute()).          *)
THEOREM StartedConfigured == StartupSpec => []StartedMeansConfigured
<1>1. Inv => StartedMeansConfigured
  <2> SUFFICES ASSUME Inv, ok PROVE PlanKeys \subseteq ram \cup misled
    BY DEF StartedMeansConfigured
  <2>1. step = Len(hat.plan) + 1 /\ Len(hat.plan) \in Nat
    BY HatFacts DEF Inv, PassedConfigured
  <2>2. \A i \in 1..Len(hat.plan) : hat.plan[i].keys \subseteq Held
    BY <2>1 DEF Inv, PassedConfigured
  <2> QED
    BY <2>2 DEF PlanKeys, Held
<1> QED
  BY <1>1, InitInv, NextInv, PTL DEF StartupSpec
-----------------------------------------------------------------------------
(* What was written is saved. The hazard is an acknowledgement of a save   *)
(* that arrives late and is taken for that of a later save: it would end   *)
(* the later one although what was written since is not in flash. The line *)
(* is a queue, so this is excluded once no request or reply of a save is   *)
(* left behind the acknowledgement of what was written.                    *)

(* Reports and requests on the line, by what they are for: the replies not *)
(* read yet, and behind them the requests not served yet.                  *)
Has(q, S) == \E i \in 1..Len(q) : q[i].of \in S
Before(q, S, T) == \E i, j \in 1..Len(q) : i < j /\ q[i].of \in S /\ q[j].of \in T
LineHas(S) == Has(replies, S) \/ Has(reqs, S)
LineBefore(S, T) ==
    Before(replies, S, T) \/ Before(reqs, S, T) \/ (Has(replies, S) /\ Has(reqs, T))

Saves == {"save"}
Dialogue == {"poll", "set"}
Groups == {"port", "configure"}
Busy == at \in {"attempt", "await", "failed"}

(* What is awaited belongs to the step of the plan.                        *)
PhaseOfStep ==
    /\ at \in {"attempt", "failed"} => Current.kind \in Groups \cup {"save"}
    /\ at = "await" =>
         \/ phase \in {"poll", "set", "verify"} /\ Current.kind \in Groups
         \/ phase = "save" /\ Current.kind = "save"
         \/ phase = "monVer" /\ Current.kind = "monVer"
    /\ at = "await" /\ phase \in {"set", "verify"} => mismatches \subseteq Current.keys

(* Nothing of an earlier save is on the line once a group is acknowledged, *)
(* and nothing of a group once a save is.                                  *)
LineInOrder ==
    /\ Busy /\ Current.kind \in Groups => ~LineBefore(Dialogue, Saves)
    /\ Busy /\ Current.kind = "save" => ~LineBefore(Saves, Dialogue)
    /\ at = "await" /\ Current.kind \in Groups /\ (ack \/ phase # "poll") => ~LineHas(Saves)
    /\ at = "await" /\ Current.kind = "save" /\ ack => ~LineHas(Dialogue)
    /\ at = "step" \/ (Busy /\ Current.kind = "monVer") => ~(LineHas(Saves) /\ LineHas(Dialogue))

(* A report left over from an earlier run is read before the first VALSET is *)
(* acknowledged, so from then on every report is true.                      *)
AllTrue(q, right) == \A i \in 1..Len(q) : q[i].right \subseteq right
TrueBehindSet(q, right) ==
    \A i, j \in 1..Len(q) : i <= j /\ q[i].of = "set" => q[j].right \subseteq right
TrueOnceWritten ==
    /\ TrueBehindSet(replies, ram)
    /\ at = "await" /\ phase = "set" /\ ack => AllTrue(replies, ram)
    /\ written # {} => AllTrue(replies, ram) /\ stored \subseteq ram

(* What was written is held, but for the group in hand: its acknowledgement *)
(* may be that of an earlier VALSET.                                        *)
WrittenHeld == \A k \in written : k \in ram \/ (at # "step" /\ k \in Current.keys)

(* It is in flash when the reply to a save tells so, and the receiver holds *)
(* it when the request for one arrives.                                    *)
SaveCovers ==
    /\ flash \subseteq ram
    /\ Has(replies, Saves) => written \subseteq flash
    /\ Has(reqs, Saves) => written \subseteq ram
    /\ at = "await" /\ phase = "save" /\ ack => written \subseteq flash

(* Nothing is left to be saved while shouldSaveConfigToFlash_ is not set,  *)
(* nor behind the save of the last group.                                  *)
BehindSave == at = "step" \/ (Busy /\ Current.kind \notin Groups) \/ ok
Settled ==
    hat.save =>
        /\ ~shouldSave => written \subseteq flash
        /\ SavedBefore(hat.plan, step) /\ BehindSave => written \subseteq flash

SaveInv ==
    /\ PhaseOfStep /\ (at # "done" => LineInOrder)
    /\ TrueOnceWritten /\ WrittenHeld /\ SaveCovers /\ Settled

-----------------------------------------------------------------------------
(* Has and Before over the operations on a queue.                          *)

LEMMA RestOfQueue ==
    ASSUME NEW E, NEW q \in Seq(E), NEW n \in 0..Len(q), NEW r \in Seq(E),
           Len(r) = Len(q) - n, \A i \in 1..Len(r) : r[i] = q[i + n], NEW S, NEW T
    PROVE  (Has(r, S) => Has(q, S)) /\ (Before(r, S, T) => Before(q, S, T))
<1>1. Len(q) \in Nat /\ Len(r) \in Nat /\ n \in Nat
  BY LenProperties
<1>2. \A i \in 1..Len(r) : i + n \in 1..Len(q)
  BY <1>1
<1>3. Has(r, S) => Has(q, S)
  BY <1>2 DEF Has
<1>4. ASSUME Before(r, S, T) PROVE Before(q, S, T)
  <2>1. PICK i \in 1..Len(r), j \in 1..Len(r) : i < j /\ r[i].of \in S /\ r[j].of \in T
    BY <1>4 DEF Before
  <2>2. q[i + n].of \in S /\ q[j + n].of \in T
    BY <2>1
  <2>3. i + n < j + n
    BY <2>1, <1>1
  <2> QED
    BY <1>2, <2>2, <2>3 DEF Before
<1> QED
  BY <1>3, <1>4

LEMMA TailOfQueue ==
    ASSUME NEW E, NEW q \in Seq(E), q # <<>>, NEW S, NEW T
    PROVE  /\ (Has(Tail(q), S) => Has(q, S)) /\ (Before(Tail(q), S, T) => Before(q, S, T))
           /\ Head(q).of \in S => Has(q, S)
           /\ Head(q).of \in S /\ Has(Tail(q), T) => Before(q, S, T)
<1>1. Len(q) \in Nat \ {0} /\ Len(Tail(q)) = Len(q) - 1 /\ Tail(q) \in Seq(E)
      /\ \A i \in 1..Len(Tail(q)) : Tail(q)[i] = q[i + 1]
  BY EmptySeq, HeadTailProperties
<1>2. (Has(Tail(q), S) => Has(q, S)) /\ (Before(Tail(q), S, T) => Before(q, S, T))
  <2>1. 1 \in 0..Len(q)
    BY <1>1
  <2> QED
    BY <1>1, <2>1, RestOfQueue
<1>3. Head(q) = q[1] /\ 1 \in 1..Len(q)
  BY <1>1
<1>4. Head(q).of \in S => Has(q, S)
  BY <1>3 DEF Has
<1>5. ASSUME Head(q).of \in S, Has(Tail(q), T) PROVE Before(q, S, T)
  <2>1. PICK j \in 1..Len(Tail(q)) : Tail(q)[j].of \in T
    BY <1>5 DEF Has
  <2>2. j + 1 \in 1..Len(q) /\ 1 < j + 1 /\ q[j + 1].of \in T
    BY <1>1, <2>1
  <2> QED
    BY <1>3, <1>5, <2>2 DEF Before
<1> QED
  BY <1>2, <1>4, <1>5

LEMMA QueueAfter ==
    ASSUME NEW E, NEW q \in Seq(E), NEW r \in Seq(E), NEW of,
           \A i \in 1..Len(r) : r[i].of = of, NEW S, NEW T
    PROVE  /\ Has(q \o r, S) => Has(q, S) \/ of \in S
           /\ Before(q \o r, S, T) =>
                  Before(q, S, T) \/ (Has(q, S) /\ of \in T) \/ (of \in S /\ of \in T)
<1>1. Len(q) \in Nat /\ Len(r) \in Nat /\ Len(q \o r) = Len(q) + Len(r)
  BY LenProperties, ConcatProperties
<1>2. \A i \in 1..Len(q \o r) :
          \/ i \in 1..Len(q) /\ (q \o r)[i] = q[i]
          \/ i > Len(q) /\ (q \o r)[i].of = of
  <2> TAKE i \in 1..Len(q \o r)
  <2>1. (q \o r)[i] = IF i <= Len(q) THEN q[i] ELSE r[i - Len(q)]
    BY <1>1, ConcatProperties
  <2>2. i > Len(q) => i - Len(q) \in 1..Len(r)
    BY <1>1
  <2> QED
    BY <1>1, <2>1, <2>2
<1>3. Has(q \o r, S) => Has(q, S) \/ of \in S
  BY <1>2 DEF Has
<1>4. ASSUME Before(q \o r, S, T)
      PROVE  Before(q, S, T) \/ (Has(q, S) /\ of \in T) \/ (of \in S /\ of \in T)
  <2>1. PICK i \in 1..Len(q \o r), j \in 1..Len(q \o r) :
            i < j /\ (q \o r)[i].of \in S /\ (q \o r)[j].of \in T
    BY <1>4 DEF Before
  <2>2. CASE j \in 1..Len(q) /\ (q \o r)[j] = q[j]
    <3>1. i \in 1..Len(q) /\ (q \o r)[i] = q[i]
      BY <1>1, <1>2, <2>1, <2>2
    <3> QED
      BY <2>1, <2>2, <3>1 DEF Before
  <2>3. CASE (q \o r)[j].of = of
    <3>1. Has(q, S) \/ of \in S
      BY <1>2, <2>1 DEF Has
    <3> QED
      BY <2>1, <2>3, <3>1
  <2> QED
    BY <1>2, <2>2, <2>3
<1> QED
  BY <1>3, <1>4

-----------------------------------------------------------------------------
(* What a step does to the line: nothing gets on it or out of order but    *)
(* the request it sends.                                                   *)
Shrunk ==
    /\ LineHas(Saves)' => LineHas(Saves)
    /\ LineHas(Dialogue)' => LineHas(Dialogue)
    /\ LineBefore(Saves, Dialogue)' => LineBefore(Saves, Dialogue)
    /\ LineBefore(Dialogue, Saves)' => LineBefore(Dialogue, Saves)
    /\ Has(reqs, Saves)' => Has(reqs, Saves)

Sent(of) ==
    /\ LineHas(Saves)' => LineHas(Saves) \/ of = "save"
    /\ LineHas(Dialogue)' => LineHas(Dialogue) \/ of \in Dialogue
    /\ LineBefore(Saves, Dialogue)' =>
           LineBefore(Saves, Dialogue) \/ (LineHas(Saves) /\ of \in Dialogue)
    /\ LineBefore(Dialogue, Saves)' =>
           LineBefore(Dialogue, Saves) \/ (LineHas(Dialogue) /\ of = "save")
    /\ Has(reqs, Saves)' => Has(reqs, Saves) \/ of = "save"
    /\ Has(replies, Saves)' => Has(replies, Saves)

Requests == [of : Kinds, keys : SUBSET Keys]

LEMMA QueueTypes ==
    ASSUME StartupTypeOK
    PROVE  /\ reqs \in Seq(Requests) /\ replies \in Seq(Reply)
           /\ Len(reqs) \in Nat /\ Len(replies) \in Nat
BY LenProperties DEF StartupTypeOK, LineType, Requests

LEMMA FlushIsRest ==
    ASSUME StartupTypeOK, FlushInput
    PROVE  /\ replies' \in Seq(Reply)
           /\ \E n \in 0..Len(replies) :
                 /\ Len(replies') = Len(replies) - n
                 /\ \A i \in 1..Len(replies') : replies'[i] = replies[i + n]
<1>1. PICK n \in 0..(IF hat.flushes THEN Len(replies) ELSE 0) :
          replies' = SubSeq(replies, n + 1, Len(replies))
  BY DEF FlushInput
<1>2. Len(replies) \in Nat /\ replies \in Seq(Reply)
  BY QueueTypes
<1>3. n \in 0..Len(replies)
  BY <1>1, <1>2, HatFacts
<1>4. \A i \in n + 1..Len(replies) : replies[i] \in Reply
  BY <1>2, <1>3, ElementOfSeq
<1>5. n + 1 \in Int /\ Len(replies) \in Int
  BY <1>2, <1>3
<1>6. /\ replies' \in Seq(Reply)
      /\ Len(replies') = IF n + 1 <= Len(replies) THEN Len(replies) - (n + 1) + 1 ELSE 0
      /\ \A i \in 1..Len(replies) - (n + 1) + 1 : replies'[i] = replies[n + 1 + i - 1]
  BY <1>1, <1>4, <1>5, SubSeqProperties
<1>7. Len(replies') = Len(replies) - n
  BY <1>2, <1>3, <1>6
<1>8. \A i \in 1..Len(replies') : replies'[i] = replies[i + n]
  <2> TAKE i \in 1..Len(replies')
  <2>1. n + 1 + i - 1 = i + n /\ i \in 1..Len(replies) - (n + 1) + 1
    BY <1>2, <1>3, <1>7
  <2> QED
    BY <1>6, <2>1
<1> QED
  BY <1>3, <1>6, <1>7, <1>8

LEMMA FlushShrinks ==
    ASSUME StartupTypeOK, FlushInput, NEW S, NEW T
    PROVE  /\ replies' \in Seq(Reply)
           /\ (Has(replies', S) => Has(replies, S)) /\ (Before(replies', S, T) => Before(replies, S, T))
<1>1. replies \in Seq(Reply)
  BY QueueTypes
<1>2. PICK n \in 0..Len(replies) :
          /\ Len(replies') = Len(replies) - n
          /\ \A i \in 1..Len(replies') : replies'[i] = replies[i + n]
  BY FlushIsRest
<1> QED
  BY <1>1, <1>2, FlushIsRest, RestOfQueue

(* A line whose replies lost their head or were flushed, and whose requests *)
(* stay or lost their head.                                                *)
LEMMA FlushedLine ==
    ASSUME StartupTypeOK, FlushInput, UNCHANGED reqs
    PROVE  Shrunk /\ (Has(replies, Saves)' => Has(replies, Saves))
<1>1. \A S \in SUBSET Kinds, T \in SUBSET Kinds :
          /\ (Has(replies', S) => Has(replies, S))
          /\ (Before(replies', S, T) => Before(replies, S, T))
  BY FlushShrinks
<1>2. Saves \in SUBSET Kinds /\ Dialogue \in SUBSET Kinds
  BY DEF Saves, Dialogue, Kinds
<1>3. /\ Has(replies', Saves) => Has(replies, Saves)
      /\ Has(replies', Dialogue) => Has(replies, Dialogue)
      /\ Before(replies', Saves, Dialogue) => Before(replies, Saves, Dialogue)
      /\ Before(replies', Dialogue, Saves) => Before(replies, Dialogue, Saves)
  BY <1>1, <1>2
<1> QED
  BY <1>3 DEF Shrunk, LineHas, LineBefore

LEMMA ReadLine ==
    ASSUME StartupTypeOK, replies # <<>>, replies' = Tail(replies), UNCHANGED reqs
    PROVE  Shrunk /\ (Has(replies, Saves)' => Has(replies, Saves))
<1>1. replies \in Seq(Reply)
  BY QueueTypes
<1>2. \A S \in SUBSET Kinds, T \in SUBSET Kinds :
          /\ (Has(replies', S) => Has(replies, S))
          /\ (Before(replies', S, T) => Before(replies, S, T))
  BY <1>1, TailOfQueue
<1>3. Saves \in SUBSET Kinds /\ Dialogue \in SUBSET Kinds
  BY DEF Saves, Dialogue, Kinds
<1>4. /\ Has(replies', Saves) => Has(replies, Saves)
      /\ Has(replies', Dialogue) => Has(replies, Dialogue)
      /\ Before(replies', Saves, Dialogue) => Before(replies, Saves, Dialogue)
      /\ Before(replies', Dialogue, Saves) => Before(replies, Dialogue, Saves)
  BY <1>2, <1>3
<1> QED
  BY <1>4 DEF Shrunk, LineHas, LineBefore

LEMMA LostRequest ==
    ASSUME StartupTypeOK, reqs # <<>>, reqs' = Tail(reqs), UNCHANGED replies
    PROVE  Shrunk /\ (Has(replies, Saves)' => Has(replies, Saves))
<1>1. reqs \in Seq(Requests)
  BY QueueTypes
<1>2. \A S \in SUBSET Kinds, T \in SUBSET Kinds :
          /\ (Has(reqs', S) => Has(reqs, S))
          /\ (Before(reqs', S, T) => Before(reqs, S, T))
  BY <1>1, TailOfQueue
<1>3. Saves \in SUBSET Kinds /\ Dialogue \in SUBSET Kinds
  BY DEF Saves, Dialogue, Kinds
<1>4. /\ Has(reqs', Saves) => Has(reqs, Saves)
      /\ Has(reqs', Dialogue) => Has(reqs, Dialogue)
      /\ Before(reqs', Saves, Dialogue) => Before(reqs, Saves, Dialogue)
      /\ Before(reqs', Dialogue, Saves) => Before(reqs, Dialogue, Saves)
  BY <1>2, <1>3
<1> QED
  BY <1>4 DEF Shrunk, LineHas, LineBefore

(* Every reply to a request is for what the request is for.                *)
LEMMA RepliesForRequest ==
    ASSUME StartupTypeOK, NEW req \in Requests
    PROVE  /\ RepliesTo(req) \in Seq(Reply)
           /\ \A i \in 1..Len(RepliesTo(req)) : RepliesTo(req)[i].of = req.of
<1>1. RepliesTo(req) \in Seq(Reply)
  BY RepliesToTrue, TrueRepliesAreReplies DEF Requests
<1>2. CASE req.of = "poll"
  <2>1. RepliesTo(req) = << Values(req.keys, req.keys \cap ram), Ack("poll") >>
    BY <1>2 DEF RepliesTo
  <2>2. Values(req.keys, req.keys \cap ram).of = "poll" /\ Ack("poll").of = "poll"
    BY DEF Values, Ack
  <2> QED
    BY <1>1, <1>2, <2>1, <2>2
<1>3. CASE req.of = "startGnss"
  <2>1. RepliesTo(req) = << >>
    BY <1>3 DEF RepliesTo
  <2> QED
    BY <1>1, <2>1
<1>4. CASE req.of # "poll" /\ req.of # "startGnss"
  <2>1. RepliesTo(req) = << Ack(req.of) >>
    BY <1>4 DEF RepliesTo
  <2>2. Ack(req.of).of = req.of
    BY DEF Ack
  <2> QED
    BY <1>1, <2>1, <2>2
<1> QED
  BY <1>2, <1>3, <1>4

(* A request turns into its replies where it stands on the line.           *)
LEMMA AnsweredLine ==
    ASSUME StartupTypeOK, Answer
    PROVE  Shrunk /\ (Has(replies, Saves)' => Has(replies, Saves) \/ Head(reqs).of = "save")
<1> DEFINE req == Head(reqs)
<1>1. reqs \in Seq(Requests) /\ replies \in Seq(Reply) /\ reqs # <<>> /\ reqs' = Tail(reqs)
  BY QueueTypes DEF Answer
<1>2. req \in Requests
  BY <1>1, HeadTailProperties
<1>3. replies' = replies \o RepliesTo(req) \/ replies' = replies
  BY DEF Answer
<1>4. ASSUME NEW S \in SUBSET Kinds, NEW T \in SUBSET Kinds, S \cap T = {}
      PROVE  /\ Has(reqs', S) => Has(reqs, S)
             /\ Has(replies', S) => Has(replies, S) \/ (req.of \in S /\ Has(reqs, S))
             /\ LineHas(S)' => LineHas(S)
             /\ LineBefore(S, T)' => LineBefore(S, T)
  <2>1. /\ Has(reqs', S) => Has(reqs, S)
        /\ Before(reqs', S, T) => Before(reqs, S, T)
        /\ req.of \in S => Has(reqs, S)
        /\ req.of \in S /\ Has(reqs', T) => Before(reqs, S, T)
    BY <1>1, TailOfQueue
  <2>2. /\ Has(reqs', T) => Has(reqs, T)
        /\ req.of \in T => Has(reqs, T)
    BY <1>1, TailOfQueue
  <2>3. /\ Has(replies', S) => Has(replies, S) \/ req.of \in S
        /\ Before(replies', S, T) => Before(replies, S, T) \/ (Has(replies, S) /\ req.of \in T)
    <3>1. CASE replies' = replies
      BY <3>1
    <3>2. CASE replies' = replies \o RepliesTo(req)
      <4>1. /\ RepliesTo(req) \in Seq(Reply)
            /\ \A i \in 1..Len(RepliesTo(req)) : RepliesTo(req)[i].of = req.of
        BY <1>2, RepliesForRequest
      <4>2. /\ Has(replies \o RepliesTo(req), S) => Has(replies, S) \/ req.of \in S
            /\ Before(replies \o RepliesTo(req), S, T) =>
                  \/ Before(replies, S, T) \/ (Has(replies, S) /\ req.of \in T)
                  \/ (req.of \in S /\ req.of \in T)
        BY <1>1, <4>1, QueueAfter
      <4>3. ~(req.of \in S /\ req.of \in T)
        BY <1>4
      <4> QED
        BY <3>2, <4>2, <4>3
    <3> QED
      BY <1>3, <3>1, <3>2
  <2> QED
    BY <2>1, <2>2, <2>3 DEF LineHas, LineBefore
<1>5. Saves \in SUBSET Kinds /\ Dialogue \in SUBSET Kinds /\ Saves \cap Dialogue = {}
      /\ Dialogue \cap Saves = {}
  BY DEF Saves, Dialogue, Kinds
<1>6. req.of \in Saves => req.of = "save"
  BY DEF Saves
<1> HIDE DEF req
<1>7. /\ Has(reqs', Saves) => Has(reqs, Saves)
      /\ Has(replies', Saves) => Has(replies, Saves) \/ req.of \in Saves
      /\ LineHas(Saves)' => LineHas(Saves)
      /\ LineBefore(Saves, Dialogue)' => LineBefore(Saves, Dialogue)
  BY <1>4, <1>5
<1>8. /\ LineHas(Dialogue)' => LineHas(Dialogue)
      /\ LineBefore(Dialogue, Saves)' => LineBefore(Dialogue, Saves)
  BY <1>4, <1>5
<1> QED
  BY <1>6, <1>7, <1>8 DEF Shrunk, req

LEMMA SentLine ==
    ASSUME StartupTypeOK, NEW of \in Kinds, NEW keys \in SUBSET Keys, Transmit(Request(of, keys))
    PROVE  Sent(of)
<1>1. reqs \in Seq(Requests) /\ replies \in Seq(Reply) /\ FlushInput
  BY QueueTypes DEF Transmit
<1>2. ASSUME NEW S \in SUBSET Kinds, NEW T \in SUBSET Kinds, S \cap T = {}
      PROVE  /\ Has(reqs', S) => Has(reqs, S) \/ of \in S
             /\ Has(replies', S) => Has(replies, S)
             /\ LineHas(S)' => LineHas(S) \/ of \in S
             /\ LineBefore(S, T)' => LineBefore(S, T) \/ (LineHas(S) /\ of \in T)
  <2>1. /\ Has(replies', S) => Has(replies, S)
        /\ Before(replies', S, T) => Before(replies, S, T)
    BY <1>1, FlushShrinks
  <2>2. /\ Has(reqs', S) => Has(reqs, S) \/ of \in S
        /\ Has(reqs', T) => Has(reqs, T) \/ of \in T
        /\ Before(reqs', S, T) => Before(reqs, S, T) \/ (Has(reqs, S) /\ of \in T)
    <3>1. CASE reqs' = reqs
      BY <3>1
    <3>2. CASE reqs' = Append(reqs, Request(of, keys))
      <4>1. Request(of, keys) \in Requests /\ Request(of, keys).of = of
        BY DEF Request, Requests
      <4>2. reqs' = reqs \o << Request(of, keys) >>
        BY <1>1, <3>2, <4>1, AppendIsConcat
      <4>3. /\ << Request(of, keys) >> \in Seq(Requests)
            /\ \A i \in 1..Len(<< Request(of, keys) >>) : << Request(of, keys) >>[i].of = of
        BY <4>1
      <4>4. \A U \in SUBSET Kinds, V \in SUBSET Kinds :
                /\ Has(reqs', U) => Has(reqs, U) \/ of \in U
                /\ Before(reqs', U, V) =>
                      Before(reqs, U, V) \/ (Has(reqs, U) /\ of \in V) \/ (of \in U /\ of \in V)
        BY <1>1, <4>2, <4>3, QueueAfter
      <4>5. ~(of \in S /\ of \in T)
        BY <1>2
      <4> QED
        BY <4>4, <4>5
    <3> QED
      BY <3>1, <3>2 DEF Transmit
  <2> QED
    BY <2>1, <2>2 DEF LineHas, LineBefore
<1>3. Saves \in SUBSET Kinds /\ Dialogue \in SUBSET Kinds /\ Saves \cap Dialogue = {}
      /\ Dialogue \cap Saves = {}
  BY DEF Saves, Dialogue, Kinds
<1>4. /\ Has(reqs', Saves) => Has(reqs, Saves) \/ of \in Saves
      /\ Has(replies', Saves) => Has(replies, Saves)
      /\ LineHas(Saves)' => LineHas(Saves) \/ of \in Saves
      /\ LineBefore(Saves, Dialogue)' =>
            LineBefore(Saves, Dialogue) \/ (LineHas(Saves) /\ of \in Dialogue)
  BY <1>2, <1>3
<1>5. /\ LineHas(Dialogue)' => LineHas(Dialogue) \/ of \in Dialogue
      /\ LineBefore(Dialogue, Saves)' =>
            LineBefore(Dialogue, Saves) \/ (LineHas(Dialogue) /\ of \in Saves)
  BY <1>2, <1>3
<1>6. of \in Saves => of = "save"
  BY DEF Saves
<1> QED
  BY <1>4, <1>5, <1>6 DEF Sent

LEMMA SameQueues == UNCHANGED <<reqs, replies>> => Shrunk /\ (Has(replies, Saves)' => Has(replies, Saves))
BY DEF Shrunk, LineHas, LineBefore

(* Reading the acknowledgement of one kind leaves nothing of the other.    *)
LEMMA ReadHead ==
    ASSUME StartupTypeOK, replies # <<>>, replies' = Tail(replies), UNCHANGED reqs
    PROVE  /\ Head(replies).of \in Dialogue /\ ~LineBefore(Dialogue, Saves) => ~LineHas(Saves)'
           /\ Head(replies).of = "save" /\ ~LineBefore(Saves, Dialogue) => ~LineHas(Dialogue)'
           /\ Head(replies).of = "save" => Has(replies, Saves)
<1>1. replies \in Seq(Reply)
  BY QueueTypes
<1>2. \A S \in SUBSET Kinds, T \in SUBSET Kinds :
          /\ Head(replies).of \in S => Has(replies, S)
          /\ Head(replies).of \in S /\ Has(Tail(replies), T) => Before(replies, S, T)
  BY <1>1, TailOfQueue
<1>3. Saves \in SUBSET Kinds /\ Dialogue \in SUBSET Kinds /\ "save" \in Saves
  BY DEF Saves, Dialogue, Kinds
<1>4. /\ Head(replies).of \in Dialogue => Has(replies, Dialogue)
      /\ Head(replies).of \in Dialogue /\ Has(replies', Saves) => Before(replies, Dialogue, Saves)
  BY <1>2, <1>3
<1>5. /\ Head(replies).of = "save" => Has(replies, Saves)
      /\ Head(replies).of = "save" /\ Has(replies', Dialogue) => Before(replies, Saves, Dialogue)
  BY <1>2, <1>3
<1> QED
  BY <1>4, <1>5 DEF LineHas, LineBefore

-----------------------------------------------------------------------------
(* The invariant, part by part.                                            *)

(* An earlier run leaves replies to polls only.                             *)
LEMMA LeftoversArePolls == StartupInit => \A i \in 1..Len(replies) : replies[i].of = "poll"
<1> SUFFICES ASSUME NEW r \in Leftovers PROVE \A i \in 1..Len(r) : r[i].of = "poll"
  BY DEF StartupInit
<1>1. CASE r \in {<<>>, <<Ack("poll")>>}
  BY <1>1 DEF Ack
<1>2. ASSUME NEW keys \in PolledGroups, NEW right \in SUBSET keys,
             r = <<Values(keys, right), Ack("poll")>>
      PROVE  \A i \in 1..Len(r) : r[i].of = "poll"
  BY <1>2 DEF Ack, Values
<1> QED
  BY <1>1, <1>2 DEF Leftovers

LEMMA InitSave == StartupInit => SaveInv
<1> SUFFICES ASSUME StartupInit PROVE SaveInv
  OBVIOUS
<1>1. reqs = <<>> /\ at = "step" /\ written = {} /\ flash \subseteq ram /\ ~ack
  BY DEF StartupInit
<1>2. ~Has(reqs, Saves) /\ ~Has(replies, Saves)
  BY LeftoversArePolls DEF StartupInit, Has, Saves
<1>3. TrueOnceWritten
  BY <1>1, LeftoversArePolls DEF StartupInit, TrueOnceWritten, TrueBehindSet
<1> QED
  BY <1>1, <1>2, <1>3 DEF SaveInv, PhaseOfStep, LineInOrder, WrittenHeld, SaveCovers, Settled,
     Busy, LineHas

(* What stands before or behind something stands on the line.              *)
LEMMA BeforeHas ==
    /\ LineBefore(Saves, Dialogue)' => LineHas(Saves)' /\ LineHas(Dialogue)'
    /\ LineBefore(Dialogue, Saves)' => LineHas(Saves)' /\ LineHas(Dialogue)'
BY DEF LineBefore, LineHas, Before, Has

(* The loop's moves: within a step of the plan, or on to the next one.     *)
LEMMA PhaseStep ==
    ASSUME Inv, PhaseOfStep, [StartupNext]_startupVars
    PROVE  PhaseOfStep'
<1> USE DEF PhaseOfStep, Current, Groups
<1>1. CASE Answer \/ Refuse \/ DropReply
  BY <1>1 DEF Answer, Refuse, DropReply, loopVars, ackVars
<1>2. CASE ParseReply
  BY <1>2 DEF ParseReply, loopVars
<1>3. CASE BeginConfigure \/ BeginSave \/ DontSave
  BY <1>3 DEF BeginConfigure, BeginSave, DontSave, AtStep, Advance, ackVars
<1>4. CASE SendGnssEngineStart
  BY <1>4 DEF SendGnssEngineStart, Advance
<1>5. CASE PollMonVer
  BY <1>5 DEF PollMonVer, AtStep, Await
<1>6. CASE Attempt
  BY <1>6 DEF Attempt, Await
<1>7. CASE PollPassed \/ VerifyConfig
  <2>1. UNCHANGED <<hat, phase, mismatches>> /\ (Passed \/ TryAgain)
        /\ at = "await" /\ phase \in {"poll", "verify"}
    BY <1>7 DEF PollPassed, VerifyConfig, ackVars
  <2>2. at' \in {"step", "attempt", "failed"} /\ (at' = "step" \/ UNCHANGED step)
    BY <2>1 DEF Passed, Reinit, Advance, TryAgain
  <2> QED
    BY <2>1, <2>2
<1>8. CASE WriteMismatches
  BY <1>8 DEF WriteMismatches, Await
<1>9. CASE PollAgain
  BY <1>9 DEF PollAgain, loopVars
<1>10. CASE SavedOrPolled
  BY <1>10 DEF SavedOrPolled, Advance
<1>11. CASE Timeout
  BY <1>11 DEF Timeout, Advance, TryAgain, ackVars
<1>12. CASE GiveUp \/ NotFound \/ Succeed
  BY <1>12 DEF GiveUp, NotFound, Succeed
<1>13. CASE NextRound \/ BackToExpected \/ NextProbe
  BY <1>13 DEF NextRound, BackToExpected, NextProbe, Reinit
<1>14. CASE StartEnds \/ UNCHANGED startupVars
  BY <1>14 DEF StartEnds, startupVars, loopVars, ackVars
<1> QED
  BY <1>1, <1>2, <1>3, <1>4, <1>5, <1>6, <1>7, <1>8, <1>9, <1>10, <1>11, <1>12, <1>13, <1>14
     DEF StartupNext, HostStep

(* Neither an acknowledgement nor a request overtakes the other kind.      *)
LEMMA LineStep ==
    ASSUME Inv, PhaseOfStep, at # "done" => LineInOrder, [StartupNext]_startupVars
    PROVE  at' # "done" => LineInOrder'
<1> USE DEF PhaseOfStep, LineInOrder, Busy, Current, Groups
<1>0. StartupTypeOK
  BY DEF Inv
<1>1. CASE Answer
  <2>1. Shrunk /\ UNCHANGED <<hat, step, at, phase, ack>>
    BY <1>0, <1>1, AnsweredLine DEF Answer, loopVars, ackVars
  <2> QED
    BY <2>1 DEF Shrunk
<1>2. CASE Refuse \/ DropReply
  <2>1. Shrunk /\ UNCHANGED <<hat, step, at, phase, ack>>
    BY <1>0, <1>2, LostRequest, ReadLine DEF Refuse, DropReply, loopVars, ackVars
  <2> QED
    BY <2>1 DEF Shrunk
<1>3. CASE ParseReply
  <2>1. /\ UNCHANGED <<hat, step, at, phase, reqs>> /\ at = "await"
        /\ replies # <<>> /\ replies' = Tail(replies)
        /\ ack' = (ack \/ (/\ Head(replies).type = "ack"
                           /\ Head(replies).of = (IF phase = "verify" THEN "poll" ELSE phase)))
    BY <1>3 DEF ParseReply, loopVars
  <2>2. /\ Head(replies).of \in Dialogue /\ ~LineBefore(Dialogue, Saves) => ~LineHas(Saves)'
        /\ Head(replies).of = "save" /\ ~LineBefore(Saves, Dialogue) => ~LineHas(Dialogue)'
        /\ Shrunk
    BY <1>0, <2>1, ReadHead, ReadLine
  <2>3. phase \in {"poll", "set", "verify"} =>
            (IF phase = "verify" THEN "poll" ELSE phase) \in Dialogue
    BY DEF Dialogue
  <2> QED
    BY <2>1, <2>2, <2>3 DEF Shrunk
<1>4. CASE BeginConfigure \/ BeginSave
  <2>1. Shrunk
    BY <1>4, SameQueues DEF BeginConfigure, BeginSave, messageVars
  <2>2. /\ at = "step" /\ UNCHANGED hat
        /\ at' = "step" \/ (at' = "attempt" /\ UNCHANGED step /\ Current.kind \in Groups \cup {"save"})
    BY <1>4 DEF BeginConfigure, BeginSave, AtStep, Advance
  <2>3. ~(LineHas(Saves)' /\ LineHas(Dialogue)')
    BY <2>1, <2>2 DEF Shrunk
  <2>4. ~LineBefore(Dialogue, Saves)' /\ ~LineBefore(Saves, Dialogue)'
    BY <2>3, BeforeHas
  <2> QED
    BY <2>2, <2>3, <2>4
<1>5. CASE DontSave
  <2>1. Shrunk
    BY <1>5, SameQueues DEF DontSave, messageVars
  <2> QED
    BY <1>5, <2>1 DEF DontSave, AtStep, Advance, Shrunk
<1>6. CASE SendGnssEngineStart
  <2>1. Sent("startGnss")
    BY <1>0, <1>6, SentLine DEF SendGnssEngineStart, Kinds
  <2> QED
    BY <1>6, <2>1 DEF SendGnssEngineStart, AtStep, Advance, Sent, Dialogue
<1>7. CASE PollMonVer
  <2>1. Sent("monVer")
    BY <1>0, <1>7, SentLine DEF PollMonVer, Await, Kinds
  <2> QED
    BY <1>7, <2>1 DEF PollMonVer, Await, AtStep, Sent, Dialogue
<1>8. CASE Attempt
  <2>1. UNCHANGED <<hat, step>> /\ at = "attempt" /\ at' = "await" /\ ack' = FALSE
    BY <1>8 DEF Attempt, Await
  <2>2. CASE Current.kind = "save"
    <3>1. Sent("save")
      BY <1>0, <1>8, <2>2, SentLine DEF Attempt, Await, Kinds
    <3> QED
      BY <2>1, <2>2, <3>1 DEF Sent, Dialogue
  <2>3. CASE Current.kind # "save"
    <3>1. Await("poll", Current.keys) /\ Current.keys \in SUBSET Keys
      BY <1>0, <1>8, <2>1, <2>3, CurrentType DEF Attempt, Inv, PassedConfigured
    <3>2. Sent("poll")
      BY <1>0, <3>1, SentLine DEF Await, Kinds
    <3>3. phase' = "poll"
      BY <3>1 DEF Await
    <3> QED
      BY <2>1, <2>3, <3>2, <3>3 DEF Sent
  <2> QED
    BY <2>2, <2>3
<1>9. CASE PollPassed \/ VerifyConfig
  <2>1. UNCHANGED <<hat>> /\ at = "await" /\ ack /\ phase \in {"poll", "verify"}
    BY <1>9 DEF PollPassed, VerifyConfig
  <2>2. ~LineHas(Saves) /\ Current.kind \in Groups
    BY <2>1
  <2>3. Shrunk
    <3>1. UNCHANGED messageVars \/ (FlushInput /\ UNCHANGED reqs)
      BY <1>9 DEF PollPassed, VerifyConfig, Passed, Reinit
    <3> QED
      BY <1>0, <3>1, SameQueues, FlushedLine DEF messageVars
  <2>4. at' = "step" \/ (at' \in {"attempt", "failed"} /\ UNCHANGED step)
    BY <1>9 DEF PollPassed, VerifyConfig, Passed, Reinit, Advance, TryAgain
  <2>5. ~LineHas(Saves)'
    BY <2>2, <2>3 DEF Shrunk
  <2>6. ~LineBefore(Dialogue, Saves)'
    BY <2>5, BeforeHas
  <2> QED
    BY <2>1, <2>2, <2>4, <2>5, <2>6
<1>10. CASE WriteMismatches \/ PollAgain
  <2>1. /\ UNCHANGED <<hat, step>> /\ at = "await" /\ at' = "await" /\ ack /\ ack' = FALSE
        /\ phase \in {"poll", "set"}
    BY <1>10 DEF WriteMismatches, PollAgain, Await, loopVars
  <2>2. ~LineHas(Saves) /\ Current.kind \in Groups
    BY <2>1
  <2>3. \E of \in {"set", "poll"} : Sent(of)
    <3>1. Current.keys \in SUBSET Keys
      BY <1>0, <2>1, CurrentType DEF Inv, PassedConfigured
    <3>2. \E of \in {"set", "poll"}, keys \in SUBSET Keys : Transmit(Request(of, keys))
      BY <1>10, <3>1 DEF WriteMismatches, PollAgain, Await
    <3> QED
      BY <1>0, <3>2, SentLine DEF Kinds
  <2>4. ~LineHas(Saves)'
    BY <2>2, <2>3 DEF Sent
  <2>5. ~LineBefore(Dialogue, Saves)'
    BY <2>4, BeforeHas
  <2> QED
    BY <2>1, <2>2, <2>4, <2>5
<1>11. CASE SavedOrPolled
  <2>1. Shrunk
    BY <1>11, SameQueues DEF SavedOrPolled, messageVars
  <2>2. at = "await" /\ ack /\ phase \in {"save", "monVer"} /\ at' = "step"
    BY <1>11 DEF SavedOrPolled, Advance
  <2>3. ~(LineHas(Saves) /\ LineHas(Dialogue))
    BY <2>2
  <2> QED
    BY <2>1, <2>2, <2>3 DEF Shrunk
<1>12. CASE Timeout
  <2>1. Shrunk
    BY <1>12, SameQueues DEF Timeout
  <2>2. /\ at = "await" /\ UNCHANGED hat
        /\ \/ phase = "monVer" /\ at' = "step"
           \/ at' \in {"attempt", "failed"} /\ UNCHANGED step
    BY <1>12 DEF Timeout, Advance, TryAgain
  <2> QED
    BY <2>1, <2>2 DEF Shrunk
<1>13. CASE GiveUp \/ NotFound \/ Succeed
  BY <1>13 DEF GiveUp, NotFound, Succeed
<1>14. CASE NextRound \/ BackToExpected \/ NextProbe
  <2>1. Shrunk
    <3>1. UNCHANGED messageVars \/ (FlushInput /\ UNCHANGED reqs)
      BY <1>14 DEF NextRound, BackToExpected, NextProbe, Reinit
    <3> QED
      BY <1>0, <3>1, SameQueues, FlushedLine DEF messageVars
  <2>2. UNCHANGED <<hat, step>> /\ at = "failed" /\ at' = "attempt"
    BY <1>14 DEF NextRound, BackToExpected, NextProbe, Reinit
  <2> QED
    BY <2>1, <2>2 DEF Shrunk
<1>15. CASE StartEnds \/ UNCHANGED startupVars
  <2>1. UNCHANGED <<hat, step, at, phase, ack, reqs, replies>>
    BY <1>15 DEF StartEnds, startupVars, messageVars, loopVars, ackVars
  <2>2. Shrunk
    BY <2>1, SameQueues
  <2> QED
    BY <2>1, <2>2 DEF Shrunk
<1> QED
  BY <1>1, <1>2, <1>3, <1>4, <1>5, <1>6, <1>7, <1>8, <1>9, <1>10, <1>11, <1>12, <1>13, <1>14,
     <1>15 DEF StartupNext, HostStep

(* What is left of a queue of true reports is true, and so is one with true *)
(* reports behind it.                                                       *)
LEMMA RestIsTrue ==
    ASSUME NEW E, NEW q \in Seq(E), NEW n \in 0..Len(q), NEW r \in Seq(E),
           Len(r) = Len(q) - n, \A i \in 1..Len(r) : r[i] = q[i + n], NEW R
    PROVE  (AllTrue(q, R) => AllTrue(r, R)) /\ (TrueBehindSet(q, R) => TrueBehindSet(r, R))
<1>1. Len(q) \in Nat /\ Len(r) \in Nat /\ n \in Nat
  BY LenProperties
<1>2. \A i \in 1..Len(r) : i + n \in 1..Len(q)
  BY <1>1
<1>3. AllTrue(q, R) => AllTrue(r, R)
  BY <1>2 DEF AllTrue
<1>4. ASSUME TrueBehindSet(q, R), NEW i \in 1..Len(r), NEW j \in 1..Len(r),
             i <= j, r[i].of = "set"
      PROVE  r[j].right \subseteq R
  <2>1. i + n \in 1..Len(q) /\ j + n \in 1..Len(q) /\ i + n <= j + n
    BY <1>1, <1>2, <1>4
  <2>2. r[i] = q[i + n] /\ r[j] = q[j + n]
    BY <1>4
  <2> QED
    BY <1>4, <2>1, <2>2 DEF TrueBehindSet
<1> QED
  BY <1>3, <1>4 DEF TrueBehindSet

LEMMA MoreIsTrue ==
    ASSUME NEW E, NEW q \in Seq(E), NEW w \in Seq(E), NEW R, AllTrue(w, R)
    PROVE  /\ AllTrue(q, R) => AllTrue(q \o w, R)
           /\ TrueBehindSet(q, R) => TrueBehindSet(q \o w, R)
<1>1. /\ Len(q) \in Nat /\ Len(w) \in Nat /\ Len(q \o w) = Len(q) + Len(w)
      /\ \A i \in 1..Len(q) + Len(w) :
            (q \o w)[i] = IF i <= Len(q) THEN q[i] ELSE w[i - Len(q)]
  BY ConcatProperties, LenProperties
<1>2. ASSUME NEW i \in 1..Len(q \o w), i > Len(q) PROVE (q \o w)[i].right \subseteq R
  <2>1. i - Len(q) \in 1..Len(w) /\ (q \o w)[i] = w[i - Len(q)]
    BY <1>1, <1>2
  <2> QED
    BY <2>1 DEF AllTrue
<1>3. AllTrue(q, R) => AllTrue(q \o w, R)
  BY <1>1, <1>2 DEF AllTrue
<1>4. ASSUME TrueBehindSet(q, R), NEW i \in 1..Len(q \o w), NEW j \in 1..Len(q \o w),
             i <= j, (q \o w)[i].of = "set"
      PROVE  (q \o w)[j].right \subseteq R
  <2>1. CASE j > Len(q)
    BY <1>2, <2>1
  <2>2. CASE j <= Len(q)
    <3>1. i \in 1..Len(q) /\ j \in 1..Len(q) /\ (q \o w)[i] = q[i] /\ (q \o w)[j] = q[j]
      BY <1>1, <1>4, <2>2
    <3> QED
      BY <1>4, <3>1 DEF TrueBehindSet
  <2> QED
    BY <1>1, <2>1, <2>2
<1> QED
  BY <1>3, <1>4 DEF TrueBehindSet

(* No step puts a report on the line that is not true.                      *)
LEMMA ReportsStep ==
    ASSUME StartupTypeOK, [StartupNext]_startupVars
    PROVE  /\ ram \subseteq ram'
           /\ AllTrue(replies, ram) => AllTrue(replies, ram)'
           /\ TrueBehindSet(replies, ram) => TrueBehindSet(replies, ram)'
<1>1. replies \in Seq(Reply)
  BY QueueTypes
<1>2. ram \subseteq ram'
  BY DEF StartupNext, HostStep, Answer, Refuse, ParseReply, DropReply, BeginConfigure, BeginSave,
     DontSave, SendGnssEngineStart, PollMonVer, Attempt, PollPassed, WriteMismatches, PollAgain,
     VerifyConfig, SavedOrPolled, Timeout, GiveUp, NextRound, BackToExpected, NextProbe,
     NotFound, Succeed, StartEnds, startupVars, receiverVars
<1>3. /\ AllTrue(replies, ram) => AllTrue(replies, ram')
      /\ TrueBehindSet(replies, ram) => TrueBehindSet(replies, ram')
  BY <1>2 DEF AllTrue, TrueBehindSet
<1>4. SUFFICES /\ AllTrue(replies, ram') => AllTrue(replies', ram')
               /\ TrueBehindSet(replies, ram') => TrueBehindSet(replies', ram')
  BY <1>2, <1>3
<1>5. CASE replies' = replies
  BY <1>5
<1>6. CASE Answer
  <2>1. reqs \in Seq(Requests) /\ reqs # <<>>
    BY <1>6, QueueTypes DEF Answer
  <2>2. Head(reqs) \in Requests
    BY <2>1, HeadTailProperties
  <2>3. RepliesTo(Head(reqs)) \in Seq(Reply)
    BY <2>2, RepliesForRequest
  <2>4. AllTrue(RepliesTo(Head(reqs)), ram')
    BY <1>2 DEF AllTrue, RepliesTo, Values, Ack
  <2>5. replies' = replies \o RepliesTo(Head(reqs)) \/ replies' = replies
    BY <1>6 DEF Answer
  <2> QED
    BY <1>1, <1>5, <2>3, <2>4, <2>5, MoreIsTrue
<1>7. CASE FlushInput
  BY <1>1, <1>7, FlushIsRest, RestIsTrue
<1>8. CASE replies # <<>> /\ replies' = Tail(replies)
  <2>1. /\ Len(replies) \in Nat /\ 1 \in 0..Len(replies) /\ Tail(replies) \in Seq(Reply)
        /\ Len(Tail(replies)) = Len(replies) - 1
        /\ \A i \in 1..Len(Tail(replies)) : Tail(replies)[i] = replies[i + 1]
    BY <1>1, <1>8, EmptySeq, HeadTailProperties
  <2> QED
    BY <1>1, <1>8, <2>1, RestIsTrue
<1> QED
  BY <1>5, <1>6, <1>7, <1>8 DEF StartupNext, HostStep, Refuse, ParseReply, DropReply, BeginConfigure,
     BeginSave, DontSave, SendGnssEngineStart, PollMonVer, Attempt, PollPassed, WriteMismatches,
     PollAgain, VerifyConfig, SavedOrPolled, Timeout, GiveUp, NextRound, BackToExpected,
     NextProbe, NotFound, Succeed, StartEnds, startupVars, messageVars, Await, Transmit, Passed, Reinit

LEMMA TrueStep ==
    ASSUME StartupTypeOK, TrueOnceWritten, [StartupNext]_startupVars
    PROVE  TrueOnceWritten'
<1>1. /\ ram \subseteq ram' /\ TrueBehindSet(replies, ram)'
      /\ AllTrue(replies, ram) => AllTrue(replies, ram)'
  BY ReportsStep DEF TrueOnceWritten
<1>2. CASE ParseReply
  <2>1. /\ UNCHANGED <<ram, at, phase, written>> /\ replies # <<>>
        /\ ack' => ack \/ Head(replies).of = (IF phase = "verify" THEN "poll" ELSE phase)
        /\ stored' = (stored \ Head(replies).keys) \cup Head(replies).right
    BY <1>2 DEF ParseReply, receiverVars, loopVars, saveVars
  <2>2. replies \in Seq(Reply) /\ Len(replies) \in Nat \ {0} /\ Head(replies) = replies[1]
    BY <2>1, QueueTypes, EmptySeq, HeadTailProperties
  <2>3. Head(replies).of = "set" => AllTrue(replies, ram)
    <3>1. 1 \in 1..Len(replies) /\ \A j \in 1..Len(replies) : 1 <= j
      BY <2>2
    <3> QED
      BY <2>2, <3>1 DEF TrueOnceWritten, TrueBehindSet, AllTrue
  <2>4. AllTrue(replies, ram) => Head(replies).right \subseteq ram
    BY <2>2 DEF AllTrue
  <2> QED
    BY <1>1, <2>1, <2>3, <2>4 DEF TrueOnceWritten
<1>3. CASE PollAgain
  <2>1. stored' = {} /\ ack' = FALSE /\ at = "await" /\ phase = "set" /\ ack
    BY <1>3 DEF PollAgain
  <2> QED
    BY <1>1, <2>1 DEF TrueOnceWritten
<1>4. CASE ~ParseReply /\ ~PollAgain
  <2>1. /\ written' = written /\ stored' \in {stored, {}}
        /\ at' = "await" /\ ack' => UNCHANGED <<at, phase, ack>>
    BY <1>4 DEF StartupNext, HostStep, Answer, Refuse, DropReply, BeginConfigure, BeginSave,
       DontSave, SendGnssEngineStart, PollMonVer, Attempt, PollPassed, WriteMismatches,
       VerifyConfig, SavedOrPolled, Timeout, GiveUp, NextRound, BackToExpected, NextProbe,
       NotFound, Succeed, StartEnds, Advance, TryAgain, Reinit, Passed, AtStep, Await,
       startupVars, loopVars, ackVars, saveVars
  <2> QED
    BY <1>1, <2>1 DEF TrueOnceWritten
<1> QED
  BY <1>2, <1>3, <1>4

LEMMA WrittenStep ==
    ASSUME Inv, PhaseOfStep, TrueOnceWritten, WrittenHeld, [StartupNext]_startupVars
    PROVE  WrittenHeld'
<1>1. ram \subseteq ram' /\ hat' = hat
  <2>1. ram \subseteq ram'
    BY ReportsStep DEF Inv
  <2> QED
    BY <2>1 DEF StartupNext, HostStep, Answer, Refuse, ParseReply, DropReply, BeginConfigure, BeginSave,
       DontSave, SendGnssEngineStart, PollMonVer, Attempt, PollPassed, WriteMismatches, PollAgain,
       VerifyConfig, SavedOrPolled, Timeout, GiveUp, NextRound, BackToExpected, NextProbe,
       NotFound, Succeed, StartEnds, startupVars
<1>2. CASE PollAgain
  <2>1. /\ UNCHANGED step /\ at = "await" /\ at' = "await" /\ phase = "set"
        /\ written' = written \cup mismatches
    BY <1>2 DEF PollAgain, loopVars
  <2>2. mismatches \subseteq Current.keys
    BY <2>1 DEF PhaseOfStep
  <2> QED
    BY <1>1, <2>1, <2>2 DEF WrittenHeld, Current
<1>3. CASE ~PollAgain
  <2>1. /\ written' = written
        /\ \/ step' = step /\ (at' = "step" => at = "step")
           \/ at = "step"
           \/ at = "await" /\ phase \in {"save", "monVer"}
           \/ Current.keys \subseteq stored
    BY <1>3 DEF StartupNext, HostStep, Answer, Refuse, ParseReply, DropReply, BeginConfigure, BeginSave,
       DontSave, SendGnssEngineStart, PollMonVer, Attempt, PollPassed, WriteMismatches,
       VerifyConfig, SavedOrPolled, Timeout, GiveUp, NextRound, BackToExpected, NextProbe,
       NotFound, Succeed, StartEnds, Advance, TryAgain, Reinit, Passed, AtStep, Await,
       startupVars, loopVars, saveVars
  <2>2. CASE step' = step /\ (at' = "step" => at = "step")
    BY <1>1, <2>1, <2>2 DEF WrittenHeld, Current
  <2>3. CASE at = "step" \/ (at = "await" /\ phase \in {"save", "monVer"})
    BY <1>1, <2>1, <2>3 DEF WrittenHeld, Inv, PhaseMatches
  <2>4. CASE Current.keys \subseteq stored
    BY <1>1, <2>1, <2>4 DEF WrittenHeld, TrueOnceWritten
  <2> QED
    BY <2>1, <2>2, <2>3, <2>4
<1> QED
  BY <1>2, <1>3

(* At a save the receiver holds all that was written.                      *)
LEMMA WrittenIsHeld ==
    ASSUME Inv, WrittenHeld, step <= Len(hat.plan), Current.kind \notin Groups
    PROVE  written \subseteq ram
<1>1. Current.keys = {}
  BY CurrentType DEF Inv, Steps, Groups
<1> QED
  BY <1>1 DEF WrittenHeld

LEMMA CoversStep ==
    ASSUME Inv, PhaseOfStep, at # "done" => LineInOrder, WrittenHeld, SaveCovers, [StartupNext]_startupVars
    PROVE  SaveCovers'
<1> USE DEF SaveCovers
<1>0. StartupTypeOK
  BY DEF Inv
<1>1. CASE Answer
  <2>1. /\ Has(reqs, Saves)' => Has(reqs, Saves)
        /\ Has(replies, Saves)' => Has(replies, Saves) \/ Head(reqs).of = "save"
    BY <1>0, <1>1, AnsweredLine DEF Shrunk
  <2>2. reqs # <<>> /\ reqs \in Seq(Requests)
    BY <1>0, <1>1, QueueTypes DEF Answer
  <2>3. Head(reqs).of = "save" => Has(reqs, Saves)
    <3>1. \A S \in SUBSET Kinds : Head(reqs).of \in S => Has(reqs, S)
      BY <2>2, TailOfQueue
    <3>2. Saves \in SUBSET Kinds /\ "save" \in Saves
      BY DEF Saves, Kinds
    <3> QED
      BY <3>1, <3>2
  <2>4. /\ ram \subseteq ram' /\ UNCHANGED <<written, at, phase, ack>>
        /\ flash' = IF Head(reqs).of = "save" THEN ram ELSE flash
    BY <1>1 DEF Answer, loopVars, ackVars, saveVars
  <2> QED
    BY <2>1, <2>3, <2>4
<1>2. CASE Refuse \/ DropReply
  <2>1. Shrunk /\ (Has(replies, Saves)' => Has(replies, Saves))
        /\ UNCHANGED <<ram, flash, written, at, phase, ack>>
    BY <1>0, <1>2, LostRequest, ReadLine
       DEF Refuse, DropReply, receiverVars, loopVars, ackVars, saveVars
  <2> QED
    BY <2>1 DEF Shrunk
<1>3. CASE ParseReply
  <2>1. /\ UNCHANGED <<ram, flash, written, at, phase, reqs>>
        /\ replies # <<>> /\ replies' = Tail(replies)
        /\ ack' => ack \/ Head(replies).of = (IF phase = "verify" THEN "poll" ELSE phase)
    BY <1>3 DEF ParseReply, receiverVars, loopVars, saveVars
  <2>2. Shrunk /\ (Has(replies, Saves)' => Has(replies, Saves))
        /\ (Head(replies).of = "save" => Has(replies, Saves))
    BY <1>0, <2>1, ReadHead, ReadLine
  <2> QED
    BY <2>1, <2>2 DEF Shrunk
<1>4. CASE BeginConfigure \/ BeginSave \/ DontSave \/ SavedOrPolled \/ GiveUp \/ NextRound
           \/ NotFound \/ Succeed \/ Timeout
  <2>1. UNCHANGED <<ram, flash, written, reqs, replies>> /\ at' # "await"
    BY <1>4 DEF BeginConfigure, BeginSave, DontSave, SavedOrPolled, GiveUp, NextRound, NotFound,
       Succeed, Timeout, Advance, TryAgain, AtStep, receiverVars, messageVars, saveVars
  <2>2. Shrunk /\ (Has(replies, Saves)' => Has(replies, Saves))
    BY <2>1, SameQueues
  <2> QED
    BY <2>1, <2>2 DEF Shrunk
<1>5. CASE SendGnssEngineStart
  <2>1. Sent("startGnss")
    BY <1>0, <1>5, SentLine DEF SendGnssEngineStart, Kinds
  <2>2. UNCHANGED <<ram, flash, written>> /\ at' # "await"
    BY <1>5 DEF SendGnssEngineStart, Advance, receiverVars, saveVars
  <2> QED
    BY <2>1, <2>2 DEF Sent
<1>6. CASE PollMonVer
  <2>1. Sent("monVer")
    BY <1>0, <1>6, SentLine DEF PollMonVer, Await, Kinds
  <2>2. UNCHANGED <<ram, flash, written>> /\ ack' = FALSE
    BY <1>6 DEF PollMonVer, Await, receiverVars, saveVars
  <2> QED
    BY <2>1, <2>2 DEF Sent
<1>7. CASE Attempt
  <2>1. UNCHANGED <<ram, flash, written>> /\ at = "attempt" /\ ack' = FALSE
    BY <1>7 DEF Attempt, Await, receiverVars, saveVars
  <2>2. step <= Len(hat.plan)
    BY <2>1 DEF Inv, PassedConfigured
  <2>3. CASE Current.kind = "save"
    <3>1. Sent("save")
      BY <1>0, <1>7, <2>3, SentLine DEF Attempt, Await, Kinds
    <3>2. written \subseteq ram
      BY <2>2, <2>3, WrittenIsHeld DEF Groups
    <3> QED
      BY <2>1, <3>1, <3>2 DEF Sent
  <2>4. CASE Current.kind # "save"
    <3>1. Await("poll", Current.keys) /\ Current.keys \in SUBSET Keys
      BY <1>0, <1>7, <2>2, <2>4, CurrentType DEF Attempt
    <3>2. Sent("poll")
      BY <1>0, <3>1, SentLine DEF Await, Kinds
    <3> QED
      BY <2>1, <3>2 DEF Sent
  <2> QED
    BY <2>3, <2>4
<1>8. CASE PollPassed \/ VerifyConfig \/ BackToExpected \/ NextProbe
  <2>1. UNCHANGED <<ram, flash, written>> /\ at' # "await"
    BY <1>8 DEF PollPassed, VerifyConfig, BackToExpected, NextProbe, Passed, Reinit, Advance,
       TryAgain, receiverVars, saveVars
  <2>2. UNCHANGED messageVars \/ (FlushInput /\ UNCHANGED reqs)
    BY <1>8 DEF PollPassed, VerifyConfig, BackToExpected, NextProbe, Passed, Reinit
  <2>3. Shrunk /\ (Has(replies, Saves)' => Has(replies, Saves))
    BY <1>0, <2>2, SameQueues, FlushedLine DEF messageVars
  <2> QED
    BY <2>1, <2>3 DEF Shrunk
<1>9. CASE WriteMismatches
  <2>1. UNCHANGED <<ram, flash, written>> /\ ack' = FALSE /\ at = "await"
    BY <1>9 DEF WriteMismatches, Await, receiverVars, saveVars
  <2>2. Current.keys \in SUBSET Keys
    BY <1>0, <2>1, CurrentType DEF Inv, PassedConfigured
  <2>3. Sent("set")
    BY <1>0, <1>9, <2>2, SentLine DEF WriteMismatches, Await, Kinds
  <2> QED
    BY <2>1, <2>3 DEF Sent
<1>10. CASE PollAgain
  <2>1. UNCHANGED <<ram, flash>> /\ ack' = FALSE /\ at = "await" /\ ack /\ phase = "set"
    BY <1>10 DEF PollAgain, receiverVars
  <2>2. Current.keys \in SUBSET Keys
    BY <1>0, <2>1, CurrentType DEF Inv, PassedConfigured
  <2>3. Sent("poll")
    BY <1>0, <1>10, <2>2, SentLine DEF PollAgain, Kinds
  <2>4. ~LineHas(Saves)
    BY <2>1 DEF PhaseOfStep, LineInOrder
  <2>5. ~Has(replies, Saves)' /\ ~Has(reqs, Saves)'
    BY <2>3, <2>4 DEF Sent, LineHas
  <2> QED
    BY <2>1, <2>5
<1>11. CASE StartEnds \/ UNCHANGED startupVars
  <2>1. UNCHANGED <<ram, flash, written, at, phase, ack, reqs, replies>>
    BY <1>11 DEF StartEnds, startupVars, receiverVars, messageVars, loopVars, ackVars, saveVars
  <2> QED
    BY <2>1 DEF Has
<1> QED
  BY <1>1, <1>2, <1>3, <1>4, <1>5, <1>6, <1>7, <1>8, <1>9, <1>10, <1>11 DEF StartupNext, HostStep

(* One step further on, what is behind a save was so before, unless the    *)
(* step is the save or a group.                                            *)
LEMMA SavedBeforeNext ==
    ASSUME Inv, step <= Len(hat.plan), SavedBefore(hat.plan, step + 1)
    PROVE  /\ Current.kind \notin Groups
           /\ Current.kind # "save" => SavedBefore(hat.plan, step)
<1>1. step \in 1..Len(hat.plan) /\ Len(hat.plan) \in Nat
  BY HatFacts DEF Inv, StartupTypeOK, LoopType
<1>2. \A j \in 1..step : hat.plan[j].kind \in {"port", "configure"} =>
          \E k \in j + 1..step : hat.plan[k].kind = "save"
  BY <1>1 DEF SavedBefore
<1>3. Current.kind \notin Groups
  BY <1>1, <1>2 DEF Current, Groups
<1>4. ASSUME Current.kind # "save", NEW j \in 1..step - 1, hat.plan[j].kind \in {"port", "configure"}
      PROVE  \E k \in j + 1..step - 1 : hat.plan[k].kind = "save"
  <2>1. j \in 1..step
    BY <1>1
  <2>2. PICK k \in j + 1..step : hat.plan[k].kind = "save"
    BY <1>2, <1>4, <2>1
  <2>3. k # step
    BY <1>4, <2>2 DEF Current
  <2>4. k \in j + 1..step - 1
    BY <1>1, <2>2, <2>3
  <2> QED
    BY <2>2, <2>4
<1> QED
  BY <1>3, <1>4 DEF SavedBefore

LEMMA SettledStep ==
    ASSUME Inv, PhaseOfStep, SaveCovers, Settled, [StartupNext]_startupVars
    PROVE  Settled'
<1>0. StartupTypeOK
  BY DEF Inv
<1>1. SUFFICES ASSUME hat.save, UNCHANGED hat
               PROVE  /\ ~shouldSave' => written' \subseteq flash'
                      /\ SavedBefore(hat.plan, step') /\ BehindSave' => written' \subseteq flash'
  <2>1. UNCHANGED hat
    BY DEF StartupNext, HostStep, Answer, Refuse, ParseReply, DropReply, BeginConfigure, BeginSave,
       DontSave, SendGnssEngineStart, PollMonVer, Attempt, PollPassed, WriteMismatches, PollAgain,
       VerifyConfig, SavedOrPolled, Timeout, GiveUp, NextRound, BackToExpected, NextProbe,
       NotFound, Succeed, StartEnds, startupVars
  <2> QED
    BY <2>1 DEF Settled
<1>2. /\ ~shouldSave => written \subseteq flash
      /\ SavedBefore(hat.plan, step) /\ BehindSave => written \subseteq flash
  BY <1>1 DEF Settled
(* Steps that leave alone what is written and whether it is behind a save. *)
<1>3. ASSUME UNCHANGED <<shouldSave, written, step>>, flash \subseteq flash',
             BehindSave' => BehindSave
      PROVE  /\ ~shouldSave' => written' \subseteq flash'
             /\ SavedBefore(hat.plan, step') /\ BehindSave' => written' \subseteq flash'
  BY <1>2, <1>3
(* Steps to the next step of the plan.                                     *)
<1>4. ASSUME UNCHANGED <<written, flash>>, Advance, step <= Len(hat.plan),
             ~shouldSave' => written \subseteq flash,
             Current.kind \notin Groups /\ Current.kind # "save" => BehindSave,
             Current.kind = "save" => written \subseteq flash
      PROVE  /\ ~shouldSave' => written' \subseteq flash'
             /\ SavedBefore(hat.plan, step') /\ BehindSave' => written' \subseteq flash'
  <2>1. step' = step + 1
    BY <1>4 DEF Advance
  <2> QED
    BY <1>2, <1>4, <2>1, SavedBeforeNext
<1>5. CASE Answer
  <2>1. UNCHANGED <<hat, shouldSave, written, step, at, ok>> /\ flash \subseteq flash'
    BY <1>5 DEF Answer, SaveCovers, loopVars, saveVars
  <2>2. BehindSave' => BehindSave
    BY <2>1 DEF BehindSave, Busy, Current
  <2> QED
    BY <1>3, <2>1, <2>2
<1>6. CASE Refuse \/ ParseReply \/ DropReply \/ StartEnds \/ UNCHANGED startupVars
  <2>1. UNCHANGED <<hat, shouldSave, written, flash, step, at, ok>>
    BY <1>6 DEF Refuse, ParseReply, DropReply, StartEnds, startupVars, receiverVars, loopVars, saveVars
  <2>2. BehindSave' => BehindSave
    BY <2>1 DEF BehindSave, Busy, Current
  <2> QED
    BY <1>3, <2>1, <2>2
<1>7. CASE BeginConfigure \/ BeginSave
  <2>1. UNCHANGED <<shouldSave, written, flash, ok>> /\ at = "step" /\ step <= Len(hat.plan)
    BY <1>7 DEF BeginConfigure, BeginSave, AtStep, receiverVars, saveVars
  <2>2. BehindSave
    BY <2>1 DEF BehindSave
  <2>3. Advance \/ UNCHANGED step
    BY <1>7 DEF BeginConfigure, BeginSave
  <2>4. CASE UNCHANGED step
    BY <1>3, <2>1, <2>2, <2>4
  <2>5. CASE Advance
    <3>1. Current.kind = "save" => ~shouldSave
      <4>1. at' = "step"
        BY <2>5 DEF Advance
      <4> QED
        BY <1>1, <1>7, <4>1 DEF BeginConfigure, BeginSave, AtStep
    <3> QED
      BY <1>2, <1>4, <2>1, <2>2, <2>5, <3>1
  <2> QED
    BY <2>3, <2>4, <2>5
<1>8. CASE DontSave
  <2>1. /\ UNCHANGED <<written, flash>> /\ at = "step" /\ step <= Len(hat.plan)
        /\ Current.kind = "dontSave" /\ Advance
    BY <1>8 DEF DontSave, AtStep, receiverVars
  <2>2. BehindSave
    BY <2>1 DEF BehindSave
  <2>3. SavedBefore(hat.plan, step)
    <3>1. step \in 1..Len(hat.plan) /\ hat \in Hats
      BY <1>0, <2>1, HatFacts DEF StartupTypeOK, LoopType
    <3> QED
      BY <2>1, <3>1, SavesAssumption DEF Current
  <2> QED
    BY <1>2, <1>4, <2>1, <2>2, <2>3
<1>9. CASE SendGnssEngineStart
  <2>1. /\ UNCHANGED <<shouldSave, written, flash>> /\ at = "step" /\ step <= Len(hat.plan)
        /\ Current.kind = "startGnss" /\ Advance
    BY <1>9 DEF SendGnssEngineStart, AtStep, receiverVars, saveVars
  <2>2. BehindSave
    BY <2>1 DEF BehindSave
  <2> QED
    BY <1>2, <1>4, <2>1, <2>2
<1>10. CASE PollMonVer
  <2>1. UNCHANGED <<shouldSave, written, flash, step>> /\ at = "step"
    BY <1>10 DEF PollMonVer, AtStep, receiverVars, saveVars
  <2>2. BehindSave
    BY <2>1 DEF BehindSave
  <2> QED
    BY <1>3, <2>1, <2>2
<1>11. CASE Attempt \/ WriteMismatches \/ NextRound \/ BackToExpected \/ NextProbe
  <2>1. /\ UNCHANGED <<hat, shouldSave, written, flash, step, ok>>
        /\ at \in {"attempt", "await", "failed"} /\ at' \in {"attempt", "await", "failed"}
    BY <1>11 DEF Attempt, WriteMismatches, NextRound, BackToExpected, NextProbe, Await, Reinit,
       receiverVars, saveVars
  <2>2. BehindSave' => BehindSave
    BY <2>1 DEF BehindSave, Busy, Current
  <2> QED
    BY <1>3, <2>1, <2>2
<1>12. CASE PollPassed \/ VerifyConfig
  <2>1. /\ UNCHANGED <<hat, shouldSave, written, flash, ok>> /\ at = "await"
        /\ phase \in {"poll", "verify"}
    BY <1>12 DEF PollPassed, VerifyConfig, receiverVars, saveVars
  <2>2. Current.kind \in Groups /\ step <= Len(hat.plan)
    BY <2>1 DEF PhaseOfStep, Inv, PassedConfigured, Groups
  <2>3. Advance \/ (UNCHANGED step /\ at' \in {"attempt", "failed"})
    BY <1>12 DEF PollPassed, VerifyConfig, Passed, Reinit, TryAgain
  <2>4. CASE Advance
    BY <1>2, <1>4, <2>1, <2>2, <2>4 DEF Groups
  <2>5. CASE UNCHANGED step /\ at' \in {"attempt", "failed"}
    <3>1. BehindSave' => BehindSave
      BY <2>1, <2>5 DEF BehindSave, Busy, Current
    <3> QED
      BY <1>3, <2>1, <2>5, <3>1
  <2> QED
    BY <2>3, <2>4, <2>5
<1>13. CASE PollAgain
  <2>1. /\ UNCHANGED <<hat, step, at, ok>> /\ at = "await" /\ phase = "set" /\ shouldSave' = TRUE
    BY <1>13 DEF PollAgain, loopVars
  <2>2. Current.kind \in Groups /\ ~ok
    BY <2>1 DEF PhaseOfStep, Inv, PassedConfigured, Groups
  <2>3. ~BehindSave'
    BY <2>1, <2>2 DEF BehindSave, Busy, Current
  <2> QED
    BY <2>1, <2>3
<1>14. CASE SavedOrPolled
  <2>1. /\ UNCHANGED <<shouldSave, written, flash>> /\ Advance
        /\ at = "await" /\ ack /\ phase \in {"save", "monVer"}
    BY <1>14 DEF SavedOrPolled, receiverVars, saveVars
  <2>2. step <= Len(hat.plan)
    BY <2>1 DEF Inv, PassedConfigured
  <2>3. BehindSave
    BY <2>1 DEF PhaseOfStep, BehindSave, Busy, Groups
  <2>4. Current.kind = "save" => written \subseteq flash
    BY <2>1 DEF PhaseOfStep, SaveCovers
  <2> QED
    BY <1>2, <1>4, <2>1, <2>2, <2>3, <2>4
<1>15. CASE Timeout
  <2>1. UNCHANGED <<hat, shouldSave, written, flash, ok>> /\ at = "await"
    BY <1>15 DEF Timeout, receiverVars, saveVars
  <2>2. step <= Len(hat.plan)
    BY <2>1 DEF Inv, PassedConfigured
  <2>3. CASE phase = "monVer"
    <3>1. Current.kind = "monVer" /\ Advance
      BY <1>15, <2>1, <2>3 DEF PhaseOfStep, Timeout
    <3>2. BehindSave
      BY <2>1, <3>1 DEF BehindSave, Busy, Groups
    <3> QED
      BY <1>2, <1>4, <2>1, <2>2, <3>1, <3>2
  <2>4. CASE phase # "monVer"
    <3>1. UNCHANGED step /\ at' \in {"attempt", "failed"}
      BY <1>15, <2>4 DEF Timeout, TryAgain
    <3>2. BehindSave' => BehindSave
      BY <2>1, <3>1 DEF BehindSave, Busy, Current
    <3> QED
      BY <1>3, <2>1, <3>1, <3>2
  <2> QED
    BY <2>3, <2>4
<1>16. CASE GiveUp \/ NotFound
  <2>1. UNCHANGED <<shouldSave, written, flash, step, ok>> /\ at = "failed" /\ at' = "done"
    BY <1>16 DEF GiveUp, NotFound, receiverVars, saveVars
  <2>2. ~ok
    BY <2>1 DEF Inv, PassedConfigured
  <2>3. ~BehindSave'
    BY <2>1, <2>2 DEF BehindSave, Busy
  <2> QED
    BY <1>3, <2>1, <2>3
<1>17. CASE Succeed
  <2>1. UNCHANGED <<shouldSave, written, flash, step>> /\ at = "step"
    BY <1>17 DEF Succeed, receiverVars, saveVars
  <2>2. BehindSave
    BY <2>1 DEF BehindSave
  <2> QED
    BY <1>3, <2>1, <2>2
<1> QED
  BY <1>5, <1>6, <1>7, <1>8, <1>9, <1>10, <1>11, <1>12, <1>13, <1>14, <1>15, <1>16, <1>17
     DEF StartupNext, HostStep

LEMMA NextSave == Inv /\ SaveInv /\ [StartupNext]_startupVars => SaveInv'
BY PhaseStep, LineStep, TrueStep, WrittenStep, CoversStep, SettledStep DEF SaveInv, Inv

(* With saveToFlash, what an acknowledged VALSET changed is in flash when   *)
(* start() returns true: no save is skipped after a change, and a late      *)
(* acknowledgement of an earlier save never stands for a later one          *)
(* (StartupBase::saveConfigToFlash under try3times, and shouldSaveConfig-   *)
(* ToFlash).                                                                *)
THEOREM ChangesAreSaved == StartupSpec => []WrittenIsSaved
<1>1. Inv /\ SaveInv => WrittenIsSaved
  <2> SUFFICES ASSUME Inv, SaveInv, ok, hat.save PROVE written \subseteq flash
    BY DEF WrittenIsSaved
  <2>1. step = Len(hat.plan) + 1 /\ hat \in Hats
    BY DEF Inv, PassedConfigured, StartupTypeOK
  <2>2. SavedBefore(hat.plan, step)
    BY <2>1, SavesAssumption
  <2> QED
    BY <2>2 DEF SaveInv, Settled, BehindSave
<1>2. StartupInit => Inv /\ SaveInv
  BY InitInv, InitSave
<1>3. Inv /\ SaveInv /\ [StartupNext]_startupVars => Inv' /\ SaveInv'
  BY NextInv, NextSave
<1> QED
  BY <1>1, <1>2, <1>3, PTL DEF StartupSpec

-----------------------------------------------------------------------------
(* Without faults start() succeeds. The host is deaf only while it looks    *)
(* for the receiver; otherwise what it waits for is the last thing on the   *)
(* line, whatever else an earlier run or an acknowledgement that came too   *)
(* early left there, and a group that was written verifies.                 *)

(* The replies r and, behind them, the requests q.                          *)
NothingOf(r, q, a) == ~Has(r, {a}) /\ ~Has(q, {a})
OnlyLast(r, q, a) ==
    /\ \A i \in 1..Len(r) : r[i].of = a => i = Len(r) /\ q = <<>>
    /\ \A i \in 1..Len(q) : q[i].of = a => i = Len(q)
Coming(r, q, a) ==
    /\ q # <<>> => q[Len(q)].of = a
    /\ q = <<>> => r # <<>> /\ r[Len(r)] = Ack(a)

Awaited == IF phase = "verify" THEN "poll" ELSE phase
Once == {"set", "save", "monVer"}

(* Where start() is: deaf only at the port step, and on no port it gave up. *)
Deaf == ~Connected => reqs = <<>> /\ (at = "await" => ~ack)
FailedDeaf == at = "failed" => ~Connected /\ replies = <<>>
DeafAtPort ==
    ~Connected =>
        /\ Busy => Current.kind = "port"
        /\ at = "step" => \A j \in 1..(step - 1) : hat.plan[j].kind = "dontSave"
Ports ==
    at # "done" =>
        /\ probe = 0 => hostPort = Expected
        /\ probe > 0 => /\ Busy /\ Current.kind = "port"
                        /\ hostPort = Expected \/ hostPort = hat.probed[probe]
(* A receiver that is still on its old port is on none that was probed.     *)
NotYet ==
    Busy /\ probe > 0 /\ ~(PortKeys \subseteq ram) =>
        /\ oldPort # Expected
        /\ \A i \in 1..Len(hat.probed) : i < probe => hat.probed[i] # oldPort
        /\ hostPort = Expected => hat.probed[probe] # oldPort
DoneWell == at = "done" => (ok /\ Connected) \/ (~Reachable /\ ~(PortKeys \subseteq ram))

(* What is said on the line.                                                *)
AnswerComes == at = "await" /\ Connected /\ ~ack => Coming(replies, reqs, Awaited)
OnlyOne ==
    \A a \in Once :
        /\ at = "await" /\ phase = a /\ ~ack => OnlyLast(replies, reqs, a)
        /\ ~(at = "await" /\ phase = a /\ ~ack) => NothingOf(replies, reqs, a)
Acked == at = "await" /\ ack /\ phase = "set" => reqs = <<>> /\ replies = <<>>
(* What the group awaits is written with the last request, if not before;   *)
(* once it is, the poll and its reply are all there is on the line.         *)
SetHolds ==
    at = "await" /\ phase = "set" =>
        /\ reqs # <<>> => Current.keys \subseteq (ram \cup reqs[Len(reqs)].keys)
        /\ reqs = <<>> => Current.keys \subseteq ram
Verifies ==
    at = "await" /\ phase = "verify" =>
        /\ Connected /\ Current.keys \subseteq ram
        /\ \/ reqs = <<Request("poll", Current.keys)>> /\ replies = <<>> /\ ~ack
           \/ reqs = <<>> /\ replies = <<Values(Current.keys, Current.keys), Ack("poll")>> /\ ~ack
           \/ reqs = <<>> /\ replies = <<Ack("poll")>> /\ ~ack /\ Current.keys \subseteq stored
           \/ reqs = <<>> /\ replies = <<>> /\ ack /\ Current.keys \subseteq stored

(* The two together are inductive, next to what holds with faults too.      *)
Where == Deaf /\ FailedDeaf /\ DeafAtPort /\ Ports /\ NotYet /\ DoneWell
Said  == AnswerComes /\ OnlyOne /\ Acked /\ SetHolds /\ Verifies
Calm  == Where /\ Said
CalmInv == Inv /\ PhaseOfStep /\ (faults = 0 => Calm)

(* What one message does to the line: one that is read, ...                 *)
LEMMA ReadCalm ==
    ASSUME NEW r \in Seq(Reply), r # <<>>, NEW q, NEW a
    PROVE  /\ NothingOf(r, q, a) => NothingOf(Tail(r), q, a) /\ Head(r).of # a
           /\ OnlyLast(r, q, a) => OnlyLast(Tail(r), q, a)
           /\ OnlyLast(r, q, a) /\ Head(r).of = a => Tail(r) = <<>> /\ q = <<>>
           /\ Coming(r, q, a) /\ Head(r) # Ack(a) => Coming(Tail(r), q, a)
<1> DEFINE t == Tail(r)
           n == Len(r)
           k == Len(t)
<1>1. /\ n \in Nat /\ n # 0 /\ k \in Nat /\ k + 1 = n /\ Head(r) = r[1]
      /\ (k = 0 <=> t = <<>>)
  <2>1. t \in Seq(Reply) /\ Head(r) = r[1] /\ k = n - 1
    BY HeadTailProperties
  <2>2. n \in Nat /\ n # 0 /\ k \in Nat /\ (k = 0 <=> t = <<>>)
    BY <2>1, EmptySeq, LenProperties
  <2> QED
    BY <2>1, <2>2
<1>2. \A i \in 1..k : t[i] = r[i + 1]
  BY HeadTailProperties
<1>3. NothingOf(r, q, a) => NothingOf(t, q, a) /\ Head(r).of # a
  <2>1. (Has(Tail(r), {a}) => Has(r, {a})) /\ (Head(r).of \in {a} => Has(r, {a}))
    BY TailOfQueue
  <2> QED
    BY <2>1 DEF NothingOf
<1>4. ASSUME OnlyLast(r, q, a)
      PROVE  /\ \A i \in 1..n : r[i].of = a => i = n /\ q = <<>>
             /\ \A i \in 1..Len(q) : q[i].of = a => i = Len(q)
  BY <1>4 DEF OnlyLast
<1> HIDE DEF t, n, k
<1>5. ASSUME OnlyLast(r, q, a) PROVE OnlyLast(t, q, a)
  <2>1. ASSUME NEW i \in 1..k, t[i].of = a PROVE i = k /\ q = <<>>
    <3>1. i + 1 \in 1..n
      BY <1>1, <2>1
    <3>2. r[i + 1].of = a
      BY <1>2, <2>1
    <3>3. i + 1 = n /\ q = <<>>
      BY <1>4, <1>5, <3>1, <3>2
    <3> QED
      BY <1>1, <2>1, <3>3
  <2>2. \A i \in 1..Len(t) : t[i].of = a => i = Len(t) /\ q = <<>>
    BY <2>1 DEF k
  <2> QED
    BY <1>4, <1>5, <2>2 DEF OnlyLast
<1>6. ASSUME OnlyLast(r, q, a), Head(r).of = a PROVE t = <<>> /\ q = <<>>
  <2>1. 1 \in 1..n /\ r[1].of = a
    BY <1>1, <1>6
  <2>2. 1 = n /\ q = <<>>
    BY <1>4, <1>6, <2>1
  <2> QED
    BY <1>1, <2>2
<1>7. ASSUME Coming(r, q, a), Head(r) # Ack(a) PROVE Coming(t, q, a)
  <2>1. CASE q # <<>>
    BY <1>7, <2>1 DEF Coming
  <2>2. CASE q = <<>>
    <3>1. r[n] = Ack(a)
      BY <1>7, <2>2 DEF Coming, n
    <3>2. n # 1
      BY <1>1, <1>7, <3>1
    <3>3. k \in 1..k
      BY <1>1, <3>2
    <3>4. t[k] = Ack(a)
      <4>1. t[k] = r[k + 1]
        BY <1>2, <3>3
      <4> QED
        BY <1>1, <3>1, <4>1
    <3>5. t # <<>>
      BY <1>1, <3>2
    <3> QED
      BY <2>2, <3>4, <3>5 DEF Coming, k
  <2> QED
    BY <2>1, <2>2
<1> QED
  BY <1>3, <1>5, <1>6, <1>7 DEF t

(* ... one that is sent, ...                                                *)
LEMMA SendCalm ==
    ASSUME NEW r, NEW q \in Seq(Requests), NEW m \in Requests, NEW s, NEW a, Has(s, {a}) => Has(r, {a})
    PROVE  /\ NothingOf(r, q, a) /\ m.of # a => NothingOf(s, Append(q, m), a)
           /\ NothingOf(r, q, a) /\ m.of = a => OnlyLast(s, Append(q, m), a)
           /\ m.of = a => Coming(s, Append(q, m), a)
           /\ Append(q, m) # <<>> /\ Append(q, m)[Len(Append(q, m))] = m
<1>1. /\ Len(q) \in Nat /\ Append(q, m) # <<>> /\ Len(Append(q, m)) = Len(q) + 1
      /\ \A i \in 1..Len(q) : Append(q, m)[i] = q[i]
      /\ Append(q, m)[Len(q) + 1] = m
  BY AppendProperties, LenProperties
<1> DEFINE p == Append(q, m)
<1>2. /\ p # <<>> /\ Len(p) = Len(q) + 1 /\ p[Len(q) + 1] = m
      /\ \A i \in 1..Len(q) : p[i] = q[i]
  BY <1>1
<1> HIDE DEF p
<1>3. \A i \in 1..Len(p) : i \in 1..Len(q) \/ i = Len(p)
  BY <1>1, <1>2
<1>4. ASSUME NothingOf(r, q, a), m.of # a PROVE NothingOf(s, p, a)
  <2>1. \A i \in 1..Len(q) : q[i].of # a
    BY <1>4 DEF NothingOf, Has
  <2>2. \A i \in 1..Len(p) : p[i].of # a
    BY <1>2, <1>3, <1>4, <2>1
  <2> QED
    BY <1>4, <2>2 DEF NothingOf, Has
<1>5. ASSUME NothingOf(r, q, a), m.of = a PROVE OnlyLast(s, p, a)
  <2>1. \A i \in 1..Len(q) : q[i].of # a
    BY <1>5 DEF NothingOf, Has
  <2>2. \A i \in 1..Len(p) : p[i].of = a => i = Len(p)
    BY <1>2, <1>3, <2>1
  <2>3. \A i \in 1..Len(s) : s[i].of # a
    BY <1>5 DEF NothingOf, Has
  <2> QED
    BY <2>2, <2>3 DEF OnlyLast
<1>6. m.of = a => Coming(s, p, a)
  BY <1>2 DEF Coming
<1>7. p # <<>> /\ p[Len(p)] = m
  BY <1>2
<1> QED
  BY <1>4, <1>5, <1>6, <1>7 DEF p

(* ... and one that is served.                                              *)
LEMMA ServeCalm ==
    ASSUME StartupTypeOK, NEW r \in Seq(Reply), NEW q \in Seq(Requests), q # <<>>, NEW a, NEW s,
           s = r \/ s = r \o RepliesTo(Head(q))
    PROVE  /\ NothingOf(r, q, a) => NothingOf(s, Tail(q), a)
           /\ a \in Once /\ OnlyLast(r, q, a) => OnlyLast(s, Tail(q), a)
           /\ a \in Once /\ OnlyLast(r, q, a) /\ Head(q).of = a => Tail(q) = <<>>
           /\ a \in Once \cup {"poll"} /\ Coming(r, q, a) /\ s = r \o RepliesTo(Head(q)) => Coming(s, Tail(q), a)
<1> DEFINE m == Head(q)
           t == Tail(q)
           w == RepliesTo(Head(q))
<1>1. /\ Len(q) \in Nat \ {0} /\ t \in Seq(Requests) /\ Len(t) = Len(q) - 1 /\ Len(t) \in Nat
      /\ m = q[1] /\ m \in Requests /\ \A i \in 1..Len(t) : t[i] = q[i + 1]
  BY EmptySeq, HeadTailProperties
<1>2. /\ w \in Seq(Reply) /\ Len(w) \in Nat /\ Len(r) \in Nat
      /\ \A i \in 1..Len(w) : w[i].of = m.of
  BY <1>1, RepliesForRequest, LenProperties
<1>3. m.of \in Once => w = <<Ack(m.of)>>
  BY DEF RepliesTo, Once
<1>4. m.of = "poll" => w = <<Values(m.keys, m.keys \cap ram), Ack("poll")>>
  BY DEF RepliesTo
<1> HIDE DEF m, t, w
<1>5. /\ r \o w \in Seq(Reply) /\ Len(r \o w) = Len(r) + Len(w)
      /\ \A i \in 1..Len(r) + Len(w) : (r \o w)[i] = IF i <= Len(r) THEN r[i] ELSE w[i - Len(r)]
  BY <1>2, ConcatProperties
<1>6. s = r \/ s = r \o w
  BY DEF w
<1>7. ASSUME NEW i \in 1..Len(s) PROVE (i \in 1..Len(r) /\ s[i] = r[i]) \/ (i > Len(r) /\ s[i].of = m.of /\ s = r \o w)
  <2>1. CASE s = r
    BY <2>1
  <2>2. CASE s = r \o w
    <3>1. i \in 1..Len(r) + Len(w)
      BY <1>5, <2>2
    <3>2. CASE i <= Len(r)
      <4>1. s[i] = r[i]
        BY <1>5, <2>2, <3>1, <3>2
      <4> QED
        BY <1>2, <3>2, <4>1
    <3>3. CASE ~(i <= Len(r))
      <4>1. i - Len(r) \in 1..Len(w)
        BY <1>2, <3>1, <3>3
      <4>2. s[i] = w[i - Len(r)]
        BY <1>5, <2>2, <3>1, <3>3
      <4> QED
        BY <1>2, <2>2, <3>3, <4>1, <4>2
    <3> QED
      BY <3>2, <3>3
  <2> QED
    BY <1>6, <2>1, <2>2
<1>8. 1 \in 1..Len(q) /\ \A i \in 1..Len(t) : i + 1 \in 1..Len(q) /\ t[i] = q[i + 1]
  BY <1>1
<1>9. ASSUME NothingOf(r, q, a) PROVE NothingOf(s, t, a)
  <2>1. (\A i \in 1..Len(r) : r[i].of # a) /\ (\A i \in 1..Len(q) : q[i].of # a)
    BY <1>9 DEF NothingOf, Has
  <2>2. m.of # a
    BY <1>1, <1>8, <2>1
  <2>3. \A i \in 1..Len(t) : t[i].of # a
    BY <1>8, <2>1
  <2>4. \A i \in 1..Len(s) : s[i].of # a
    BY <1>7, <2>1, <2>2
  <2> QED
    BY <2>3, <2>4 DEF NothingOf, Has
<1>10. ASSUME OnlyLast(r, q, a), m.of = a PROVE t = <<>> /\ Len(q) = 1
  <2>1. 1 = Len(q)
    BY <1>1, <1>8, <1>10 DEF OnlyLast
  <2>2. Len(t) = 0
    BY <1>1, <2>1
  <2> QED
    BY <1>1, <2>1, <2>2, EmptySeq
<1>11. ASSUME a \in Once, OnlyLast(r, q, a) PROVE OnlyLast(s, t, a)
  <2>1. /\ \A i \in 1..Len(r) : r[i].of # a
        /\ \A i \in 1..Len(q) : q[i].of = a => i = Len(q)
    BY <1>11 DEF OnlyLast
  <2>2. ASSUME NEW i \in 1..Len(t), t[i].of = a PROVE i = Len(t)
    <3>1. i + 1 = Len(q)
      BY <1>8, <2>1, <2>2
    <3> QED
      BY <1>1, <3>1
  <2>3. ASSUME NEW i \in 1..Len(s), s[i].of = a PROVE i = Len(s) /\ t = <<>>
    <3>1. i > Len(r) /\ m.of = a /\ s = r \o w
      BY <1>7, <2>1, <2>3
    <3>2. w = <<Ack(a)>>
      BY <1>3, <1>11, <3>1
    <3>3. Len(w) = 1
      BY <3>2
    <3>4. i = Len(s)
      BY <1>2, <1>5, <3>1, <3>3
    <3> QED
      BY <1>10, <1>11, <3>1, <3>4
  <2> QED
    BY <2>2, <2>3 DEF OnlyLast
<1>12. ASSUME a \in Once \cup {"poll"}, Coming(r, q, a), s = r \o w PROVE Coming(s, t, a)
  <2>1. q[Len(q)].of = a
    BY <1>12 DEF Coming
  <2>2. CASE t # <<>>
    <3>1. Len(t) # 0
      BY <1>1, <2>2, EmptySeq
    <3>2. Len(t) \in 1..Len(t) /\ Len(t) + 1 = Len(q)
      BY <1>1, <3>1
    <3>3. t[Len(t)] = q[Len(q)]
      BY <1>8, <3>2
    <3> QED
      BY <2>1, <2>2, <3>3 DEF Coming
  <2>3. CASE t = <<>>
    <3>1. Len(q) = 1
      BY <1>1, <2>3, EmptySeq
    <3>2. m.of = a
      BY <1>1, <2>1, <3>1
    <3>3. Len(w) >= 1 /\ w[Len(w)] = Ack(a)
      <4>1. CASE a \in Once
        <5>1. w = <<Ack(a)>>
          BY <1>3, <3>2, <4>1
        <5> QED
          BY <5>1
      <4>2. CASE a = "poll"
        <5>1. w = <<Values(m.keys, m.keys \cap ram), Ack("poll")>>
          BY <1>4, <3>2, <4>2
        <5> QED
          BY <4>2, <5>1
      <4> QED
        BY <1>12, <4>1, <4>2
    <3>4. Len(s) \in 1..(Len(r) + Len(w)) /\ ~(Len(s) <= Len(r)) /\ Len(s) - Len(r) = Len(w) /\ Len(s) # 0
      BY <1>2, <1>5, <1>12, <3>3
    <3>5. s[Len(s)] = w[Len(w)]
      BY <1>5, <1>12, <3>4
    <3>6. s # <<>>
      BY <3>4, EmptySeq
    <3> QED
      BY <2>3, <3>3, <3>5, <3>6 DEF Coming
  <2> QED
    BY <2>2, <2>3
<1> QED
  BY <1>9, <1>10, <1>11, <1>12 DEF m, t, w

-----------------------------------------------------------------------------
(* Who hears whom.                                                          *)
LEMMA SamePort ==
    ASSUME UNCHANGED <<hat, ram, oldPort, hostPort>>
    PROVE  (Connected' <=> Connected) /\ PortKeys' = PortKeys /\ (Reachable' <=> Reachable)
BY DEF Connected, RxPort, PortKeys, Reachable

LEMMA PortKeysAre ==
    ASSUME StartupTypeOK, step <= Len(hat.plan), Current.kind = "port"
    PROVE  PortKeys = Current.keys
<1>1. step \in 1..Len(hat.plan) /\ hat \in Hats
  BY HatFacts DEF StartupTypeOK, LoopType
<1>2. \A i \in 1..Len(hat.plan) : hat.plan[i].kind = "port" => hat.plan[i].keys = Current.keys
  BY <1>1, PortAssumption DEF Current
<1>3. step \in {j \in 1..Len(hat.plan) : hat.plan[j].kind = "port"} /\ hat.plan[step].keys = Current.keys
  BY <1>1 DEF Current
<1> QED
  BY <1>2, <1>3 DEF PortKeys

(* On the driver's own parameters, it hears a receiver that has the keys.   *)
LEMMA HeardWhenRight == PortKeys \subseteq ram /\ hostPort = Expected => Connected
BY DEF Connected, RxPort

LEMMA DeafMeansOldPort ==
    ASSUME ~Connected, hostPort = Expected
    PROVE  ~(PortKeys \subseteq ram) /\ oldPort # Expected
BY DEF Connected, RxPort

(* Behind the step that looks for the receiver it is heard.                 *)
LEMMA HeardAtStep ==
    ASSUME Inv, Where, at = "step", step <= Len(hat.plan), Current.kind \notin {"dontSave", "port"}
    PROVE  Connected
<1>1. step \in 1..Len(hat.plan) /\ hat \in Hats
  BY HatFacts DEF Inv, StartupTypeOK, LoopType
<1>2. PICK j \in 1..step : hat.plan[j].kind = "port"
  BY <1>1, PortAssumption DEF Current
<1>3. j # step
  BY <1>2 DEF Current
<1>4. j \in 1..(step - 1)
  BY <1>1, <1>2, <1>3
<1> QED
  BY <1>2, <1>4 DEF Where, DeafAtPort

(* It is heard while a step goes on that is not the search for the port, and *)
(* when something was acknowledged.                                         *)
LEMMA HeardInside ==
    ASSUME Inv, Where, Busy, Current.kind # "port"
    PROVE  Connected /\ probe = 0 /\ hostPort = Expected
<1>1. probe \in Nat
  BY HatFacts DEF Inv, StartupTypeOK, LoopType
<1> QED
  BY <1>1 DEF Where, DeafAtPort, Ports, Busy

LEMMA HeardWithAck == Where /\ at = "await" /\ ack => Connected
BY DEF Where, Deaf

(* When nothing is awaited, nothing that was asked for once is on the line, *)
(* and then only the place of the host is left to be shown.                 *)
LEMMA NothingSaid ==
    ASSUME Said, ~(at = "await" /\ ~ack /\ phase \in Once)
    PROVE  \A a \in Once : NothingOf(replies, reqs, a)
BY DEF Said, OnlyOne

LEMMA RestCalm ==
    ASSUME at' # "await", \A a \in Once : NothingOf(replies', reqs', a), Where'
    PROVE  Calm'
BY DEF Calm, Said, AnswerComes, OnlyOne, Acked, SetHolds, Verifies

LEMMA SamePlaces ==
    ASSUME UNCHANGED <<replies, reqs>>, \A a \in Once : NothingOf(replies, reqs, a)
    PROVE  \A a \in Once : NothingOf(replies', reqs', a)
OBVIOUS

(* The next step of the plan: on the driver's own port, and it is heard.    *)
LEMMA StepCalm ==
    ASSUME at' = "step", probe' = 0, hostPort' = Expected, Connected',
           \A a \in Once : NothingOf(replies', reqs', a)
    PROVE  Calm'
<1>1. Where'
  BY DEF Where, Deaf, FailedDeaf, DeafAtPort, Ports, NotYet, DoneWell, Busy
<1> QED
  BY <1>1, RestCalm

(* The next attempt, or none left.                                          *)
LEMMA RetryCalm ==
    ASSUME at' \in {"attempt", "failed"}, ~Connected' => reqs' = <<>> /\ Current'.kind = "port",
           at' = "failed" => ~Connected' /\ replies' = <<>>, Ports', NotYet',
           \A a \in Once : NothingOf(replies', reqs', a)
    PROVE  Calm'
<1>1. Where'
  BY DEF Where, Deaf, FailedDeaf, DeafAtPort, DoneWell
<1> QED
  BY <1>1, RestCalm

(* A group that passed does so on the driver's own port.                    *)
LEMMA PassedHere ==
    ASSUME Inv, Calm, at = "await", Connected, Passed, Current.keys \subseteq ram,
           step <= Len(hat.plan), UNCHANGED <<hat, receiverVars>>,
           \A a \in Once : NothingOf(replies, reqs, a)
    PROVE  Calm'
<1>1. probe \in Nat
  BY HatFacts DEF Inv, StartupTypeOK, LoopType
<1>2. probe > 0 => hostPort = Expected
  <2>1. SUFFICES ASSUME probe > 0 PROVE hostPort = Expected
    OBVIOUS
  <2>2. Current.kind = "port"
    BY <2>1 DEF Calm, Where, Ports
  <2>3. PortKeys \subseteq ram
    BY <2>2, PortKeysAre DEF Inv
  <2> QED
    BY <2>3 DEF Connected, RxPort
<1>3. hostPort = Expected
  BY <1>1, <1>2 DEF Calm, Where, Ports
<1>4. Advance /\ UNCHANGED <<messageVars, hostPort>>
  BY <1>3 DEF Passed
<1>5. at' = "step" /\ probe' = 0 /\ hostPort' = Expected /\ UNCHANGED <<replies, reqs>>
  BY <1>3, <1>4 DEF Advance, messageVars
<1>6. Connected'
  BY <1>4, SamePort DEF receiverVars
<1> QED
  BY <1>5, <1>6, StepCalm

-----------------------------------------------------------------------------
(* Between the groups, and out of their attempts.                           *)
LEMMA AtStepCalm ==
    ASSUME Inv, Calm, at = "step", step <= Len(hat.plan)
    PROVE  /\ hostPort = Expected /\ probe = 0
           /\ \A a \in Once : NothingOf(replies, reqs, a)
           /\ Current.kind \notin {"dontSave", "port"} => Connected
           /\ ~Connected => reqs = <<>>
<1>1. probe \in Nat
  BY HatFacts DEF Inv, StartupTypeOK, LoopType
<1>2. hostPort = Expected /\ probe = 0
  BY <1>1 DEF Calm, Where, Ports, Busy
<1> QED
  BY <1>2, HeardAtStep, NothingSaid DEF Calm, Where, Deaf

LEMMA ConfigureCalm ==
    ASSUME Inv, Calm, BeginConfigure
    PROVE  Calm'
<1>1. /\ at = "step" /\ step <= Len(hat.plan) /\ Current.kind \in {"port", "configure"}
      /\ UNCHANGED <<hat, ram, oldPort, hostPort, replies, reqs>>
  BY DEF BeginConfigure, AtStep, receiverVars, messageVars
<1>2. /\ hostPort = Expected /\ probe = 0 /\ \A a \in Once : NothingOf(replies, reqs, a)
      /\ Current.kind # "port" => Connected
      /\ ~Connected => reqs = <<>>
  BY <1>1, AtStepCalm
<1>3. \A a \in Once : NothingOf(replies', reqs', a)
  BY <1>1, <1>2, SamePlaces
<1>4. (Connected' <=> Connected) /\ PortKeys' = PortKeys
  BY <1>1, SamePort
<1>5. CASE Current.keys = {}
  <2>1. Advance
    BY <1>5 DEF BeginConfigure
  <2>2. Connected
    BY <1>1, <1>2, <1>5, PortKeysAre, HeardWhenRight DEF Inv
  <2> QED
    BY <1>1, <1>2, <1>3, <1>4, <2>1, <2>2, StepCalm DEF Advance
<1>6. CASE Current.keys # {}
  <2>1. at' = "attempt" /\ UNCHANGED <<step, probe>>
    BY <1>6 DEF BeginConfigure
  <2>2. Current' = Current
    BY <1>1, <2>1 DEF Current
  <2>3. Ports' /\ NotYet'
    BY <1>1, <1>2, <2>1 DEF Ports, NotYet
  <2> QED
    BY <1>1, <1>2, <1>3, <1>4, <2>1, <2>2, <2>3, RetryCalm
<1> QED
  BY <1>5, <1>6

LEMMA SaveCalm ==
    ASSUME Inv, Calm, BeginSave
    PROVE  Calm'
<1>1. /\ at = "step" /\ step <= Len(hat.plan) /\ Current.kind = "save"
      /\ UNCHANGED <<hat, ram, oldPort, hostPort, replies, reqs>>
      /\ Advance \/ (at' = "attempt" /\ UNCHANGED <<step, probe>>)
  BY DEF BeginSave, AtStep, receiverVars, messageVars
<1>2. /\ hostPort = Expected /\ probe = 0 /\ Connected
      /\ \A a \in Once : NothingOf(replies, reqs, a)
  BY <1>1, AtStepCalm
<1>3. \A a \in Once : NothingOf(replies', reqs', a)
  BY <1>1, <1>2, SamePlaces
<1>4. Connected'
  BY <1>1, <1>2, SamePort
<1>5. CASE Advance
  BY <1>1, <1>2, <1>3, <1>4, <1>5, StepCalm DEF Advance
<1>6. CASE at' = "attempt" /\ UNCHANGED <<step, probe>>
  <2>1. Ports' /\ NotYet'
    BY <1>1, <1>2, <1>6 DEF Ports, NotYet
  <2> QED
    BY <1>3, <1>4, <1>6, <2>1, RetryCalm
<1> QED
  BY <1>1, <1>5, <1>6

LEMMA DontSaveCalm ==
    ASSUME Inv, Calm, DontSave
    PROVE  Calm'
<1>1. /\ at = "step" /\ step <= Len(hat.plan) /\ Current.kind = "dontSave" /\ Advance
      /\ UNCHANGED <<hat, ram, oldPort, hostPort, replies, reqs>>
  BY DEF DontSave, AtStep, receiverVars, messageVars
<1>2. /\ hostPort = Expected /\ probe = 0 /\ \A a \in Once : NothingOf(replies, reqs, a)
      /\ ~Connected => reqs = <<>>
  BY <1>1, AtStepCalm
<1>3. \A a \in Once : NothingOf(replies', reqs', a)
  BY <1>1, <1>2, SamePlaces
<1>4. (Connected' <=> Connected)
  BY <1>1, SamePort
<1>5. at' = "step" /\ probe' = 0 /\ step' = step + 1 /\ step \in Nat
  BY <1>1, HatFacts DEF Advance, Inv, StartupTypeOK, LoopType
<1>6. ASSUME ~Connected', NEW j \in 1..(step' - 1) PROVE hat'.plan[j].kind = "dontSave"
  <2>1. CASE j = step
    BY <1>1, <2>1 DEF Current
  <2>2. CASE j # step
    <3>1. j \in 1..(step - 1)
      BY <1>5, <2>2
    <3> QED
      BY <1>1, <1>4, <1>6, <3>1 DEF Calm, Where, DeafAtPort
  <2> QED
    BY <2>1, <2>2
<1>7. Where'
  BY <1>1, <1>2, <1>4, <1>5, <1>6 DEF Where, Deaf, FailedDeaf, DeafAtPort, Ports, NotYet, DoneWell, Busy
<1> QED
  BY <1>3, <1>5, <1>7, RestCalm

LEMMA SucceedCalm ==
    ASSUME Inv, Calm, Succeed
    PROVE  Calm'
<1>1. /\ at = "step" /\ at' = "done" /\ ok' = TRUE /\ step > Len(hat.plan)
      /\ UNCHANGED <<hat, ram, oldPort, hostPort, replies, reqs, probe, step>>
  BY DEF Succeed, receiverVars, messageVars
<1>2. probe \in Nat /\ step \in 1..Len(hat.plan) + 1 /\ Len(hat.plan) \in Nat
  BY HatFacts DEF Inv, StartupTypeOK, LoopType
<1>3. hostPort = Expected
  BY <1>1, <1>2 DEF Calm, Where, Ports, Busy
<1>4. Connected
  <2>1. SUFFICES ASSUME ~Connected PROVE FALSE
    OBVIOUS
  <2>2. \A j \in 1..(step - 1) : hat.plan[j].kind = "dontSave"
    BY <1>1, <2>1 DEF Calm, Where, DeafAtPort
  <2>3. step - 1 = Len(hat.plan)
    BY <1>1, <1>2
  <2>4. PortKeys = {}
    BY <2>2, <2>3 DEF PortKeys
  <2> QED
    BY <1>3, <2>1, <2>4, HeardWhenRight
<1>5. Connected'
  BY <1>1, <1>4, SamePort
<1>6. \A a \in Once : NothingOf(replies', reqs', a)
  BY <1>1, NothingSaid, SamePlaces DEF Calm
<1>7. Where'
  BY <1>1, <1>5 DEF Where, Deaf, FailedDeaf, DeafAtPort, Ports, NotYet, DoneWell, Busy
<1> QED
  BY <1>1, <1>6, <1>7, RestCalm

-----------------------------------------------------------------------------
(* A request goes out, behind whatever else is on the line.                 *)
LEMMA TransmitCalm ==
    ASSUME StartupTypeOK, NEW of \in Kinds, NEW keys \in SUBSET Keys, Transmit(Request(of, keys)),
           \A a \in Once : NothingOf(replies, reqs, a)
    PROVE  /\ \A a \in Once : a # of => NothingOf(replies', reqs', a)
           /\ Connected => /\ \A a \in Once : a = of => OnlyLast(replies', reqs', a)
                           /\ Coming(replies', reqs', of)
                           /\ reqs' # <<>> /\ reqs'[Len(reqs')] = Request(of, keys)
           /\ ~Connected => reqs' = reqs /\ \A a \in Once : NothingOf(replies', reqs', a)
<1>1. reqs \in Seq(Requests)
  BY QueueTypes
<1>2. Request(of, keys) \in Requests /\ Request(of, keys).of = of
  BY DEF Request, Requests
<1>3. ASSUME NEW a PROVE Has(replies', {a}) => Has(replies, {a})
  BY FlushShrinks DEF Transmit
<1>4. CASE Connected
  <2>1. reqs' = Append(reqs, Request(of, keys))
    BY <1>4 DEF Transmit
  <2>2. ASSUME NEW a
        PROVE  /\ NothingOf(replies, reqs, a) /\ of # a => NothingOf(replies', reqs', a)
               /\ NothingOf(replies, reqs, a) /\ of = a => OnlyLast(replies', reqs', a)
               /\ of = a => Coming(replies', reqs', a)
               /\ reqs' # <<>> /\ reqs'[Len(reqs')] = Request(of, keys)
    BY <1>1, <1>2, <1>3, <2>1, SendCalm
  <2>3. Coming(replies', reqs', of) /\ reqs' # <<>> /\ reqs'[Len(reqs')] = Request(of, keys)
    BY <2>2
  <2> QED
    BY <1>4, <2>2, <2>3
<1>5. CASE ~Connected
  <2>1. reqs' = reqs
    BY <1>5 DEF Transmit
  <2>2. \A a \in Once : NothingOf(replies', reqs', a)
    BY <1>3, <2>1 DEF NothingOf
  <2> QED
    BY <1>5, <2>1, <2>2
<1> QED
  BY <1>4, <1>5

(* One that is waited for: its answer is the only one of its kind.          *)
LEMMA AwaitCalm ==
    ASSUME Inv, Calm, NEW of \in {"poll", "set", "save", "monVer"}, NEW keys \in SUBSET Keys,
           Transmit(Request(of, keys)), at' = "await", phase' = of, ack' = FALSE,
           \A a \in Once : NothingOf(replies, reqs, a),
           UNCHANGED <<hat, ram, oldPort, hostPort, step, probe>>, Busy \/ (at = "step" /\ probe = 0),
           Connected \/ (of = "poll" /\ Current.kind = "port" /\ reqs = <<>>),
           of = "set" => Current.keys \subseteq ram \cup keys
    PROVE  Calm'
<1>1. (Connected' <=> Connected) /\ PortKeys' = PortKeys /\ Current' = Current
  BY SamePort DEF Current
<1>2. /\ \A a \in Once : a # of => NothingOf(replies', reqs', a)
      /\ Connected => /\ \A a \in Once : a = of => OnlyLast(replies', reqs', a)
                      /\ Coming(replies', reqs', of)
                      /\ reqs' # <<>> /\ reqs'[Len(reqs')] = Request(of, keys)
      /\ ~Connected => reqs' = reqs
  <2>1. of \in Kinds
    BY DEF Kinds
  <2> QED
    BY <2>1, TransmitCalm DEF Inv
<1>3. Ports' /\ NotYet'
  <2>1. probe \in Nat
    BY HatFacts DEF Inv, StartupTypeOK, LoopType
  <2>2. Busy'
    BY DEF Busy
  <2>3. Ports'
    BY <1>1, <2>1, <2>2 DEF Calm, Where, Ports, Busy
  <2>4. NotYet'
    BY <1>1, <2>1 DEF Calm, Where, NotYet, Busy
  <2> QED
    BY <2>3, <2>4
<1>4. Where'
  BY <1>1, <1>2, <1>3 DEF Where, Deaf, FailedDeaf, DeafAtPort, DoneWell
<1>5. AnswerComes'
  BY <1>1, <1>2 DEF AnswerComes, Awaited
<1>6. OnlyOne'
  <2>1. SUFFICES ASSUME NEW a \in Once
                 PROVE  /\ a = of => OnlyLast(replies', reqs', a)
                        /\ a # of => NothingOf(replies', reqs', a)
    BY DEF OnlyOne
  <2>2. a = of => Connected
    BY DEF Once
  <2> QED
    BY <1>2, <2>2
<1>7. Acked' /\ Verifies'
  BY DEF Acked, Verifies
<1>8. SetHolds'
  <2>1. SUFFICES ASSUME of = "set" PROVE reqs' # <<>> /\ Current.keys \subseteq ram \cup reqs'[Len(reqs')].keys
    BY <1>1 DEF SetHolds
  <2>2. reqs' # <<>> /\ reqs'[Len(reqs')] = Request(of, keys)
    BY <1>2, <2>1
  <2> QED
    BY <2>1, <2>2 DEF Request
<1> QED
  BY <1>4, <1>5, <1>6, <1>7, <1>8 DEF Calm, Said

LEMMA StartGnssCalm ==
    ASSUME Inv, Calm, SendGnssEngineStart
    PROVE  Calm'
<1>1. /\ at = "step" /\ step <= Len(hat.plan) /\ Current.kind = "startGnss" /\ Advance
      /\ Transmit(Request("startGnss", {})) /\ UNCHANGED <<hat, ram, oldPort, hostPort>>
  BY DEF SendGnssEngineStart, AtStep, receiverVars
<1>2. /\ hostPort = Expected /\ probe = 0 /\ Connected
      /\ \A a \in Once : NothingOf(replies, reqs, a)
  BY <1>1, AtStepCalm
<1>3. \A a \in Once : NothingOf(replies', reqs', a)
  <2>1. \A a \in Once : a # "startGnss"
    BY DEF Once
  <2>2. "startGnss" \in Kinds /\ {} \in SUBSET Keys
    BY DEF Kinds
  <2> QED
    BY <1>1, <1>2, <2>1, <2>2, TransmitCalm DEF Inv
<1>4. Connected'
  BY <1>1, <1>2, SamePort
<1> QED
  BY <1>1, <1>2, <1>3, <1>4, StepCalm DEF Advance

LEMMA MonVerCalm ==
    ASSUME Inv, Calm, PollMonVer
    PROVE  Calm'
<1>1. /\ at = "step" /\ step <= Len(hat.plan) /\ Current.kind = "monVer"
      /\ Transmit(Request("monVer", {})) /\ at' = "await" /\ phase' = "monVer" /\ ack' = FALSE
      /\ UNCHANGED <<hat, ram, oldPort, hostPort, step, probe>>
  BY DEF PollMonVer, Await, AtStep, receiverVars
<1>2. /\ hostPort = Expected /\ probe = 0 /\ Connected
      /\ \A a \in Once : NothingOf(replies, reqs, a)
  BY <1>1, AtStepCalm
<1>3. {} \in SUBSET Keys
  OBVIOUS
<1> QED
  BY <1>1, <1>2, <1>3, AwaitCalm

LEMMA AttemptCalm ==
    ASSUME Inv, PhaseOfStep, Calm, Attempt
    PROVE  Calm'
<1>1. /\ at = "attempt" /\ at' = "await" /\ ack' = FALSE
      /\ UNCHANGED <<hat, ram, oldPort, hostPort, step, probe>>
  BY DEF Attempt, Await, receiverVars
<1>2. step <= Len(hat.plan) /\ Busy
  BY <1>1 DEF Inv, PassedConfigured, Busy
<1>3. \A a \in Once : NothingOf(replies, reqs, a)
  BY <1>1, NothingSaid DEF Calm
<1>4. Current.kind # "port" => Connected
  BY <1>2, HeardInside DEF Calm
<1>5. ~Connected => reqs = <<>>
  BY DEF Calm, Where, Deaf
<1>6. CASE Current.kind = "save"
  <2>1. Transmit(Request("save", {})) /\ phase' = "save"
    BY <1>6 DEF Attempt, Await
  <2>2. {} \in SUBSET Keys
    OBVIOUS
  <2> QED
    BY <1>1, <1>2, <1>3, <1>4, <1>6, <2>1, <2>2, AwaitCalm
<1>7. CASE Current.kind # "save"
  <2>1. Transmit(Request("poll", Current.keys)) /\ phase' = "poll"
    BY <1>7 DEF Attempt, Await
  <2>2. Current.keys \in SUBSET Keys
    BY <1>2, CurrentType DEF Inv
  <2> QED
    BY <1>1, <1>2, <1>3, <1>4, <1>5, <2>1, <2>2, AwaitCalm
<1> QED
  BY <1>6, <1>7

LEMMA WriteCalm ==
    ASSUME Inv, Calm, misled = {}, WriteMismatches
    PROVE  Calm'
<1>1. /\ at = "await" /\ ack /\ phase = "poll" /\ at' = "await" /\ phase' = "set" /\ ack' = FALSE
      /\ Transmit(Request("set", Current.keys \ stored))
      /\ UNCHANGED <<hat, ram, oldPort, hostPort, step, probe>>
  BY DEF WriteMismatches, Await, receiverVars
<1>2. step <= Len(hat.plan) /\ Busy /\ stored \subseteq ram
  BY <1>1 DEF Inv, PassedConfigured, Busy, ReportsTrue, Held
<1>3. Connected /\ \A a \in Once : NothingOf(replies, reqs, a)
  BY <1>1, HeardWithAck, NothingSaid DEF Calm
<1>4. Current.keys \ stored \in SUBSET Keys
  BY <1>2, CurrentType DEF Inv
<1>5. Current.keys \subseteq ram \cup (Current.keys \ stored)
  BY <1>2
<1> QED
  BY <1>1, <1>2, <1>3, <1>4, <1>5, AwaitCalm

-----------------------------------------------------------------------------
(* The receiver's end of the line. *)
LEMMA AnswerCalm ==
    ASSUME Inv, PhaseOfStep, Calm, Answer
    PROVE  Calm'
<1> DEFINE m == Head(reqs)
<1>1. /\ reqs # <<>> /\ reqs' = Tail(reqs) /\ reqs \in Seq(Requests) /\ replies \in Seq(Reply)
      /\ UNCHANGED <<hat, oldPort, hostPort, at, step, probe, phase, ack, stored, ok>>
  BY QueueTypes DEF Answer, loopVars, ackVars, Inv
<1>2. /\ ram' = IF m.of = "set" THEN ram \cup m.keys ELSE ram
      /\ replies' = replies \o RepliesTo(m) \/ (~Connected' /\ replies' = replies)
  BY <1>1 DEF Answer, Connected, RxPort, PortKeys
<1>3. Connected
  BY <1>1 DEF Calm, Where, Deaf
<1>4. PortKeys' = PortKeys /\ Current' = Current /\ (Reachable' <=> Reachable)
  BY <1>1 DEF PortKeys, Current, Reachable
<1>5. ASSUME NEW a
      PROVE  /\ NothingOf(replies, reqs, a) => NothingOf(replies', reqs', a)
             /\ a \in Once /\ OnlyLast(replies, reqs, a) => OnlyLast(replies', reqs', a)
             /\ a \in Once /\ OnlyLast(replies, reqs, a) /\ m.of = a => reqs' = <<>>
             /\ a \in Once \cup {"poll"} /\ Coming(replies, reqs, a) /\ Connected' => Coming(replies', reqs', a)
  BY <1>1, <1>2, ServeCalm DEF Inv
<1>6. m.of = "set" => at = "await" /\ phase = "set" /\ ~ack /\ reqs' = <<>>
  <2>1. SUFFICES ASSUME m.of = "set" PROVE at = "await" /\ phase = "set" /\ ~ack /\ reqs' = <<>>
    OBVIOUS
  <2>2. ~NothingOf(replies, reqs, "set")
    <3>1. m.of \in {"set"} => Has(reqs, {"set"})
      BY <1>1, TailOfQueue
    <3> QED
      BY <2>1, <3>1 DEF NothingOf
  <2>3. "set" \in Once
    BY DEF Once
  <2>4. at = "await" /\ phase = "set" /\ ~ack /\ OnlyLast(replies, reqs, "set")
    BY <2>2, <2>3 DEF Calm, Said, OnlyOne
  <2> QED
    BY <1>5, <2>1, <2>3, <2>4
<1> HIDE DEF m
(* It goes deaf only when the keys of a port it was found on come in.       *)
<1>7. ~Connected' => m.of = "set" /\ probe > 0 /\ Current.kind = "port"
  <2>1. SUFFICES ASSUME ~Connected' PROVE m.of = "set" /\ probe > 0 /\ Current.kind = "port"
    OBVIOUS
  <2>2. m.of = "set"
    BY <1>1, <1>2, <1>3, <2>1, SamePort
  <2>3. ~(PortKeys \subseteq ram) /\ hostPort # Expected
    BY <1>1, <1>2, <1>3, <1>4, <2>1, <2>2 DEF Connected, RxPort
  <2>4. probe # 0 /\ probe \in Nat /\ at # "done"
    BY <1>6, <2>2, <2>3, HatFacts DEF Calm, Where, Ports, Inv, StartupTypeOK, LoopType
  <2> QED
    BY <2>2, <2>4 DEF Calm, Where, Ports
<1>8. Where'
  <2>1. Deaf' /\ FailedDeaf'
    BY <1>1, <1>3, <1>6, <1>7 DEF Calm, Where, Deaf, FailedDeaf
  <2>2. DeafAtPort'
    BY <1>1, <1>4, <1>6, <1>7 DEF DeafAtPort
  <2>3. Ports'
    BY <1>1, <1>4 DEF Calm, Where, Ports, Busy
  <2>4. NotYet'
    BY <1>1, <1>2, <1>4 DEF Calm, Where, NotYet, Busy
  <2>5. DoneWell'
    BY <1>1, <1>2, <1>3, <1>4, <1>6, <1>7 DEF Calm, Where, DoneWell
  <2> QED
    BY <2>1, <2>2, <2>3, <2>4, <2>5 DEF Where
<1>9. AnswerComes'
  <2>1. SUFFICES ASSUME at = "await", Connected', ~ack PROVE Coming(replies', reqs', Awaited)
    BY <1>1 DEF AnswerComes, Awaited
  <2>2. Coming(replies, reqs, Awaited)
    BY <1>3, <2>1 DEF Calm, Said, AnswerComes
  <2>3. Awaited \in Once \cup {"poll"}
    BY DEF Inv, StartupTypeOK, AckType, Awaited, Once
  <2> QED
    BY <1>5, <2>1, <2>2, <2>3
<1>10. OnlyOne'
  BY <1>1, <1>5 DEF Calm, Said, OnlyOne
<1>11. Acked'
  BY <1>1 DEF Calm, Said, Acked
<1>12. SetHolds'
  <2>1. SUFFICES ASSUME at = "await", phase = "set"
                 PROVE  /\ reqs' # <<>> => Current.keys \subseteq ram' \cup reqs'[Len(reqs')].keys
                        /\ reqs' = <<>> => Current.keys \subseteq ram'
    BY <1>1, <1>4 DEF SetHolds
  <2>2. Current.keys \subseteq ram \cup reqs[Len(reqs)].keys /\ ram \subseteq ram'
    BY <1>1, <1>2, <2>1 DEF Calm, Said, SetHolds
  <2>3. Len(reqs) \in Nat /\ Len(reqs) # 0 /\ Len(reqs') \in Nat /\ Len(reqs') = Len(reqs) - 1
    BY <1>1, EmptySeq, HeadTailProperties, LenProperties
  <2>4. CASE reqs' # <<>>
    <3>1. reqs' \in Seq(Requests) /\ Len(reqs') # 0
      BY <1>1, <2>4, EmptySeq, HeadTailProperties
    <3>2. Len(reqs') \in 1..Len(reqs')
      BY <2>3, <3>1
    <3>3. reqs'[Len(reqs')] = reqs[Len(reqs') + 1]
      BY <1>1, <3>2, HeadTailProperties
    <3>4. Len(reqs') + 1 = Len(reqs)
      BY <2>3
    <3> QED
      BY <2>2, <2>4, <3>3, <3>4
  <2>5. CASE reqs' = <<>>
    <3>1. Len(reqs) = 1
      BY <2>3, <2>5, EmptySeq
    <3>2. m = reqs[Len(reqs)]
      BY <1>1, <3>1, HeadTailProperties DEF m
    <3>3. ~ack
      BY <1>1, <2>1 DEF Calm, Said, Acked
    <3>4. Coming(replies, reqs, "set")
      BY <1>3, <2>1, <3>3 DEF Calm, Said, AnswerComes, Awaited
    <3>5. m.of = "set"
      BY <1>1, <3>2, <3>4 DEF Coming
    <3> QED
      BY <1>2, <2>2, <2>5, <3>2, <3>5
  <2> QED
    BY <2>4, <2>5
<1>13. Verifies'
  <2>1. SUFFICES ASSUME at = "await", phase = "verify"
                 PROVE  /\ Connected' /\ Current.keys \subseteq ram'
                        /\ reqs' = <<>> /\ replies' = <<Values(Current.keys, Current.keys), Ack("poll")>> /\ ~ack
    BY <1>1, <1>4 DEF Verifies
  <2>2. /\ Current.keys \subseteq ram /\ ~ack
        /\ reqs = <<Request("poll", Current.keys)>> /\ replies = <<>>
    BY <1>1, <2>1 DEF Calm, Said, Verifies
  <2>3. m = Request("poll", Current.keys) /\ reqs' = <<>>
    BY <1>1, <2>2 DEF m
  <2>4. m.of = "poll" /\ m.keys = Current.keys
    BY <2>3 DEF Request
  <2>5. ram' = ram /\ Connected'
    BY <1>2, <1>7, <2>4
  <2>6. RepliesTo(m) = <<Values(Current.keys, Current.keys \cap ram), Ack("poll")>>
    BY <2>4 DEF RepliesTo
  <2>7. Current.keys \cap ram = Current.keys
    BY <2>2
  <2>8. replies' = <<Values(Current.keys, Current.keys), Ack("poll")>>
    <3>1. RepliesTo(m) \in Seq(Reply)
      BY <1>1, HeadTailProperties, RepliesForRequest DEF Inv, m
    <3>2. <<>> \o RepliesTo(m) = RepliesTo(m)
      BY <3>1, ConcatEmptySeq
    <3> QED
      BY <1>2, <2>2, <2>5, <2>6, <2>7, <3>2
  <2> QED
    BY <2>2, <2>3, <2>5, <2>8
<1> QED
  BY <1>8, <1>9, <1>10, <1>11, <1>12, <1>13 DEF Calm, Said

-----------------------------------------------------------------------------
(* What the host makes of a reply.                                          *)
LEMMA DropCalm ==
    ASSUME Inv, Calm, DropReply, faults' = faults
    PROVE  Calm'
<1>1. /\ at = "await" /\ replies # <<>> /\ replies' = Tail(replies) /\ replies \in Seq(Reply)
      /\ UNCHANGED <<hat, ram, oldPort, hostPort, reqs, at, step, probe, phase, ack, stored, ok>>
      /\ faults \in Nat
  BY QueueTypes, HatFacts DEF DropReply, receiverVars, loopVars, ackVars, Inv, StartupTypeOK, LineType
<1>2. ~Connected
  BY <1>1 DEF DropReply, Fault
<1>3. (Connected' <=> Connected) /\ PortKeys' = PortKeys /\ Current' = Current
  BY <1>1, SamePort DEF Current
<1>4. ASSUME NEW a
      PROVE  /\ NothingOf(replies, reqs, a) => NothingOf(replies', reqs', a)
             /\ OnlyLast(replies, reqs, a) => OnlyLast(replies', reqs', a)
  BY <1>1, ReadCalm
<1>5. Where'
  BY <1>1, <1>3 DEF Calm, Where, Deaf, FailedDeaf, DeafAtPort, Ports, NotYet, DoneWell, Busy
<1>6. OnlyOne'
  BY <1>1, <1>4 DEF Calm, Said, OnlyOne
<1>7. AnswerComes'
  BY <1>2, <1>3 DEF AnswerComes
<1>8. Acked'
  BY <1>1, <1>2, HeardWithAck DEF Calm, Acked
<1>9. SetHolds'
  BY <1>1, <1>3 DEF Calm, Said, SetHolds
<1>10. Verifies'
  BY <1>1, <1>2 DEF Calm, Said, Verifies
<1> QED
  BY <1>5, <1>6, <1>7, <1>8, <1>9, <1>10 DEF Calm, Said

LEMMA ParseCalm ==
    ASSUME Inv, Calm, ParseReply
    PROVE  Calm'
<1> DEFINE m == Head(replies)
<1>1. /\ at = "await" /\ replies # <<>> /\ replies' = Tail(replies) /\ replies \in Seq(Reply)
      /\ Connected /\ stored' = (stored \ m.keys) \cup m.right
      /\ ack' = (ack \/ (m.type = "ack" /\ m.of = Awaited))
      /\ UNCHANGED <<hat, ram, oldPort, hostPort, reqs, at, step, probe, phase, ok>>
  BY QueueTypes DEF ParseReply, receiverVars, loopVars, Inv, Awaited
<1>2. (Connected' <=> Connected) /\ PortKeys' = PortKeys /\ Current' = Current /\ Awaited' = Awaited
  BY <1>1, SamePort DEF Current, Awaited
<1>3. ASSUME NEW a
      PROVE  /\ NothingOf(replies, reqs, a) => NothingOf(replies', reqs', a)
             /\ OnlyLast(replies, reqs, a) => OnlyLast(replies', reqs', a)
             /\ OnlyLast(replies, reqs, a) /\ m.of = a => replies' = <<>> /\ reqs' = <<>>
             /\ Coming(replies, reqs, a) /\ m # Ack(a) => Coming(replies', reqs', a)
  BY <1>1, ReadCalm
<1>4. Where'
  BY <1>1, <1>2 DEF Calm, Where, Deaf, FailedDeaf, DeafAtPort, Ports, NotYet, DoneWell, Busy
<1>5. AnswerComes'
  <2>1. SUFFICES ASSUME ~ack' PROVE Coming(replies', reqs', Awaited)
    BY <1>2 DEF AnswerComes
  <2>2. Coming(replies, reqs, Awaited)
    BY <1>1, <2>1 DEF Calm, Said, AnswerComes
  <2>3. m # Ack(Awaited)
    <3>1. Ack(Awaited).type = "ack" /\ Ack(Awaited).of = Awaited
      BY DEF Ack
    <3>2. ~(m.type = "ack" /\ m.of = Awaited)
      BY <1>1, <2>1
    <3> QED
      BY <3>1, <3>2
  <2> QED
    BY <1>3, <2>2, <2>3
<1>6. ASSUME NEW a \in Once, phase = a, ~ack, ack' PROVE replies' = <<>> /\ reqs' = <<>>
  <2>1. m.of = a
    BY <1>1, <1>6 DEF Awaited, Once
  <2>2. OnlyLast(replies, reqs, a)
    BY <1>1, <1>6 DEF Calm, Said, OnlyOne
  <2> QED
    BY <1>3, <2>1, <2>2
<1>7. OnlyOne'
  <2>1. SUFFICES ASSUME NEW a \in Once
                 PROVE  /\ phase = a /\ ~ack' => OnlyLast(replies', reqs', a)
                        /\ ~(phase = a /\ ~ack') => NothingOf(replies', reqs', a)
    BY <1>1 DEF OnlyOne
  <2>2. CASE phase = a /\ ~ack'
    <3>1. OnlyLast(replies, reqs, a)
      BY <1>1, <2>2 DEF Calm, Said, OnlyOne
    <3> QED
      BY <1>3, <2>2, <3>1
  <2>3. CASE ~(phase = a /\ ~ack)
    <3>1. NothingOf(replies, reqs, a) /\ ~(phase = a /\ ~ack')
      BY <1>1, <2>3 DEF Calm, Said, OnlyOne
    <3> QED
      BY <1>3, <3>1
  <2>4. CASE phase = a /\ ~ack /\ ack'
    <3>1. replies' = <<>> /\ reqs' = <<>>
      BY <1>6, <2>4
    <3>2. NothingOf(<<>>, <<>>, a)
      BY DEF NothingOf, Has
    <3> QED
      BY <2>4, <3>1, <3>2
  <2> QED
    BY <2>2, <2>3, <2>4
<1>8. Acked'
  <2>1. SUFFICES ASSUME ack', phase = "set" PROVE reqs' = <<>> /\ replies' = <<>>
    BY <1>1 DEF Acked
  <2>2. ~ack
    BY <1>1, <2>1 DEF Calm, Said, Acked
  <2> QED
    BY <1>6, <2>1, <2>2 DEF Once
<1>9. SetHolds'
  BY <1>1, <1>2 DEF Calm, Said, SetHolds
<1> DEFINE K == Current.keys
           HalfRead == <<Values(K, K), Ack("poll")>>
<1>10. Verifies'
  <2>1. SUFFICES ASSUME phase = "verify"
                 PROVE  /\ Connected /\ K \subseteq ram /\ reqs' = <<>> /\ K \subseteq stored'
                        /\ (replies' = <<Ack("poll")>> /\ ~ack') \/ (replies' = <<>> /\ ack')
    BY <1>1, <1>2 DEF Verifies
  <2>2. /\ K \subseteq ram /\ reqs = <<>> /\ ~ack
        /\ replies = HalfRead \/ (replies = <<Ack("poll")>> /\ K \subseteq stored)
    BY <1>1, <2>1 DEF Calm, Said, Verifies
  <2>3. Awaited = "poll"
    BY <2>1 DEF Awaited
  <2>4. CASE replies = HalfRead
    <3>1. m = Values(K, K) /\ replies' = <<Ack("poll")>>
      BY <1>1, <2>4
    <3>2. m.type = "values" /\ m.keys = K /\ m.right = K
      BY <3>1 DEF Values
    <3>3. ~ack' /\ K \subseteq stored'
      BY <1>1, <2>2, <3>2
    <3> QED
      BY <1>1, <2>2, <3>1, <3>3
  <2>5. CASE replies = <<Ack("poll")>> /\ K \subseteq stored
    <3>1. m = Ack("poll") /\ replies' = <<>>
      BY <1>1, <2>5
    <3>2. m.type = "ack" /\ m.of = "poll" /\ m.keys = {} /\ m.right = {}
      BY <3>1 DEF Ack
    <3>3. ack' /\ K \subseteq stored'
      BY <1>1, <2>3, <2>5, <3>2
    <3> QED
      BY <1>1, <2>2, <3>1, <3>3
  <2> QED
    BY <2>2, <2>4, <2>5
<1> QED
  BY <1>4, <1>5, <1>7, <1>8, <1>9, <1>10 DEF Calm, Said

-----------------------------------------------------------------------------
(* What an acknowledgement or its absence leads to.                         *)
(* Flushing an empty line.                                                  *)
LEMMA FlushOfNothing ==
    ASSUME StartupTypeOK, FlushInput, replies = <<>>
    PROVE  replies' = <<>>
<1>1. Len(replies) = 0 /\ hat.flushes \in BOOLEAN
  BY HatFacts
<1>2. PICK n \in 0..(IF hat.flushes THEN Len(replies) ELSE 0) :
          replies' = SubSeq(replies, n + 1, Len(replies))
  BY DEF FlushInput
<1>3. n = 0
  BY <1>1, <1>2
<1>4. replies' = SubSeq(<<>>, 1, 0) /\ replies' \in Seq(Reply)
  BY <1>1, <1>2, <1>3, FlushShrinks
<1>5. Len(SubSeq(<<>>, 1, 0)) = 0
  OBVIOUS
<1> QED
  BY <1>4, <1>5, EmptySeq

LEMMA PollAgainCalm ==
    ASSUME Inv, Calm, PollAgain
    PROVE  Calm'
<1>1. /\ at = "await" /\ ack /\ phase = "set" /\ at' = "await" /\ phase' = "verify" /\ ack' = FALSE
      /\ Transmit(Request("poll", Current.keys))
      /\ UNCHANGED <<hat, ram, oldPort, hostPort, step, probe, ok>>
  BY DEF PollAgain, receiverVars, loopVars
<1>2. Connected /\ reqs = <<>> /\ replies = <<>> /\ Current.keys \subseteq ram
  BY <1>1, HeardWithAck DEF Calm, Said, Acked, SetHolds
<1>3. (Connected' <=> Connected) /\ PortKeys' = PortKeys /\ Current' = Current
  BY <1>1, SamePort DEF Current
<1>4. replies' = <<>>
  BY <1>1, <1>2, FlushOfNothing DEF Inv, Transmit
<1>5. reqs' = <<Request("poll", Current.keys)>>
  BY <1>1, <1>2 DEF Transmit
<1>6. Where'
  BY <1>1, <1>2, <1>3 DEF Calm, Where, Deaf, FailedDeaf, DeafAtPort, Ports, NotYet, DoneWell, Busy
<1>7. \A a \in Once : NothingOf(replies', reqs', a)
  <2>1. SUFFICES ASSUME NEW a \in Once PROVE NothingOf(<<>>, <<Request("poll", Current.keys)>>, a)
    BY <1>4, <1>5
  <2>2. Request("poll", Current.keys).of # a
    BY DEF Request, Once
  <2> QED
    BY <2>2 DEF NothingOf, Has
<1>8. OnlyOne'
  BY <1>1, <1>7 DEF OnlyOne, Once
<1>9. AnswerComes'
  <2>1. reqs' # <<>> /\ reqs'[Len(reqs')] = Request("poll", Current.keys)
    BY <1>5
  <2>2. Coming(replies', reqs', "poll")
    BY <2>1 DEF Coming, Request
  <2> QED
    BY <1>1, <2>2 DEF AnswerComes, Awaited
<1>10. Acked' /\ SetHolds'
  BY <1>1 DEF Acked, SetHolds
<1>11. Verifies'
  BY <1>1, <1>2, <1>3, <1>4, <1>5 DEF Verifies
<1> QED
  BY <1>6, <1>8, <1>9, <1>10, <1>11 DEF Calm, Said

LEMMA PollPassedCalm ==
    ASSUME Inv, Calm, misled = {}, PollPassed
    PROVE  Calm'
<1>1. /\ at = "await" /\ ack /\ phase = "poll" /\ Passed /\ Current.keys \subseteq stored
      /\ UNCHANGED <<hat, receiverVars>>
  BY DEF PollPassed
<1>2. step <= Len(hat.plan) /\ Current.keys \subseteq ram
  BY <1>1 DEF Inv, PassedConfigured, ReportsTrue, Held
<1>3. Connected /\ \A a \in Once : NothingOf(replies, reqs, a)
  BY <1>1, HeardWithAck, NothingSaid DEF Calm
<1> QED
  BY <1>1, <1>2, <1>3, PassedHere

LEMMA VerifyCalm ==
    ASSUME Inv, Calm, VerifyConfig
    PROVE  Calm'
<1>1. /\ at = "await" /\ ack /\ phase = "verify" /\ UNCHANGED <<hat, receiverVars>>
  BY DEF VerifyConfig
<1>2. step <= Len(hat.plan) /\ Connected /\ Current.keys \subseteq ram /\ Current.keys \subseteq stored
  BY <1>1 DEF Inv, PassedConfigured, Calm, Said, Verifies
<1>3. Passed
  BY <1>2 DEF VerifyConfig
<1>4. \A a \in Once : NothingOf(replies, reqs, a)
  BY <1>1, NothingSaid DEF Calm
<1> QED
  BY <1>1, <1>2, <1>3, <1>4, PassedHere

LEMMA SavedCalm ==
    ASSUME Inv, PhaseOfStep, Calm, SavedOrPolled
    PROVE  Calm'
<1>1. /\ at = "await" /\ ack /\ phase \in {"save", "monVer"} /\ Advance
      /\ UNCHANGED <<hat, ram, oldPort, hostPort, replies, reqs>>
  BY DEF SavedOrPolled, receiverVars, messageVars
<1>2. Current.kind # "port" /\ Busy
  BY <1>1 DEF PhaseOfStep, Groups, Busy
<1>3. Connected /\ hostPort = Expected
  BY <1>2, HeardInside DEF Calm
<1>4. \A a \in Once : NothingOf(replies', reqs', a)
  BY <1>1, NothingSaid, SamePlaces DEF Calm
<1>5. Connected'
  BY <1>1, <1>3, SamePort
<1> QED
  BY <1>1, <1>3, <1>4, <1>5, StepCalm DEF Advance

(* Without faults only a receiver that does not hear is silent.             *)
LEMMA TimeoutCalm ==
    ASSUME Inv, PhaseOfStep, Calm, Timeout, faults' = faults
    PROVE  Calm'
<1>1. /\ at = "await" /\ ~ack /\ UNCHANGED <<hat, ram, oldPort, replies, reqs>> /\ faults \in Nat
  BY HatFacts DEF Timeout, receiverVars, Inv, StartupTypeOK, LineType
<1>2. reqs = <<>> /\ replies = <<>>
  BY <1>1 DEF Timeout, Fault
<1>3. ~Connected
  BY <1>1, <1>2 DEF Calm, Said, AnswerComes, Coming
<1>4. Current.kind = "port" /\ phase # "monVer"
  BY <1>1, <1>3 DEF Calm, Where, DeafAtPort, Busy, PhaseOfStep
<1>5. at' \in {"attempt", "failed"} /\ UNCHANGED <<hostPort, step, probe>>
  BY <1>4 DEF Timeout, TryAgain
<1>6. (Connected' <=> Connected) /\ PortKeys' = PortKeys /\ Current' = Current
  BY <1>1, <1>5, SamePort DEF Current
<1>7. Ports' /\ NotYet'
  BY <1>1, <1>5, <1>6 DEF Calm, Where, Ports, NotYet, Busy
<1>8. \A a \in Once : NothingOf(replies', reqs', a)
  BY <1>1, <1>2 DEF NothingOf, Has
<1> QED
  BY <1>1, <1>2, <1>3, <1>4, <1>5, <1>6, <1>7, <1>8, RetryCalm

-----------------------------------------------------------------------------
(* The search goes on.                                                      *)
LEMMA FailedCalm ==
    ASSUME Inv, Calm, at = "failed"
    PROVE  /\ ~Connected /\ replies = <<>> /\ reqs = <<>> /\ Current.kind = "port"
           /\ \A a \in Once : NothingOf(<<>>, <<>>, a)
           /\ FlushInput => replies' = <<>>
           /\ probe \in Nat
<1>1. ~Connected /\ replies = <<>> /\ reqs = <<>> /\ Current.kind = "port"
  BY DEF Calm, Where, Deaf, FailedDeaf, DeafAtPort, Busy
<1>2. \A a \in Once : NothingOf(<<>>, <<>>, a)
  BY DEF NothingOf, Has
<1>3. FlushInput => replies' = <<>>
  BY <1>1, FlushOfNothing DEF Inv
<1> QED
  BY <1>1, <1>2, <1>3, HatFacts DEF Inv, StartupTypeOK, LoopType

LEMMA NextRoundCalm ==
    ASSUME Inv, Calm, NextRound
    PROVE  Calm'
<1>1. /\ at = "failed" /\ at' = "attempt"
      /\ UNCHANGED <<hat, ram, oldPort, hostPort, replies, reqs, step, probe>>
  BY DEF NextRound, receiverVars, messageVars
<1>2. (Connected' <=> Connected) /\ PortKeys' = PortKeys /\ Current' = Current
  BY <1>1, SamePort DEF Current
<1>3. Ports' /\ NotYet'
  BY <1>1, <1>2 DEF Calm, Where, Ports, NotYet, Busy
<1> QED
  BY <1>1, <1>2, <1>3, FailedCalm, RetryCalm

LEMMA BackCalm ==
    ASSUME Inv, Calm, BackToExpected
    PROVE  Calm'
<1>1. /\ at = "failed" /\ at' = "attempt" /\ probe > 0 /\ hostPort # Expected /\ hostPort' = Expected
      /\ FlushInput /\ UNCHANGED <<hat, ram, oldPort, reqs, step, probe>>
  BY DEF BackToExpected, Reinit, receiverVars
<1>2. PortKeys' = PortKeys /\ Current' = Current
  BY <1>1 DEF PortKeys, Current
<1>3. Ports'
  BY <1>1, <1>2 DEF Calm, Where, Ports, Busy
<1>4. NotYet'
  <2>1. SUFFICES ASSUME ~(PortKeys \subseteq ram)
                 PROVE  /\ oldPort # Expected /\ hat.probed[probe] # oldPort
                        /\ \A i \in 1..Len(hat.probed) : i < probe => hat.probed[i] # oldPort
    BY <1>1, <1>2 DEF NotYet
  <2>2. /\ oldPort # Expected
        /\ \A i \in 1..Len(hat.probed) : i < probe => hat.probed[i] # oldPort
    BY <1>1, <2>1 DEF Calm, Where, NotYet, Busy
  <2>3. hostPort = hat.probed[probe]
    BY <1>1 DEF Calm, Where, Ports
  <2>4. hostPort # oldPort
    BY <1>1, <2>1, FailedCalm DEF Connected, RxPort
  <2> QED
    BY <2>2, <2>3, <2>4
<1> QED
  BY <1>1, <1>2, <1>3, <1>4, FailedCalm, RetryCalm

(* The last round of a probe ends on the driver's own port.                 *)
LEMMA LastRoundCalm ==
    ASSUME Inv, Calm, at = "failed", LastRound
    PROVE  /\ hostPort = Expected /\ ~(PortKeys \subseteq ram) /\ oldPort # Expected
           /\ \A i \in 1..Len(hat.probed) : i <= probe => hat.probed[i] # oldPort
<1>1. hostPort = Expected
  BY DEF LastRound, Calm, Where, Ports
<1>2. ~(PortKeys \subseteq ram) /\ oldPort # Expected
  BY <1>1, FailedCalm, DeafMeansOldPort
<1>3. ASSUME NEW i \in 1..Len(hat.probed), i <= probe PROVE hat.probed[i] # oldPort
  <2>1. probe \in Nat /\ probe > 0
    BY <1>3, FailedCalm
  <2>2. /\ \A j \in 1..Len(hat.probed) : j < probe => hat.probed[j] # oldPort
        /\ hat.probed[probe] # oldPort
    BY <1>1, <1>2, <2>1 DEF Calm, Where, NotYet, Busy
  <2>3. i < probe \/ i = probe
    BY <1>3, <2>1
  <2> QED
    BY <2>2, <2>3
<1> QED
  BY <1>1, <1>2, <1>3

LEMMA NextProbeCalm ==
    ASSUME Inv, Calm, NextProbe
    PROVE  Calm'
<1>1. /\ at = "failed" /\ at' = "attempt" /\ LastRound /\ Current.kind = "port"
      /\ probe' = probe + 1 /\ hostPort' = hat.probed[probe + 1]
      /\ FlushInput /\ UNCHANGED <<hat, ram, oldPort, reqs, step>>
  BY DEF NextProbe, Reinit, receiverVars
<1>2. PortKeys' = PortKeys /\ Current' = Current
  BY <1>1 DEF PortKeys, Current
<1>3. /\ oldPort # Expected /\ probe \in Nat
      /\ \A i \in 1..Len(hat.probed) : i <= probe => hat.probed[i] # oldPort
  BY <1>1, LastRoundCalm, FailedCalm
<1>4. Ports'
  BY <1>1, <1>2, <1>3 DEF Ports, Busy
<1>5. NotYet'
  <2>1. \A i \in 1..Len(hat.probed) : i < probe + 1 => hat.probed[i] # oldPort
    BY <1>3
  <2> QED
    BY <1>1, <1>3, <2>1 DEF NotYet
<1> QED
  BY <1>1, <1>2, <1>4, <1>5, FailedCalm, RetryCalm

LEMMA NotFoundCalm ==
    ASSUME Inv, Calm, NotFound
    PROVE  Calm'
<1>1. /\ at = "failed" /\ at' = "done" /\ LastRound /\ probe = Len(hat.probed)
      /\ UNCHANGED <<hat, ram, oldPort, hostPort, replies, reqs>>
  BY DEF NotFound, receiverVars, messageVars
<1>2. ~Reachable /\ ~(PortKeys \subseteq ram)
  <2>1. /\ ~(PortKeys \subseteq ram) /\ oldPort # Expected
        /\ \A i \in 1..Len(hat.probed) : i <= probe => hat.probed[i] # oldPort
    BY <1>1, LastRoundCalm
  <2>2. \A i \in 1..Len(hat.probed) : i <= probe
    BY <1>1, FailedCalm
  <2> QED
    BY <2>1, <2>2 DEF Reachable
<1>3. (Reachable' <=> Reachable) /\ PortKeys' = PortKeys
  BY <1>1, SamePort
<1>4. Where'
  BY <1>1, <1>2, <1>3, FailedCalm DEF Where, Deaf, FailedDeaf, DeafAtPort, Ports, NotYet, DoneWell, Busy
<1> QED
  BY <1>1, <1>4, FailedCalm, RestCalm

LEMMA StutterCalm ==
    ASSUME Calm, UNCHANGED startupVars
    PROVE  Calm'
<1>1. UNCHANGED <<hat, ram, oldPort, hostPort, replies, reqs, at, step, probe, phase, ack, stored, ok>>
  BY DEF startupVars, receiverVars, messageVars, loopVars, ackVars
<1>2. (Connected' <=> Connected) /\ PortKeys' = PortKeys /\ (Reachable' <=> Reachable)
      /\ Current' = Current
  BY <1>1, SamePort DEF Current
<1>3. Where'
  BY <1>1, <1>2 DEF Calm, Where, Deaf, FailedDeaf, DeafAtPort, Ports, NotYet, DoneWell, Busy
<1>4. Said'
  BY <1>1, <1>2 DEF Calm, Said, AnswerComes, OnlyOne, Acked, SetHolds, Verifies, Awaited
<1> QED
  BY <1>3, <1>4 DEF Calm

-----------------------------------------------------------------------------
LEMMA InitCalm == StartupInit => CalmInv
<1> SUFFICES ASSUME StartupInit PROVE CalmInv
  OBVIOUS
<1>1. Inv /\ PhaseOfStep
  BY InitInv, InitSave DEF SaveInv
<1>2. \A a \in Once : NothingOf(replies, reqs, a)
  <2>1. SUFFICES ASSUME NEW a \in Once PROVE NothingOf(replies, <<>>, a)
    BY DEF StartupInit
  <2>2. a # "poll"
    BY DEF Once
  <2> QED
    BY <2>2, LeftoversArePolls DEF StartupInit, NothingOf, Has
<1>3. Where
  BY DEF StartupInit, Where, Deaf, FailedDeaf, DeafAtPort, Ports, NotYet, DoneWell, Busy
<1>4. Said
  BY <1>2 DEF StartupInit, Said, AnswerComes, OnlyOne, Acked, SetHolds, Verifies
<1> QED
  BY <1>1, <1>3, <1>4 DEF CalmInv, Calm

(* A fault is never forgotten.                                              *)
LEMMA FaultsOnlyGrow ==
    ASSUME Inv, [StartupNext]_startupVars, faults' = 0
    PROVE  faults = 0
<1>1. faults \in Nat
  BY HatFacts DEF Inv, StartupTypeOK, LineType
<1>2. faults' = faults \/ faults' = faults + 1
  BY DEF StartupNext, HostStep, Answer, Refuse, ParseReply, DropReply, BeginConfigure, BeginSave,
     DontSave, SendGnssEngineStart, PollMonVer, Attempt, PollPassed, WriteMismatches, PollAgain,
     VerifyConfig, SavedOrPolled, Timeout, GiveUp, NextRound, BackToExpected, NextProbe,
     NotFound, Succeed, StartEnds, startupVars, messageVars, Passed, Fault
<1> QED
  BY <1>1, <1>2

LEMMA NextCalm == CalmInv /\ [StartupNext]_startupVars => CalmInv'
<1> SUFFICES ASSUME CalmInv, [StartupNext]_startupVars PROVE CalmInv'
  OBVIOUS
<1>1. Inv /\ PhaseOfStep /\ Inv' /\ PhaseOfStep'
  BY NextInv, PhaseStep DEF CalmInv
<1>2. SUFFICES ASSUME faults' = 0 PROVE Calm'
  BY <1>1 DEF CalmInv
<1>3. faults = 0 /\ faults' = faults /\ Calm /\ misled = {}
  BY <1>1, <1>2, FaultsOnlyGrow DEF CalmInv, Inv, MisledIsFault
<1>4. CASE Answer
  BY <1>1, <1>3, <1>4, AnswerCalm
<1>5. CASE Refuse
  BY <1>3, <1>5 DEF Refuse, Fault
<1>6. CASE ParseReply \/ DropReply
  BY <1>1, <1>3, <1>6, ParseCalm, DropCalm
<1>7. CASE BeginConfigure \/ BeginSave \/ DontSave
  BY <1>1, <1>3, <1>7, ConfigureCalm, SaveCalm, DontSaveCalm
<1>8. CASE SendGnssEngineStart \/ PollMonVer \/ Attempt
  BY <1>1, <1>3, <1>8, StartGnssCalm, MonVerCalm, AttemptCalm
<1>9. CASE PollPassed \/ WriteMismatches \/ PollAgain
  BY <1>1, <1>3, <1>9, PollPassedCalm, WriteCalm, PollAgainCalm
<1>10. CASE VerifyConfig \/ SavedOrPolled \/ Timeout
  BY <1>1, <1>3, <1>10, VerifyCalm, SavedCalm, TimeoutCalm
<1>11. CASE GiveUp
  BY <1>1, <1>3, <1>11, FailedCalm DEF GiveUp
<1>12. CASE NextRound \/ BackToExpected \/ NextProbe \/ NotFound
  BY <1>1, <1>3, <1>12, NextRoundCalm, BackCalm, NextProbeCalm, NotFoundCalm
<1>13. CASE Succeed
  BY <1>1, <1>3, <1>13, SucceedCalm
<1>14. CASE StartEnds \/ UNCHANGED startupVars
  BY <1>3, <1>14, StutterCalm DEF StartEnds
<1> QED
  BY <1>4, <1>5, <1>6, <1>7, <1>8, <1>9, <1>10, <1>11, <1>12, <1>13, <1>14 DEF StartupNext, HostStep

(* Without faults start() succeeds on every port it looks at, and leaves    *)
(* host and receiver on the same parameters (reconfigureCommPort, configure *)
(* and awaitAck): whatever true report of an earlier run, or acknowledgement *)
(* that came too early, is on the line, each request meets its own reply, a *)
(* group that was written verifies, and no probe of another port loses a    *)
(* receiver that can be heard.                                              *)
THEOREM FaultFreeStarts == StartupSpec => []FaultFreeStartSucceeds
<1>1. CalmInv => FaultFreeStartSucceeds
  BY DEF CalmInv, Calm, Where, DoneWell, FaultFreeStartSucceeds
<1> QED
  BY <1>1, InitCalm, NextCalm, PTL DEF StartupSpec
=============================================================================
