------------------------ MODULE Rtcm3CorrectionsProofs ------------------------
(***************************************************************************)
(* Proofs about Rtcm3Corrections for every set of message types and        *)
(* frames, every buffer and every number of messages and calls: the UART   *)
(* thread of a base always finds room to read, a set of corrections never  *)
(* mixes bursts, a rover sends its sets in order, and how the receiver's *)
(* stream is cut into reads makes no difference to what is found in it.    *)
(***************************************************************************)
EXTENDS Rtcm3Corrections, SequenceTheorems, FiniteSetTheorems, WellFoundedInduction, TLAPS

N == Cardinality(Ids)

(* What the sequences hold.                                                 *)
Messages == Nat \ {0}
CellType == [msg : Messages, part : Nat, claim : Nat, shape : Shapes]
FrameType == Nat \X Nat \X Nat
SeqsType ==
    /\ out \in Seq(CellType) /\ buf \in Seq(CellType)
    /\ pending \in Seq(Messages) /\ framed \in Seq(Messages)
    /\ result \in Seq(Ids \X Nat)
    /\ lost \in BOOLEAN /\ overflowed \in BOOLEAN
    /\ applied \in Seq(FrameType) /\ incoming \in Seq(FrameType)
    /\ sending \in Seq(FrameType) /\ received \in Seq(FrameType)
    /\ unwritten \in SUBSET FrameType

Types == TypeOK /\ SeqsType

(* The guard is held by the thread that is in the store, and by nobody else *)
GuardHeld ==
    /\ guard = "uart" <=> uartPc \in {"write", "release"}
    /\ guard = "app" <=> appPc \in {"collect", "applied"}
    /\ uartPc = "write" => pending # <<>>

(* What is still to be stored is the end of what was framed.                *)
IsEnd(p, f) ==
    /\ Len(p) <= Len(f)
    /\ \A k \in 1..Len(p) : p[k] = f[Len(f) - Len(p) + k]
PendingIsTheEnd == IsEnd(pending, framed)

(* As long as nothing is damaged or dropped the store holds the messages of *)
(* the burst up to the last one stored, and those of the burst before.      *)
Stored == Len(framed) - Len(pending)
StoreUpTo(b, t) ==
    /\ Stored = (b - 1) * N + t
    /\ \A i \in Ids : frames[i] = IF i <= t THEN b ELSE b - 1
StoreInOrder ==
    Undamaged =>
        \/ Stored = 0 /\ frames = [i \in Ids |-> 0]
        \/ \E b \in Nat \ {0}, t \in Ids : StoreUpTo(b, t)

(* What the running call has found is what the store holds: nobody stores   *)
(* while it looks the types up.                                             *)
FoundIsStored ==
    /\ appPc = "ask" => result = <<>>
    /\ appPc = "collect" => \A i \in 1..Len(result) : result[i][2] = frames[result[i][1]]

BaseInv ==
    GuardHeld /\ PendingIsTheEnd /\ StoreInOrder /\ FoundIsStored /\ CorrectionsBelongTogether

(* A set of corrections: its frames, in order.                              *)
IsSet(s, c) == \A k \in 1..Len(s) : s[k] = <<c, k, Len(s)>>
Rest(s, c, fr, n) == \A k \in 1..Len(s) : s[k] = <<c, fr + k - 1, n>>
SetsBelow(s, c) == \A k \in 1..Len(s) : s[k][1] < c
SettledBelow(c) == \A f \in Settled : f[1] < c

(* The frames being sent are the rest of one set: its earlier frames are    *)
(* settled, and so are all frames of the sets before.                       *)
SendingGoesOn ==
    /\ sending # <<>> =>
         LET c == sending[1][1] fr == sending[1][2] n == sending[1][3]
         IN /\ Rest(sending, c, fr, n)
            /\ fr >= 1 /\ n = fr + Len(sending) - 1
            /\ \A k \in 1..(fr - 1) : <<c, k, n>> \in Settled
            /\ \A f \in Settled : /\ Earlier(f, <<c, fr, n>>)
                                  /\ AllSettled(f) \/ (f[1] = c /\ f[3] = n)
    /\ sending = <<>> => \A f \in Settled : AllSettled(f)
    /\ uartPc \notin {"release", "transmit"} => sending = <<>>

(* A set that waits is newer than what is or was sent, and the one that is  *)
(* being applied is newer than both.                                        *)
WaitingIsNewer ==
    /\ incoming # <<>> =>
         /\ IsSet(incoming, incoming[1][1]) /\ incoming[1][1] <= calls
         /\ SettledBelow(incoming[1][1]) /\ SetsBelow(sending, incoming[1][1])
    /\ SettledBelow(calls + 1) /\ SetsBelow(sending, calls + 1)
    /\ appPc = "apply" =>
         /\ IsSet(applied, calls)
         /\ SetsBelow(incoming, calls) /\ SettledBelow(calls) /\ SetsBelow(sending, calls)

RoverInv == GuardHeld /\ SendingGoesOn /\ WaitingIsNewer /\ SetsSentInOrder

Inv == TypeOK /\ SeqsType /\ RoomToRead /\ BaseInv /\ RoverInv

-----------------------------------------------------------------------------
(* Numbers and sequences                                                    *)

(* A set of numbers that is not empty has a least one.                      *)
LEMMA LeastExists ==
    ASSUME NEW S, S \subseteq Nat, S # {}
    PROVE  \E k \in S : \A j \in S : k <= j
<1> DEFINE Less == {ss \in Nat \X Nat : ss[1] < ss[2]}
<1>1. IsWellFoundedOn(Less, Nat)
  BY NatLessThanWellFounded DEF OpToRel
<1>2. \A j, k \in Nat : <<j, k>> \in Less <=> j < k
  OBVIOUS
<1> HIDE DEF Less
<1>3. PICK k \in S : \A j \in S : <<j, k>> \notin Less
  BY <1>1, WFMin
<1>4. \A j \in S : ~(j < k)
  BY <1>2, <1>3
<1> QED
  BY <1>4

LEMMA NumberOfIds == N \in Nat \ {0} /\ Ids = 1..N
BY IdsAssumption, FS_CardinalityType DEF N

LEMMA DivMod ==
    ASSUME NEW n \in Nat \ {0}, NEW q \in Nat, NEW r \in 0..(n - 1)
    PROVE  (q * n + r) \div n = q /\ (q * n + r) % n = r
OBVIOUS

(* The t-th message of the b-th burst.                                      *)
LEMMA TypeAndBurst ==
    ASSUME NEW b \in Nat \ {0}, NEW t \in Ids
    PROVE  Type((b - 1) * N + t) = t /\ Burst((b - 1) * N + t) = b
<1>1. N \in Nat \ {0} /\ t \in 1..N /\ b - 1 \in Nat /\ t - 1 \in 0..(N - 1)
  BY NumberOfIds
<1>2. ((b - 1) * N + (t - 1)) \div N = b - 1 /\ ((b - 1) * N + (t - 1)) % N = t - 1
  BY <1>1, DivMod
<1>3. ((b - 1) * N + t) - 1 = (b - 1) * N + (t - 1)
  BY <1>1
<1>4. Type((b - 1) * N + t) = (t - 1) + 1 /\ Burst((b - 1) * N + t) = (b - 1) + 1
  BY <1>2, <1>3 DEF Type, Burst, N
<1> QED
  BY <1>1, <1>4

LEMMA BurstType ==
    ASSUME NEW m \in Messages, N # 0
    PROVE  Burst(m) \in Nat \ {0}
BY NumberOfIds DEF Burst, N, Messages

-----------------------------------------------------------------------------
(* extractFrames                                                            *)

LEMMA PreambleFound ==
    ASSUME NEW cells \in Seq(CellType), Preamble(cells) # 0
    PROVE  Preamble(cells) \in 1..Len(cells) /\ cells[Preamble(cells)].claim > 0
<1> DEFINE at == {k \in 1..Len(cells) : cells[k].claim > 0}
<1>1. at # {} /\ at \subseteq Nat
  BY DEF Preamble
<1>2. PICK k \in at : \A j \in at : k <= j
  BY <1>1, LeastExists
<1>3. Preamble(cells) = CHOOSE i \in at : \A j \in at : i <= j
  BY <1>1 DEF Preamble
<1>4. Preamble(cells) \in at
  BY <1>2, <1>3
<1> QED
  BY <1>4

LEMMA ClaimedRange ==
    ASSUME NEW cell \in CellType
    PROVE  /\ Claimed(cell) \in 0..FieldLimit
           /\ cell.claim > 0 => Claimed(cell) > 0
BY BoundsAssumption DEF Claimed, CellType


(* A round that finds no preamble ends the pass with nothing to carry.      *)
LEMMA NothingFound ==
    ASSUME NEW cells, Preamble(cells) = 0
    PROVE  ExtractOne(Start(cells)).over = TRUE /\ ExtractOne(Start(cells)).carry = <<>>
<1> DEFINE s == Start(cells)
<1>1. s.rest = cells /\ s.over = FALSE
  BY DEF Start
<1>2. ExtractOne(s) = [s EXCEPT !.over = TRUE, !.rest = <<>>]
  <2> HIDE DEF s
  <2> QED
    BY <1>1 DEF ExtractOne
<1> QED
  BY <1>2 DEF Start

(* A round that finds a frame of which not everything has come.             *)
LEMMA RestCarried ==
    ASSUME NEW cells, NEW k \in Nat \ {0}, k = Preamble(cells),
           NEW remaining \in Nat, remaining = Len(cells) - k + 1,
           NEW n \in Nat, n = Claimed(cells[k]), remaining < 2 \/ remaining < n
    PROVE  /\ ExtractOne(Start(cells)).over = TRUE
           /\ ExtractOne(Start(cells)).carry = SubSeq(cells, k, Len(cells))
<1> DEFINE s == Start(cells)
<1>1. s.rest = cells /\ s.over = FALSE
  BY DEF Start
<1>2. ExtractOne(s) = [s EXCEPT !.over = TRUE, !.rest = <<>>,
                                !.carry = SubSeq(cells, k, Len(cells))]
  <2> HIDE DEF s
  <2> QED
    BY <1>1 DEF ExtractOne
<1> QED
  BY <1>2 DEF Start

(* A round that finds a whole frame, intact or not.                         *)
LEMMA FrameFound ==
    ASSUME NEW cells, NEW k \in Nat \ {0}, k = Preamble(cells),
           NEW remaining \in Nat, remaining = Len(cells) - k + 1,
           NEW n \in Nat, n = Claimed(cells[k]), ~(remaining < 2 \/ remaining < n),
           NEW frame, frame = SubSeq(cells, k, k + n - 1)
    PROVE  /\ ExtractOne(Start(cells)).over = FALSE
           /\ ExtractOne(Start(cells)).rest = SubSeq(cells, k + n, Len(cells))
           /\ ExtractOne(Start(cells)).got =
                IF CheckFrame(frame) THEN Append(<<>>, frame[1].msg) ELSE <<>>
BY DEF ExtractOne, Start

(* A round of extractFrames: it ends the pass with what may become a frame, *)
(* which leaves room in the buffer, or goes on behind a frame.              *)
LEMMA ExtractOneEffect ==
    ASSUME NEW cells \in Seq(CellType), NEW round, round = ExtractOne(Start(cells))
    PROVE  /\ round.over \in BOOLEAN
           /\ round.over => round.carry \in Seq(CellType) /\ Len(round.carry) < BufSize
           /\ ~round.over => round.rest \in Seq(CellType) /\ round.got \in Seq(Messages)
<1> DEFINE k == Preamble(cells)
           n == Claimed(cells[k])
           remaining == Len(cells) - k + 1
           frame == SubSeq(cells, k, k + n - 1)
<1>1. CASE k = 0
  <2>1. round.over = TRUE /\ round.carry = <<>>
    BY <1>1, NothingFound
  <2> HIDE DEF k
  <2>2. Len(round.carry) < BufSize /\ round.carry \in Seq(CellType)
    BY <2>1, BoundsAssumption
  <2> QED
    BY <2>1, <2>2
<1>2. CASE k # 0
  <2>1. k \in 1..Len(cells) /\ cells[k] \in CellType /\ cells[k].claim > 0
    BY <1>2, PreambleFound
  <2>2. n \in 1..FieldLimit /\ n \in Nat /\ remaining \in Nat
    BY <2>1, ClaimedRange, BoundsAssumption
  <2>3. CASE remaining < 2 \/ remaining < n
    <3>1. round.over = TRUE /\ round.carry = SubSeq(cells, k, Len(cells))
      <4>1. k = Preamble(cells) /\ remaining = Len(cells) - k + 1 /\ n = Claimed(cells[k])
        OBVIOUS
      <4>2. k \in Nat \ {0}
        BY <2>1
      <4> HIDE DEF k, n, remaining
      <4> QED
        BY <4>1, <4>2, <2>2, <2>3, RestCarried
    <3>2. SubSeq(cells, k, Len(cells)) \in Seq(CellType)
          /\ Len(SubSeq(cells, k, Len(cells))) = remaining
      BY <2>1, SubSeqProperties
    <3> HIDE DEF k, n, remaining
    <3>3. round.carry \in Seq(CellType) /\ Len(round.carry) < BufSize
      BY <2>2, <2>3, <3>1, <3>2, BoundsAssumption
    <3> QED
      BY <3>1, <3>3
  <2>4. CASE ~(remaining < 2 \/ remaining < n)
    <3>1. /\ round.over = FALSE /\ round.rest = SubSeq(cells, k + n, Len(cells))
          /\ round.got = IF CheckFrame(frame) THEN Append(<<>>, frame[1].msg) ELSE <<>>
      <4>1. /\ k = Preamble(cells) /\ remaining = Len(cells) - k + 1 /\ n = Claimed(cells[k])
            /\ frame = SubSeq(cells, k, k + n - 1)
        OBVIOUS
      <4>2. k \in Nat \ {0}
        BY <2>1
      <4> HIDE DEF k, n, remaining, frame
      <4> QED
        BY <4>1, <4>2, <2>2, <2>4, FrameFound
    <3>2. SubSeq(cells, k + n, Len(cells)) \in Seq(CellType)
      BY <2>1, <2>2, SubSeqProperties
    <3>3. frame[1] = cells[k] /\ cells[k].msg \in Messages
      <4>1. \A i \in k..(k + n - 1) : cells[i] \in CellType
        BY <2>1, <2>2, <2>4
      <4>2. frame[1] = cells[k]
        BY <2>1, <2>2, <4>1, SubSeqProperties
      <4> QED
        BY <2>1, <4>2 DEF CellType
    <3> HIDE DEF k, n, remaining, frame
    <3>4. Append(<<>>, frame[1].msg) \in Seq(Messages)
      BY <3>3, EmptySeq, AppendProperties
    <3>5. round.got \in Seq(Messages)
      BY <3>1, <3>4
    <3> QED
      BY <3>1, <3>2, <3>5
  <2> QED
    BY <2>3, <2>4
<1> QED
  BY <1>1, <1>2

LEMMA CellsType ==
    ASSUME NEW m \in Messages, NEW sh \in Shapes
    PROVE  Cells(m, sh) \in Seq(CellType)
<1>1. sh.claims \in Seq(Nat \ {1})
  BY ShapesAssumption
<1>2. \A k \in 1..Len(sh.claims) :
         [msg |-> m, part |-> k, claim |-> sh.claims[k], shape |-> sh] \in CellType
  BY <1>1 DEF CellType
<1> QED
  BY <1>1, <1>2 DEF Cells

-----------------------------------------------------------------------------
(* The types, and the room in the buffer                                    *)

(* Every step keeps the types.                                              *)
LEMMA TypesStep ==
    ASSUME Types, GuardHeld, [Next]_vars
    PROVE  Types'
<1> USE BoundsAssumption
    DEF Types, TypeOK, SeqsType, Messages
<1>1. ASSUME NEW sh \in Shapes, Emit(sh)
      PROVE  Types'
  BY <1>1, CellsType DEF Emit, storeVars, callVars, histVars
<1>2. ASSUME NEW ids \in Requests, Ask(ids)
      PROVE  Types'
  BY <1>2, RequestsAssumption DEF Ask, uartVars, storeVars, histVars
<1>3. ASSUME NEW n \in SetSizes, Apply(n)
      PROVE  Types'
  <2>1. n \in Nat /\ calls + 1 \in Nat /\ applied' = [k \in 1..n |-> <<calls + 1, k, n>>]
    BY <1>3 DEF Apply
  <2>2. applied' \in Seq(FrameType)
    BY <2>1 DEF FrameType
  <2> HIDE DEF Messages
  <2> QED
    BY <1>3, <2>2 DEF Apply, uartVars, storeVars, histVars
<1>4. CASE GetFrames
  BY <1>4 DEF GetFrames, uartVars, storeVars, histVars, Take
<1>5. CASE LookUp
  BY <1>5 DEF LookUp, uartVars, storeVars, histVars
<1>6. CASE Collected
  BY <1>6 DEF Collected, uartVars, storeVars, histVars, Release
<1>7. CASE AskTimesOut
  BY <1>7 DEF AskTimesOut, uartVars, storeVars, TimesOut
<1>8. CASE UpdateFrames
  BY <1>8 DEF UpdateFrames, uartVars, histVars, Take
<1>9. CASE ReleaseApplied
  BY <1>9 DEF ReleaseApplied, uartVars, storeVars, histVars, Release
<1>10. CASE AndNotify
  BY <1>10 DEF AndNotify, uartVars, histVars
<1>11. CASE ApplyTimesOut
  BY <1>11 DEF ApplyTimesOut, uartVars, storeVars, TimesOut
<1>12. CASE LoopTop
  BY <1>12 DEF LoopTop, uartVars, storeVars, callVars, histVars
<1>13. ASSUME NEW n \in 1..BufSize, ReadUart(n)
       PROVE  Types'
  <2>1. n \in Nat /\ n <= Len(out) /\ out \in Seq(CellType)
    BY <1>13 DEF ReadUart
  <2>2. SubSeq(out, n + 1, Len(out)) \in Seq(CellType) /\ SubSeq(out, 1, n) \in Seq(CellType)
    BY <2>1, SubSeqProperties
  <2>3. out' \in Seq(CellType) /\ buf' \in Seq(CellType)
    BY <1>13, <2>2 DEF ReadUart
  <2> QED
    BY <1>13, <2>3 DEF ReadUart, storeVars, callVars, histVars
<1>14. CASE ExtractFrame
  <2>1. PICK round \in {ExtractOne(Start(buf))} :
           /\ ~round.over /\ buf' = round.rest
           /\ pending' = pending \o round.got /\ framed' = framed \o round.got
    BY <1>14 DEF ExtractFrame
  <2>2. round.rest \in Seq(CellType) /\ round.got \in Seq(Messages)
    BY <2>1, ExtractOneEffect
  <2>3. pending' \in Seq(Messages) /\ framed' \in Seq(Messages) /\ buf' \in Seq(CellType)
    BY <2>1, <2>2
  <2> QED
    BY <1>14, <2>3 DEF ExtractFrame, storeVars, callVars
<1>15. CASE ExtractEnds
  <2>1. PICK round \in {ExtractOne(Start(buf))} :
           \/ round.over /\ buf' = round.carry /\ UNCHANGED overflowed
           \/ buf' = <<>> /\ overflowed' = (overflowed \/ buf # <<>>)
    BY <1>15 DEF ExtractEnds
  <2>2. round.over => round.carry \in Seq(CellType)
    BY <2>1, ExtractOneEffect
  <2>3. buf' \in Seq(CellType) /\ overflowed' \in BOOLEAN
    BY <2>1, <2>2, EmptySeq
  <2> QED
    BY <1>15, <2>3 DEF ExtractEnds, storeVars, callVars
<1>16. CASE UpdateFrame
  BY <1>16 DEF UpdateFrame, uartVars, storeVars, callVars, histVars, Take
<1>17. CASE WriteFrame
  <2>1. pending # <<>> /\ uartPc = "write"
    BY <1>17 DEF WriteFrame, GuardHeld
  <2>2. Head(pending) \in Messages /\ Tail(pending) \in Seq(Messages)
    BY <2>1
  <2>3. ASSUME NEW i \in Ids
        PROVE  frames'[i] \in Nat
    <3>1. N # 0
      BY <2>3, NumberOfIds
    <3>2. Burst(Head(pending)) \in Nat
      BY <2>2, <3>1, BurstType
    <3> QED
      BY <1>17, <3>2 DEF WriteFrame
  <2>4. frames' \in [Ids -> Nat]
    BY <1>17, <2>3 DEF WriteFrame
  <2> QED
    BY <1>17, <2>2, <2>4 DEF WriteFrame, Release, callVars, histVars
<1>18. CASE UpdateTimesOut
  BY <1>18 DEF UpdateTimesOut, storeVars, callVars, TimesOut
<1>19. CASE PassEnds
  BY <1>19 DEF PassEnds, uartVars, storeVars, callVars, histVars
<1>20. CASE Notified
  BY <1>20 DEF Notified, uartVars, callVars, histVars
<1>21. CASE WaitStopped
  BY <1>21 DEF WaitStopped, uartVars, storeVars, callVars, histVars
<1>22. CASE WaitForFrames
  BY <1>22 DEF WaitForFrames, uartVars, callVars, histVars, Take
<1>23. CASE ReleaseFetched
  BY <1>23 DEF ReleaseFetched, uartVars, storeVars, callVars, histVars, Release
<1>24. CASE FetchTimesOut
  BY <1>24 DEF FetchTimesOut, uartVars, storeVars, callVars, TimesOut
<1>25. CASE Transmit
  <2>1. /\ Head(sending) \in FrameType /\ Tail(sending) \in Seq(FrameType)
        /\ \/ received' = Append(received, Head(sending)) /\ unwritten' = unwritten
           \/ unwritten' = unwritten \cup {Head(sending)} /\ received' = received
    BY <1>25, HeadTailProperties DEF Transmit
  <2>2. received' \in Seq(FrameType) /\ unwritten' \in SUBSET FrameType
    <3>1. received \in Seq(FrameType) /\ unwritten \in SUBSET FrameType
      OBVIOUS
    <3>2. PICK h : h = Head(sending)
      OBVIOUS
    <3>3. /\ h \in FrameType
          /\ \/ received' = Append(received, h) /\ unwritten' = unwritten
             \/ unwritten' = unwritten \cup {h} /\ received' = received
      BY <2>1, <3>2
    <3>4. Append(received, h) \in Seq(FrameType)
      BY <3>1, <3>3, AppendProperties
    <3> QED
      BY <3>1, <3>3, <3>4
  <2> QED
    BY <1>25, <2>1, <2>2 DEF Transmit, uartVars, storeVars, callVars, histVars
<1>26. CASE Transmitted
  BY <1>26 DEF Transmitted, uartVars, storeVars, callVars, histVars
<1>27. CASE RequestStop
  BY <1>27 DEF RequestStop, uartVars, storeVars, callVars, histVars
<1>28. CASE UNCHANGED vars
  BY <1>28 DEF vars, uartVars, storeVars, callVars, histVars
<1> QED
  BY <1>1, <1>2, <1>3, <1>4, <1>5, <1>6, <1>7, <1>8, <1>9, <1>10, <1>11, <1>12, <1>13,
     <1>14, <1>15, <1>16, <1>17, <1>18, <1>19, <1>20, <1>21, <1>22, <1>23, <1>24, <1>25,
     <1>26, <1>27, <1>28
  DEF Next, Begin, CallStep, UartStep, UartBase, UartRover

(* A pass ends with room in the buffer.                                     *)
LEMMA RoomStep ==
    ASSUME RoomToRead, Types, [Next]_vars
    PROVE  RoomToRead'
<1> USE BoundsAssumption
    DEF Types, TypeOK, SeqsType, RoomToRead
<1>1. ASSUME NEW sh \in Shapes, Emit(sh)
      PROVE  RoomToRead'
  BY <1>1 DEF Emit, storeVars, callVars, histVars
<1>2. ASSUME NEW ids \in Requests, Ask(ids)
      PROVE  RoomToRead'
  BY <1>2 DEF Ask, uartVars, storeVars, histVars
<1>3. ASSUME NEW n \in SetSizes, Apply(n)
      PROVE  RoomToRead'
  BY <1>3 DEF Apply, uartVars, storeVars, histVars
<1>4. CASE GetFrames
  BY <1>4 DEF GetFrames, uartVars, storeVars, histVars, Take
<1>5. CASE LookUp
  BY <1>5 DEF LookUp, uartVars, storeVars, histVars
<1>6. CASE Collected
  BY <1>6 DEF Collected, uartVars, storeVars, histVars, Release
<1>7. CASE AskTimesOut
  BY <1>7 DEF AskTimesOut, uartVars, storeVars, TimesOut
<1>8. CASE UpdateFrames
  BY <1>8 DEF UpdateFrames, uartVars, histVars, Take
<1>9. CASE ReleaseApplied
  BY <1>9 DEF ReleaseApplied, uartVars, storeVars, histVars, Release
<1>10. CASE AndNotify
  BY <1>10 DEF AndNotify, uartVars, histVars
<1>11. CASE ApplyTimesOut
  BY <1>11 DEF ApplyTimesOut, uartVars, storeVars, TimesOut
<1>12. CASE LoopTop
  BY <1>12 DEF LoopTop, uartVars, storeVars, callVars, histVars
<1>13. ASSUME NEW n \in 1..BufSize, ReadUart(n)
       PROVE  RoomToRead'
  BY <1>13 DEF ReadUart, storeVars, callVars
<1>14. CASE ExtractFrame
  BY <1>14 DEF ExtractFrame, storeVars, callVars
<1>15. CASE ExtractEnds
  BY <1>15, ExtractOneEffect DEF ExtractEnds, storeVars, callVars
<1>16. CASE UpdateFrame
  BY <1>16 DEF UpdateFrame, uartVars, storeVars, callVars, histVars, Take
<1>17. CASE WriteFrame
  BY <1>17 DEF WriteFrame, callVars, histVars, Release
<1>18. CASE UpdateTimesOut
  BY <1>18 DEF UpdateTimesOut, storeVars, callVars, TimesOut
<1>19. CASE PassEnds
  BY <1>19 DEF PassEnds, uartVars, storeVars, callVars, histVars
<1>20. CASE Notified
  BY <1>20 DEF Notified, uartVars, callVars, histVars
<1>21. CASE WaitStopped
  BY <1>21 DEF WaitStopped, uartVars, storeVars, callVars, histVars
<1>22. CASE WaitForFrames
  BY <1>22 DEF WaitForFrames, uartVars, callVars, histVars, Take
<1>23. CASE ReleaseFetched
  BY <1>23 DEF ReleaseFetched, uartVars, storeVars, callVars, histVars, Release
<1>24. CASE FetchTimesOut
  BY <1>24 DEF FetchTimesOut, uartVars, storeVars, callVars, TimesOut
<1>25. CASE Transmit
  BY <1>25 DEF Transmit, uartVars, storeVars, callVars, histVars
<1>26. CASE Transmitted
  BY <1>26 DEF Transmitted, uartVars, storeVars, callVars, histVars
<1>27. CASE RequestStop
  BY <1>27 DEF RequestStop, uartVars, storeVars, callVars, histVars
<1>28. CASE UNCHANGED vars
  BY <1>28 DEF vars, uartVars, storeVars, callVars, histVars
<1> QED
  BY <1>1, <1>2, <1>3, <1>4, <1>5, <1>6, <1>7, <1>8, <1>9, <1>10, <1>11, <1>12, <1>13,
     <1>14, <1>15, <1>16, <1>17, <1>18, <1>19, <1>20, <1>21, <1>22, <1>23, <1>24, <1>25,
     <1>26, <1>27, <1>28
  DEF Next, Begin, CallStep, UartStep, UartBase, UartRover

-----------------------------------------------------------------------------
(* A base: the store follows the stream                                     *)

LEMMA EndExtended ==
    ASSUME NEW p \in Seq(Messages), NEW f \in Seq(Messages), NEW g \in Seq(Messages), IsEnd(p, f)
    PROVE  IsEnd(p \o g, f \o g)
<1>1. /\ Len(p \o g) = Len(p) + Len(g) /\ Len(f \o g) = Len(f) + Len(g)
      /\ Len(p) \in Nat /\ Len(g) \in Nat /\ Len(f) \in Nat
  OBVIOUS
<1>2. ASSUME NEW k \in 1..(Len(p) + Len(g))
      PROVE  (p \o g)[k] = (f \o g)[Len(f) - Len(p) + k]
  <2>1. CASE k <= Len(p)
    BY <1>1, <2>1 DEF IsEnd
  <2>2. CASE ~(k <= Len(p))
    BY <1>1, <2>2 DEF IsEnd
  <2> QED
    BY <2>1, <2>2
<1>3. \A k \in 1..Len(p \o g) : (p \o g)[k] = (f \o g)[Len(f \o g) - Len(p \o g) + k]
  <2>1. Len(f \o g) - Len(p \o g) = Len(f) - Len(p)
    BY <1>1
  <2> QED
    BY <1>1, <1>2, <2>1
<1> QED
  BY <1>1, <1>3 DEF IsEnd

LEMMA EndShortened ==
    ASSUME NEW p \in Seq(Messages), NEW f \in Seq(Messages), IsEnd(p, f), p # <<>>
    PROVE  IsEnd(Tail(p), f)
<1>1. Len(Tail(p)) = Len(p) - 1 /\ \A k \in 1..Len(Tail(p)) : Tail(p)[k] = p[k + 1]
  OBVIOUS
<1> QED
  BY <1>1 DEF IsEnd

(* What was undamaged with more frames was undamaged before them.           *)
LEMMA UndamagedBefore ==
    ASSUME NEW f \in Seq(Messages), NEW g \in Seq(Messages),
           f \o g = [m \in 1..Len(f \o g) |-> m]
    PROVE  f = [m \in 1..Len(f) |-> m]
<1>1. \A m \in 1..Len(f) : f[m] = (f \o g)[m] /\ m \in 1..Len(f \o g)
  OBVIOUS
<1>2. \A m \in 1..Len(f) : f[m] = m
  BY <1>1
<1> QED
  BY <1>2


(* The guard is taken and released by one thread at a time.                 *)
LEMMA GuardStep ==
    ASSUME Types, GuardHeld, [Next]_vars
    PROVE  GuardHeld'
<1> USE DEF Types, TypeOK, SeqsType, GuardHeld
<1>1. ASSUME NEW sh \in Shapes, Emit(sh)
      PROVE  GuardHeld'
  BY <1>1 DEF Emit, storeVars, callVars, histVars
<1>2. ASSUME NEW ids \in Requests, Ask(ids)
      PROVE  GuardHeld'
  BY <1>2 DEF Ask, uartVars, storeVars, histVars
<1>3. ASSUME NEW n \in SetSizes, Apply(n)
      PROVE  GuardHeld'
  BY <1>3 DEF Apply, uartVars, storeVars, histVars
<1>4. CASE GetFrames
  BY <1>4 DEF GetFrames, uartVars, storeVars, histVars, Take
<1>5. CASE LookUp
  BY <1>5 DEF LookUp, uartVars, storeVars, histVars
<1>6. CASE Collected
  BY <1>6 DEF Collected, uartVars, storeVars, histVars, Release
<1>7. CASE AskTimesOut
  BY <1>7 DEF AskTimesOut, uartVars, storeVars, TimesOut
<1>8. CASE UpdateFrames
  BY <1>8 DEF UpdateFrames, uartVars, histVars, Take
<1>9. CASE ReleaseApplied
  BY <1>9 DEF ReleaseApplied, uartVars, storeVars, histVars, Release
<1>10. CASE AndNotify
  BY <1>10 DEF AndNotify, uartVars, histVars
<1>11. CASE ApplyTimesOut
  BY <1>11 DEF ApplyTimesOut, uartVars, storeVars, TimesOut
<1>12. CASE LoopTop
  BY <1>12 DEF LoopTop, uartVars, storeVars, callVars, histVars
<1>13. ASSUME NEW n \in 1..BufSize, ReadUart(n)
       PROVE  GuardHeld'
  BY <1>13 DEF ReadUart, storeVars, callVars
<1>14. CASE ExtractFrame
  BY <1>14 DEF ExtractFrame, storeVars, callVars
<1>15. CASE ExtractEnds
  BY <1>15 DEF ExtractEnds, storeVars, callVars
<1>16. CASE UpdateFrame
  BY <1>16 DEF UpdateFrame, uartVars, storeVars, callVars, histVars, Take
<1>17. CASE WriteFrame
  BY <1>17 DEF WriteFrame, callVars, histVars, Release
<1>18. CASE UpdateTimesOut
  BY <1>18 DEF UpdateTimesOut, storeVars, callVars, TimesOut
<1>19. CASE PassEnds
  BY <1>19 DEF PassEnds, uartVars, storeVars, callVars, histVars
<1>20. CASE Notified
  BY <1>20 DEF Notified, uartVars, callVars, histVars
<1>21. CASE WaitStopped
  BY <1>21 DEF WaitStopped, uartVars, storeVars, callVars, histVars
<1>22. CASE WaitForFrames
  BY <1>22 DEF WaitForFrames, uartVars, callVars, histVars, Take
<1>23. CASE ReleaseFetched
  BY <1>23 DEF ReleaseFetched, uartVars, storeVars, callVars, histVars, Release
<1>24. CASE FetchTimesOut
  BY <1>24 DEF FetchTimesOut, uartVars, storeVars, callVars, TimesOut
<1>25. CASE Transmit
  BY <1>25 DEF Transmit, uartVars, storeVars, callVars, histVars
<1>26. CASE Transmitted
  BY <1>26 DEF Transmitted, uartVars, storeVars, callVars, histVars
<1>27. CASE RequestStop
  BY <1>27 DEF RequestStop, uartVars, storeVars, callVars, histVars
<1>28. CASE UNCHANGED vars
  BY <1>28 DEF vars, uartVars, storeVars, callVars, histVars
<1> QED
  BY <1>1, <1>2, <1>3, <1>4, <1>5, <1>6, <1>7, <1>8, <1>9, <1>10, <1>11, <1>12, <1>13,
     <1>14, <1>15, <1>16, <1>17, <1>18, <1>19, <1>20, <1>21, <1>22, <1>23, <1>24, <1>25,
     <1>26, <1>27, <1>28
  DEF Next, Begin, CallStep, UartStep, UartBase, UartRover

(* Frames are stored in the order they were framed in.                      *)
LEMMA PendingStep ==
    ASSUME PendingIsTheEnd, Types, GuardHeld, [Next]_vars
    PROVE  PendingIsTheEnd'
<1> USE DEF Types, SeqsType, PendingIsTheEnd
<1>1. ASSUME NEW sh \in Shapes, Emit(sh)
      PROVE  PendingIsTheEnd'
  BY <1>1 DEF Emit, storeVars, callVars, histVars
<1>2. ASSUME NEW ids \in Requests, Ask(ids)
      PROVE  PendingIsTheEnd'
  BY <1>2 DEF Ask, uartVars, storeVars, histVars
<1>3. ASSUME NEW n \in SetSizes, Apply(n)
      PROVE  PendingIsTheEnd'
  BY <1>3 DEF Apply, uartVars, storeVars, histVars
<1>4. CASE GetFrames
  BY <1>4 DEF GetFrames, uartVars, storeVars, histVars, Take
<1>5. CASE LookUp
  BY <1>5 DEF LookUp, uartVars, storeVars, histVars
<1>6. CASE Collected
  BY <1>6 DEF Collected, uartVars, storeVars, histVars, Release
<1>7. CASE AskTimesOut
  BY <1>7 DEF AskTimesOut, uartVars, storeVars, TimesOut
<1>8. CASE UpdateFrames
  BY <1>8 DEF UpdateFrames, uartVars, histVars, Take
<1>9. CASE ReleaseApplied
  BY <1>9 DEF ReleaseApplied, uartVars, storeVars, histVars, Release
<1>10. CASE AndNotify
  BY <1>10 DEF AndNotify, uartVars, histVars
<1>11. CASE ApplyTimesOut
  BY <1>11 DEF ApplyTimesOut, uartVars, storeVars, TimesOut
<1>12. CASE LoopTop
  BY <1>12 DEF LoopTop, uartVars, storeVars, callVars, histVars
<1>13. ASSUME NEW n \in 1..BufSize, ReadUart(n)
       PROVE  PendingIsTheEnd'
  BY <1>13 DEF ReadUart, storeVars, callVars
<1>14. CASE ExtractFrame
  <2>1. PICK round \in {ExtractOne(Start(buf))} :
           /\ ~round.over
           /\ pending' = pending \o round.got /\ framed' = framed \o round.got
    BY <1>14 DEF ExtractFrame
  <2>2. round.got \in Seq(Messages)
    BY <2>1, ExtractOneEffect
  <2> HIDE DEF Messages
  <2>3. pending \in Seq(Messages) /\ framed \in Seq(Messages)
    OBVIOUS
  <2> HIDE DEF Types, SeqsType
  <2> QED
    BY <2>1, <2>2, <2>3, EndExtended DEF PendingIsTheEnd
<1>15. CASE ExtractEnds
  BY <1>15 DEF ExtractEnds, storeVars, callVars
<1>16. CASE UpdateFrame
  BY <1>16 DEF UpdateFrame, uartVars, storeVars, callVars, histVars, Take
<1>17. CASE WriteFrame
  BY <1>17, EndShortened DEF WriteFrame, GuardHeld, histVars
<1>18. CASE UpdateTimesOut
  BY <1>18, EndShortened DEF UpdateTimesOut
<1>19. CASE PassEnds
  BY <1>19 DEF PassEnds, uartVars, storeVars, callVars, histVars
<1>20. CASE Notified
  BY <1>20 DEF Notified, uartVars, callVars, histVars
<1>21. CASE WaitStopped
  BY <1>21 DEF WaitStopped, uartVars, storeVars, callVars, histVars
<1>22. CASE WaitForFrames
  BY <1>22 DEF WaitForFrames, uartVars, callVars, histVars, Take
<1>23. CASE ReleaseFetched
  BY <1>23 DEF ReleaseFetched, uartVars, storeVars, callVars, histVars, Release
<1>24. CASE FetchTimesOut
  BY <1>24 DEF FetchTimesOut, uartVars, storeVars, callVars, TimesOut
<1>25. CASE Transmit
  BY <1>25 DEF Transmit, uartVars, storeVars, callVars, histVars
<1>26. CASE Transmitted
  BY <1>26 DEF Transmitted, uartVars, storeVars, callVars, histVars
<1>27. CASE RequestStop
  BY <1>27 DEF RequestStop, uartVars, storeVars, callVars, histVars
<1>28. CASE UNCHANGED vars
  BY <1>28 DEF vars, uartVars, storeVars, callVars, histVars
<1> QED
  BY <1>1, <1>2, <1>3, <1>4, <1>5, <1>6, <1>7, <1>8, <1>9, <1>10, <1>11, <1>12, <1>13,
     <1>14, <1>15, <1>16, <1>17, <1>18, <1>19, <1>20, <1>21, <1>22, <1>23, <1>24, <1>25,
     <1>26, <1>27, <1>28
  DEF Next, Begin, CallStep, UartStep, UartBase, UartRover

(* The message after the t-th of the b-th burst is stored where it belongs. *)
LEMMA NextStored ==
    ASSUME NEW b \in Nat \ {0}, NEW t \in Ids, NEW old \in [Ids -> Nat],
           \A i \in Ids : old[i] = IF i <= t THEN b ELSE b - 1,
           NEW m, m = (b - 1) * N + t + 1,
           NEW new, new = [old EXCEPT ![Type(m)] = Burst(m)]
    PROVE  \E bb \in Nat \ {0}, tt \in Ids :
              /\ m = (bb - 1) * N + tt
              /\ \A i \in Ids : new[i] = IF i <= tt THEN bb ELSE bb - 1
<1>1. N \in Nat \ {0} /\ Ids = 1..N
  BY NumberOfIds
<1>2. CASE t < N
  <2>1. t + 1 \in Ids /\ m = (b - 1) * N + (t + 1)
    BY <1>1, <1>2
  <2>2. Type(m) = t + 1 /\ Burst(m) = b
    BY <2>1, TypeAndBurst
  <2>3. \A i \in Ids : new[i] = IF i <= t + 1 THEN b ELSE b - 1
    BY <1>1, <2>1, <2>2
  <2> QED
    BY <2>1, <2>3
<1>3. CASE t = N
  <2>1. 1 \in Ids /\ b + 1 \in Nat \ {0} /\ m = ((b + 1) - 1) * N + 1
    BY <1>1, <1>3
  <2>2. Type(m) = 1 /\ Burst(m) = b + 1
    BY <2>1, TypeAndBurst
  <2>3. \A i \in Ids : new[i] = IF i <= 1 THEN b + 1 ELSE (b + 1) - 1
    BY <1>1, <1>3, <2>1, <2>2
  <2> QED
    BY <2>1, <2>3
<1> QED
  BY <1>1, <1>2, <1>3

(* The first message is stored where it belongs.                            *)
LEMMA FirstStored ==
    ASSUME NEW new, new = [[i \in Ids |-> 0] EXCEPT ![Type(1)] = Burst(1)]
    PROVE  /\ 1 \in Ids /\ 1 = (1 - 1) * N + 1
           /\ \A i \in Ids : new[i] = IF i <= 1 THEN 1 ELSE 1 - 1
<1>1. N \in Nat \ {0} /\ Ids = 1..N
  BY NumberOfIds
<1>2. 1 \in Ids /\ 1 = (1 - 1) * N + 1
  BY <1>1
<1>3. Type(1) = 1 /\ Burst(1) = 1
  BY <1>2, TypeAndBurst
<1> QED
  BY <1>1, <1>2, <1>3


(* The store follows the stream, message by message.                        *)
LEMMA StoreStep ==
    ASSUME StoreInOrder, PendingIsTheEnd, Types, GuardHeld, [Next]_vars
    PROVE  StoreInOrder'
<1>1. ASSUME NEW sh \in Shapes, Emit(sh)
      PROVE  StoreInOrder'
  BY <1>1 DEF Emit, storeVars, callVars, histVars, StoreInOrder, StoreUpTo, Stored, Undamaged
<1>2. ASSUME NEW ids \in Requests, Ask(ids)
      PROVE  StoreInOrder'
  BY <1>2 DEF Ask, uartVars, storeVars, histVars, StoreInOrder, StoreUpTo, Stored, Undamaged
<1>3. ASSUME NEW n \in SetSizes, Apply(n)
      PROVE  StoreInOrder'
  BY <1>3 DEF Apply, uartVars, storeVars, histVars, StoreInOrder, StoreUpTo, Stored, Undamaged
<1>4. CASE GetFrames
  BY <1>4
  DEF GetFrames, uartVars, storeVars, histVars, Take, StoreInOrder, StoreUpTo, Stored,
      Undamaged
<1>5. CASE LookUp
  BY <1>5 DEF LookUp, uartVars, storeVars, histVars, StoreInOrder, StoreUpTo, Stored, Undamaged
<1>6. CASE Collected
  BY <1>6
  DEF Collected, uartVars, storeVars, histVars, Release, StoreInOrder, StoreUpTo, Stored,
      Undamaged
<1>7. CASE AskTimesOut
  BY <1>7
  DEF AskTimesOut, uartVars, storeVars, TimesOut, StoreInOrder, StoreUpTo, Stored, Undamaged
<1>8. CASE UpdateFrames
  BY <1>8 DEF UpdateFrames, uartVars, histVars, Take, StoreInOrder, StoreUpTo, Stored, Undamaged
<1>9. CASE ReleaseApplied
  BY <1>9
  DEF ReleaseApplied, uartVars, storeVars, histVars, Release, StoreInOrder, StoreUpTo,
      Stored, Undamaged
<1>10. CASE AndNotify
  BY <1>10 DEF AndNotify, uartVars, histVars, StoreInOrder, StoreUpTo, Stored, Undamaged
<1>11. CASE ApplyTimesOut
  BY <1>11
  DEF ApplyTimesOut, uartVars, storeVars, TimesOut, StoreInOrder, StoreUpTo, Stored,
      Undamaged
<1>12. CASE LoopTop
  BY <1>12
  DEF LoopTop, uartVars, storeVars, callVars, histVars, StoreInOrder, StoreUpTo, Stored,
      Undamaged
<1>13. ASSUME NEW n \in 1..BufSize, ReadUart(n)
       PROVE  StoreInOrder'
  BY <1>13 DEF ReadUart, storeVars, callVars, StoreInOrder, StoreUpTo, Stored, Undamaged
<1>14. CASE ExtractFrame
  <2>1. PICK round \in {ExtractOne(Start(buf))} :
           /\ ~round.over
           /\ pending' = pending \o round.got /\ framed' = framed \o round.got
           /\ frames' = frames /\ lost' = lost /\ overflowed' = overflowed
    BY <1>14 DEF ExtractFrame, storeVars
  <2>2. round.got \in Seq(Messages)
    BY <2>1, ExtractOneEffect DEF Types, SeqsType
  <2>3. pending \in Seq(Messages) /\ framed \in Seq(Messages)
    BY DEF Types, SeqsType
  <2>4. Undamaged' => Undamaged
    BY <2>1, <2>2, <2>3, UndamagedBefore DEF Undamaged
  <2>5. Stored' = Stored
    BY <2>1, <2>2, <2>3 DEF Stored
  <2> QED
    BY <2>1, <2>4, <2>5 DEF StoreInOrder, StoreUpTo
<1>15. CASE ExtractEnds
  <2>1. /\ Undamaged' => Undamaged
        /\ UNCHANGED <<pending, framed, frames>>
    BY <1>15 DEF ExtractEnds, Undamaged, Types, SeqsType, storeVars
  <2> QED
    BY <2>1 DEF StoreInOrder, StoreUpTo, Stored
<1>16. CASE UpdateFrame
  BY <1>16
  DEF UpdateFrame, uartVars, storeVars, callVars, histVars, Take, StoreInOrder, StoreUpTo,
      Stored, Undamaged
<1>17. CASE WriteFrame
  <2> SUFFICES ASSUME Undamaged'
               PROVE  \E b \in Nat \ {0}, t \in Ids : StoreUpTo(b, t)'
    BY DEF StoreInOrder
  <2>1. /\ pending # <<>> /\ pending' = Tail(pending) /\ framed' = framed
        /\ frames' = [frames EXCEPT ![Type(Head(pending))] = Burst(Head(pending))]
        /\ Undamaged
    BY <1>17 DEF WriteFrame, GuardHeld, Undamaged, histVars
  <2> DEFINE m == Head(pending)
  <2>2. m = Stored + 1 /\ Stored' = m /\ m \in Nat
    <3>1. pending \in Seq(Messages) /\ framed \in Seq(Messages)
      BY DEF Types, SeqsType
    <3>2. /\ Len(pending) \in Nat \ {0} /\ Len(framed) \in Nat /\ Len(pending) <= Len(framed)
          /\ pending[1] = framed[Stored + 1]
      BY <2>1, <3>1 DEF PendingIsTheEnd, IsEnd, Stored
    <3>3. framed[Stored + 1] = Stored + 1
      BY <2>1, <3>2 DEF Undamaged, Stored
    <3>4. m = pending[1] /\ Len(pending') = Len(pending) - 1
      BY <2>1, <3>1
    <3> QED
      BY <2>1, <3>2, <3>3, <3>4 DEF Stored
  <2> HIDE DEF m
  <2>3. frames \in [Ids -> Nat] /\ frames' = [frames EXCEPT ![Type(m)] = Burst(m)]
    BY <2>1 DEF Types, TypeOK, m
  <2>4. CASE Stored = 0 /\ frames = [i \in Ids |-> 0]
    <3>1. m = 1
      BY <2>2, <2>4
    <3>2. /\ 1 \in Ids /\ m = (1 - 1) * N + 1
          /\ \A i \in Ids : frames'[i] = IF i <= 1 THEN 1 ELSE 1 - 1
      BY <2>3, <2>4, <3>1, FirstStored
    <3> QED
      BY <2>2, <3>2 DEF StoreUpTo
  <2>5. ASSUME NEW b \in Nat \ {0}, NEW t \in Ids, StoreUpTo(b, t)
        PROVE  \E bb \in Nat \ {0}, tt \in Ids : StoreUpTo(bb, tt)'
    <3>1. m = (b - 1) * N + t + 1
      BY <2>2, <2>5 DEF StoreUpTo
    <3>2. PICK bb \in Nat \ {0}, tt \in Ids :
              /\ m = (bb - 1) * N + tt
              /\ \A i \in Ids : frames'[i] = IF i <= tt THEN bb ELSE bb - 1
      <4>1. \A i \in Ids : frames[i] = IF i <= t THEN b ELSE b - 1
        BY <2>5 DEF StoreUpTo
      <4> QED
        BY <2>3, <3>1, <4>1, NextStored
    <3> QED
      BY <2>2, <3>2 DEF StoreUpTo
  <2> QED
    BY <2>1, <2>4, <2>5 DEF StoreInOrder
<1>18. CASE UpdateTimesOut
  BY <1>18 DEF UpdateTimesOut, TimesOut, StoreInOrder, Undamaged
<1>19. CASE PassEnds
  BY <1>19
  DEF PassEnds, uartVars, storeVars, callVars, histVars, StoreInOrder, StoreUpTo, Stored,
      Undamaged
<1>20. CASE Notified
  BY <1>20
  DEF Notified, uartVars, callVars, histVars, StoreInOrder, StoreUpTo, Stored, Undamaged
<1>21. CASE WaitStopped
  BY <1>21
  DEF WaitStopped, uartVars, storeVars, callVars, histVars, StoreInOrder, StoreUpTo, Stored,
      Undamaged
<1>22. CASE WaitForFrames
  BY <1>22
  DEF WaitForFrames, uartVars, callVars, histVars, Take, StoreInOrder, StoreUpTo, Stored,
      Undamaged
<1>23. CASE ReleaseFetched
  BY <1>23
  DEF ReleaseFetched, uartVars, storeVars, callVars, histVars, Release, StoreInOrder,
      StoreUpTo, Stored, Undamaged
<1>24. CASE FetchTimesOut
  BY <1>24
  DEF FetchTimesOut, uartVars, storeVars, callVars, TimesOut, StoreInOrder, StoreUpTo,
      Stored, Undamaged
<1>25. CASE Transmit
  BY <1>25
  DEF Transmit, uartVars, storeVars, callVars, histVars, StoreInOrder, StoreUpTo, Stored,
      Undamaged
<1>26. CASE Transmitted
  BY <1>26
  DEF Transmitted, uartVars, storeVars, callVars, histVars, StoreInOrder, StoreUpTo, Stored,
      Undamaged
<1>27. CASE RequestStop
  BY <1>27
  DEF RequestStop, uartVars, storeVars, callVars, histVars, StoreInOrder, StoreUpTo, Stored,
      Undamaged
<1>28. CASE UNCHANGED vars
  BY <1>28 DEF vars, StoreInOrder, StoreUpTo, Stored, Undamaged
<1> QED
  BY <1>1, <1>2, <1>3, <1>4, <1>5, <1>6, <1>7, <1>8, <1>9, <1>10, <1>11, <1>12, <1>13,
     <1>14, <1>15, <1>16, <1>17, <1>18, <1>19, <1>20, <1>21, <1>22, <1>23, <1>24, <1>25,
     <1>26, <1>27, <1>28
  DEF Next, Begin, CallStep, UartStep, UartBase, UartRover

-----------------------------------------------------------------------------
(* A base: what a call has found belongs together                           *)

(* Nobody stores while a call looks its types up.                           *)
LEMMA FoundStep ==
    ASSUME FoundIsStored, Types, GuardHeld, [Next]_vars
    PROVE  FoundIsStored'
<1>1. ASSUME NEW sh \in Shapes, Emit(sh)
      PROVE  FoundIsStored'
  BY <1>1 DEF Emit, storeVars, callVars, histVars, FoundIsStored
<1>2. ASSUME NEW ids \in Requests, Ask(ids)
      PROVE  FoundIsStored'
  BY <1>2 DEF Ask, uartVars, storeVars, histVars, FoundIsStored
<1>3. ASSUME NEW n \in SetSizes, Apply(n)
      PROVE  FoundIsStored'
  BY <1>3 DEF Apply, uartVars, storeVars, histVars, FoundIsStored
<1>4. CASE GetFrames
  BY <1>4 DEF GetFrames, uartVars, storeVars, histVars, Take, FoundIsStored
<1>5. CASE LookUp
  <2>1. frames \in [Ids -> Nat] /\ result \in Seq(Ids \X Nat) /\ Head(asked) \in Ids
    BY <1>5 DEF LookUp, Types, TypeOK, SeqsType
  <2>2. /\ result' = result \/ result' = Append(result, <<Head(asked), frames[Head(asked)]>>)
        /\ frames' = frames /\ appPc = "collect" /\ appPc' = "collect"
    BY <1>5 DEF LookUp, storeVars
  <2>3. \A i \in 1..Len(result') : result'[i][2] = frames[result'[i][1]]
    <3> DEFINE id == Head(asked)
               more == Append(result, <<id, frames[id]>>)
    <3>1. \A i \in 1..Len(result) : result[i][2] = frames[result[i][1]]
      BY <2>2 DEF FoundIsStored
    <3>2. Len(more) = Len(result) + 1 /\ more[Len(result) + 1] = <<id, frames[id]>>
          /\ \A i \in 1..Len(result) : more[i] = result[i]
      BY <2>1, AppendProperties
    <3>3. result' = result \/ result' = more
      BY <2>2
    <3>4. Len(result) \in Nat
      BY <2>1
    <3> HIDE DEF id, more
    <3>5. \A i \in 1..Len(more) : more[i][2] = frames[more[i][1]]
      BY <3>1, <3>2, <3>4
    <3> QED
      BY <3>1, <3>3, <3>5
  <2> QED
    BY <2>2, <2>3 DEF FoundIsStored
<1>6. CASE Collected
  BY <1>6 DEF Collected, uartVars, storeVars, histVars, Release, FoundIsStored
<1>7. CASE AskTimesOut
  BY <1>7 DEF AskTimesOut, uartVars, storeVars, TimesOut, FoundIsStored
<1>8. CASE UpdateFrames
  BY <1>8 DEF UpdateFrames, uartVars, histVars, Take, FoundIsStored
<1>9. CASE ReleaseApplied
  BY <1>9 DEF ReleaseApplied, uartVars, storeVars, histVars, Release, FoundIsStored
<1>10. CASE AndNotify
  BY <1>10 DEF AndNotify, uartVars, histVars, FoundIsStored
<1>11. CASE ApplyTimesOut
  BY <1>11 DEF ApplyTimesOut, uartVars, storeVars, TimesOut, FoundIsStored
<1>12. CASE LoopTop
  BY <1>12 DEF LoopTop, uartVars, storeVars, callVars, histVars, FoundIsStored
<1>13. ASSUME NEW n \in 1..BufSize, ReadUart(n)
       PROVE  FoundIsStored'
  BY <1>13 DEF ReadUart, storeVars, callVars, FoundIsStored
<1>14. CASE ExtractFrame
  BY <1>14 DEF ExtractFrame, storeVars, callVars, FoundIsStored
<1>15. CASE ExtractEnds
  BY <1>15 DEF ExtractEnds, storeVars, callVars, FoundIsStored
<1>16. CASE UpdateFrame
  BY <1>16 DEF UpdateFrame, uartVars, storeVars, callVars, histVars, Take, FoundIsStored
<1>17. CASE WriteFrame
  BY <1>17 DEF WriteFrame, callVars, histVars, Release, FoundIsStored, GuardHeld
<1>18. CASE UpdateTimesOut
  BY <1>18 DEF UpdateTimesOut, storeVars, callVars, TimesOut, FoundIsStored
<1>19. CASE PassEnds
  BY <1>19 DEF PassEnds, uartVars, storeVars, callVars, histVars, FoundIsStored
<1>20. CASE Notified
  BY <1>20 DEF Notified, uartVars, callVars, histVars, FoundIsStored
<1>21. CASE WaitStopped
  BY <1>21 DEF WaitStopped, uartVars, storeVars, callVars, histVars, FoundIsStored
<1>22. CASE WaitForFrames
  BY <1>22 DEF WaitForFrames, uartVars, callVars, histVars, Take, FoundIsStored
<1>23. CASE ReleaseFetched
  BY <1>23 DEF ReleaseFetched, uartVars, storeVars, callVars, histVars, Release, FoundIsStored
<1>24. CASE FetchTimesOut
  BY <1>24 DEF FetchTimesOut, uartVars, storeVars, callVars, TimesOut, FoundIsStored
<1>25. CASE Transmit
  BY <1>25 DEF Transmit, uartVars, storeVars, callVars, histVars, FoundIsStored
<1>26. CASE Transmitted
  BY <1>26 DEF Transmitted, uartVars, storeVars, callVars, histVars, FoundIsStored
<1>27. CASE RequestStop
  BY <1>27 DEF RequestStop, uartVars, storeVars, callVars, histVars, FoundIsStored
<1>28. CASE UNCHANGED vars
  BY <1>28 DEF vars, FoundIsStored
<1> QED
  BY <1>1, <1>2, <1>3, <1>4, <1>5, <1>6, <1>7, <1>8, <1>9, <1>10, <1>11, <1>12, <1>13,
     <1>14, <1>15, <1>16, <1>17, <1>18, <1>19, <1>20, <1>21, <1>22, <1>23, <1>24, <1>25,
     <1>26, <1>27, <1>28
  DEF Next, Begin, CallStep, UartStep, UartBase, UartRover

(* What is read from the store at one time belongs together.                *)
LEMMA FoundTogether ==
    Types /\ StoreInOrder /\ FoundIsStored /\ appPc = "collect" => CorrectionsBelongTogether
<1> SUFFICES ASSUME Types, StoreInOrder, FoundIsStored, appPc = "collect", Undamaged,
                    NEW i \in 1..Len(result), NEW j \in 1..Len(result)
             PROVE  /\ result[i][1] <= result[j][1] => result[j][2] <= result[i][2]
                    /\ result[i][2] - result[j][2] <= 1
  BY DEF CorrectionsBelongTogether
<1> DEFINE x == result[i][1]
           y == result[j][1]
<1>1. x \in Ids /\ y \in Ids /\ result[i][2] = frames[x] /\ result[j][2] = frames[y]
  BY DEF Types, SeqsType, FoundIsStored
<1>2. x \in Nat /\ y \in Nat
  BY <1>1, NumberOfIds
<1> HIDE DEF x, y
<1>3. CASE frames = [k \in Ids |-> 0]
  <2>1. frames[x] = 0 /\ frames[y] = 0
    BY <1>1, <1>3
  <2> QED
    BY <1>1, <2>1
<1>4. ASSUME NEW b \in Nat \ {0}, NEW t \in Ids, StoreUpTo(b, t)
      PROVE  (x <= y => frames[y] <= frames[x]) /\ frames[x] - frames[y] <= 1
  <2>1. /\ frames[x] = IF x <= t THEN b ELSE b - 1
        /\ frames[y] = IF y <= t THEN b ELSE b - 1
    BY <1>1, <1>4 DEF StoreUpTo
  <2>2. t \in Nat
    BY NumberOfIds
  <2> QED
    BY <1>2, <2>1, <2>2
<1> QED
  BY <1>1, <1>3, <1>4 DEF StoreInOrder, x, y

(* A set of corrections never mixes bursts.                                 *)
LEMMA TogetherStep ==
    ASSUME CorrectionsBelongTogether, FoundIsStored, StoreInOrder, PendingIsTheEnd, Types,
           GuardHeld, [Next]_vars
    PROVE  CorrectionsBelongTogether'
<1>1. ASSUME NEW sh \in Shapes, Emit(sh)
      PROVE  CorrectionsBelongTogether'
  BY <1>1 DEF Emit, storeVars, callVars, histVars, CorrectionsBelongTogether, Undamaged
<1>2. ASSUME NEW ids \in Requests, Ask(ids)
      PROVE  CorrectionsBelongTogether'
  BY <1>2 DEF Ask, CorrectionsBelongTogether
<1>3. ASSUME NEW n \in SetSizes, Apply(n)
      PROVE  CorrectionsBelongTogether'
  BY <1>3 DEF Apply, uartVars, storeVars, histVars, CorrectionsBelongTogether, Undamaged
<1>4. CASE GetFrames
  BY <1>4
  DEF GetFrames, uartVars, storeVars, histVars, Take, CorrectionsBelongTogether, Undamaged
<1>5. CASE LookUp
  <2>1. (appPc = "collect")'
    BY <1>5 DEF LookUp
  <2>2. FoundIsStored'
    BY FoundStep
  <2>3. StoreInOrder'
    BY StoreStep
  <2>4. Types'
    BY TypesStep
  <2> QED
    BY <2>1, <2>2, <2>3, <2>4, FoundTogether, PTL
<1>6. CASE Collected
  BY <1>6
  DEF Collected, uartVars, storeVars, histVars, Release, CorrectionsBelongTogether,
      Undamaged
<1>7. CASE AskTimesOut
  BY <1>7
  DEF AskTimesOut, uartVars, storeVars, TimesOut, CorrectionsBelongTogether, Undamaged,
      Types, SeqsType
<1>8. CASE UpdateFrames
  BY <1>8 DEF UpdateFrames, uartVars, histVars, Take, CorrectionsBelongTogether, Undamaged
<1>9. CASE ReleaseApplied
  BY <1>9
  DEF ReleaseApplied, uartVars, storeVars, histVars, Release, CorrectionsBelongTogether,
      Undamaged
<1>10. CASE AndNotify
  BY <1>10 DEF AndNotify, uartVars, histVars, CorrectionsBelongTogether, Undamaged
<1>11. CASE ApplyTimesOut
  BY <1>11
  DEF ApplyTimesOut, uartVars, storeVars, TimesOut, CorrectionsBelongTogether, Undamaged,
      Types, SeqsType
<1>12. CASE LoopTop
  BY <1>12
  DEF LoopTop, uartVars, storeVars, callVars, histVars, CorrectionsBelongTogether, Undamaged
<1>13. ASSUME NEW n \in 1..BufSize, ReadUart(n)
       PROVE  CorrectionsBelongTogether'
  BY <1>13 DEF ReadUart, storeVars, callVars, CorrectionsBelongTogether, Undamaged
<1>14. CASE ExtractFrame
  <2>1. PICK round \in {ExtractOne(Start(buf))} :
           ~round.over /\ framed' = framed \o round.got
           /\ result' = result /\ lost' = lost /\ overflowed' = overflowed
    BY <1>14 DEF ExtractFrame, callVars
  <2>2. round.got \in Seq(Messages) /\ framed \in Seq(Messages)
    BY <2>1, ExtractOneEffect DEF Types, SeqsType
  <2>3. Undamaged' => Undamaged
    BY <2>1, <2>2, UndamagedBefore DEF Undamaged
  <2> QED
    BY <2>1, <2>3 DEF CorrectionsBelongTogether
<1>15. CASE ExtractEnds
  BY <1>15
  DEF ExtractEnds, storeVars, callVars, CorrectionsBelongTogether, Undamaged, Types,
      SeqsType
<1>16. CASE UpdateFrame
  BY <1>16
  DEF UpdateFrame, uartVars, storeVars, callVars, histVars, Take, CorrectionsBelongTogether,
      Undamaged
<1>17. CASE WriteFrame
  BY <1>17 DEF WriteFrame, callVars, histVars, Release, CorrectionsBelongTogether, Undamaged
<1>18. CASE UpdateTimesOut
  BY <1>18
  DEF UpdateTimesOut, storeVars, callVars, TimesOut, CorrectionsBelongTogether, Undamaged,
      Types, SeqsType
<1>19. CASE PassEnds
  BY <1>19
  DEF PassEnds, uartVars, storeVars, callVars, histVars, CorrectionsBelongTogether,
      Undamaged
<1>20. CASE Notified
  BY <1>20 DEF Notified, uartVars, callVars, histVars, CorrectionsBelongTogether, Undamaged
<1>21. CASE WaitStopped
  BY <1>21
  DEF WaitStopped, uartVars, storeVars, callVars, histVars, CorrectionsBelongTogether,
      Undamaged
<1>22. CASE WaitForFrames
  BY <1>22
  DEF WaitForFrames, uartVars, callVars, histVars, Take, CorrectionsBelongTogether,
      Undamaged
<1>23. CASE ReleaseFetched
  BY <1>23
  DEF ReleaseFetched, uartVars, storeVars, callVars, histVars, Release,
      CorrectionsBelongTogether, Undamaged
<1>24. CASE FetchTimesOut
  BY <1>24
  DEF FetchTimesOut, uartVars, storeVars, callVars, TimesOut, CorrectionsBelongTogether,
      Undamaged, Types, SeqsType
<1>25. CASE Transmit
  BY <1>25
  DEF Transmit, uartVars, storeVars, callVars, histVars, CorrectionsBelongTogether,
      Undamaged
<1>26. CASE Transmitted
  BY <1>26
  DEF Transmitted, uartVars, storeVars, callVars, histVars, CorrectionsBelongTogether,
      Undamaged
<1>27. CASE RequestStop
  BY <1>27
  DEF RequestStop, uartVars, storeVars, callVars, histVars, CorrectionsBelongTogether,
      Undamaged
<1>28. CASE UNCHANGED vars
  BY <1>28 DEF vars, CorrectionsBelongTogether, Undamaged
<1> QED
  BY <1>1, <1>2, <1>3, <1>4, <1>5, <1>6, <1>7, <1>8, <1>9, <1>10, <1>11, <1>12, <1>13,
     <1>14, <1>15, <1>16, <1>17, <1>18, <1>19, <1>20, <1>21, <1>22, <1>23, <1>24, <1>25,
     <1>26, <1>27, <1>28
  DEF Next, Begin, CallStep, UartStep, UartBase, UartRover

-----------------------------------------------------------------------------
(* A rover: the sets, in order                                              *)

LEMMA SentType ==
    ASSUME Types
    PROVE  /\ sending \in Seq(FrameType) /\ incoming \in Seq(FrameType)
           /\ applied \in Seq(FrameType) /\ received \in Seq(FrameType)
           /\ calls \in Nat
           /\ \A f \in Settled : f \in FrameType
BY BoundsAssumption DEF Types, SeqsType, TypeOK, Settled

(* The frame at the head of what is being sent, taken apart.                *)
LEMMA HeadFrame ==
    ASSUME NEW s \in Seq(FrameType), s # <<>>
    PROVE  /\ s[1] \in FrameType /\ Head(s) = s[1]
           /\ s[1] = <<s[1][1], s[1][2], s[1][3]>>
           /\ s[1][1] \in Nat /\ s[1][2] \in Nat /\ s[1][3] \in Nat
           /\ Len(s) \in Nat /\ Len(s) >= 1
<1>1. Len(s) \in Nat /\ Len(s) # 0
  BY EmptySeq
<1>2. s[1] \in FrameType
  BY <1>1
<1> QED
  BY <1>1, <1>2 DEF FrameType

LEMMA BelowLater ==
    ASSUME NEW q \in Seq(FrameType), NEW c \in Nat, SetsBelow(q, c)
    PROVE  SetsBelow(q, c + 1)
<1> SUFFICES ASSUME NEW k \in 1..Len(q)
             PROVE  q[k][1] < c + 1
  BY DEF SetsBelow
<1>1. q[k][1] \in Nat /\ q[k][1] < c
  BY DEF SetsBelow, FrameType
<1> QED
  BY <1>1

LEMMA SettledLater ==
    ASSUME Types, NEW c \in Nat, SettledBelow(c)
    PROVE  SettledBelow(c + 1)
<1>1. \A f \in Settled : f[1] \in Nat
  BY SentType DEF FrameType
<1> QED
  BY <1>1 DEF SettledBelow

LEMMA EarlierTransitive ==
    ASSUME NEW f \in FrameType, NEW c \in Nat, NEW fr \in Nat, NEW n \in Nat,
           Earlier(f, <<c, fr, n>>)
    PROVE  Earlier(f, <<c, fr + 1, n>>)
BY DEF Earlier, FrameType

(* Only the rover's loop touches what is sent: it fetches a set when        *)
(* nothing is being sent, and hands over one frame after the other.         *)
LEMMA OnlyTheRoverSends ==
    ASSUME [Next]_vars, ~Transmit, ~WaitForFrames
    PROVE  /\ UNCHANGED <<sending, received, unwritten>>
           /\ uartPc' = uartPc \/ uartPc' = "transmit" \/ uartPc # "release"
           /\ uartPc' = uartPc \/ uartPc # "transmit" \/ sending = <<>>
<1>1. CASE UNCHANGED vars
  BY <1>1 DEF vars
<1>2. CASE Begin \/ CallStep \/ RequestStop \/ \E sh \in Shapes : Emit(sh)
  BY <1>2 DEF Begin, CallStep, Emit, Ask, Apply, GetFrames, LookUp, Collected, AskTimesOut,
              UpdateFrames, ReleaseApplied, AndNotify, ApplyTimesOut, RequestStop
<1>3. CASE UartBase
  BY <1>3 DEF UartBase, ReadUart, ExtractFrame, ExtractEnds, UpdateFrame, WriteFrame,
              UpdateTimesOut, PassEnds
<1>4. CASE UartRover \/ LoopTop
  BY <1>4 DEF UartRover, LoopTop, Notified, WaitStopped, ReleaseFetched, FetchTimesOut,
              Transmitted
<1> QED
  BY <1>1, <1>2, <1>3, <1>4 DEF Next, UartStep

(* A frame handed to the driver is settled, one way or the other.           *)
LEMMA TransmitSettles ==
    ASSUME Types, Transmit
    PROVE  /\ sending # <<>> /\ sending' = Tail(sending) /\ uartPc' = "transmit"
           /\ Settled' = Settled \cup {sending[1]}
           /\ \/ received' = Append(received, sending[1])
              \/ received' = received
<1>1. /\ sending # <<>> /\ sending' = Tail(sending) /\ uartPc' = "transmit"
      /\ \/ received' = Append(received, Head(sending)) /\ unwritten' = unwritten
         \/ unwritten' = unwritten \cup {Head(sending)} /\ received' = received
  BY DEF Transmit
<1>2. sending \in Seq(FrameType) /\ received \in Seq(FrameType) /\ Head(sending) = sending[1]
  BY <1>1, SentType, HeadFrame
<1>3. PICK h : h = sending[1]
  OBVIOUS
<1>4. h \in FrameType
  BY <1>1, <1>2, <1>3, HeadFrame
<1>5. CASE received' = Append(received, h) /\ unwritten' = unwritten
  <2>1. /\ Len(received') = Len(received) + 1 /\ Len(received) \in Nat
        /\ received'[Len(received) + 1] = h
        /\ \A i \in 1..Len(received) : received'[i] = received[i]
    BY <1>2, <1>4, <1>5, AppendProperties
  <2>2. {received'[i] : i \in 1..Len(received')} = {received[i] : i \in 1..Len(received)} \cup {h}
    <3>1. ASSUME NEW i \in 1..Len(received')
          PROVE  received'[i] \in {received[k] : k \in 1..Len(received)} \cup {h}
      <4>1. i \in 1..Len(received) \/ i = Len(received) + 1
        BY <2>1
      <4> QED
        BY <2>1, <4>1
    <3>2. ASSUME NEW i \in 1..Len(received)
          PROVE  received[i] \in {received'[k] : k \in 1..Len(received')}
      BY <2>1
    <3>3. h \in {received'[k] : k \in 1..Len(received')}
      BY <2>1
    <3> QED
      BY <3>1, <3>2, <3>3
  <2> QED
    BY <1>1, <1>3, <1>5, <2>2 DEF Settled
<1>6. CASE unwritten' = unwritten \cup {h} /\ received' = received
  BY <1>1, <1>3, <1>6 DEF Settled
<1> QED
  BY <1>1, <1>2, <1>3, <1>5, <1>6

(* What is being sent is the rest of one set.                               *)
LEMMA SendingStep ==
    ASSUME SendingGoesOn, WaitingIsNewer, Types, [Next]_vars
    PROVE  SendingGoesOn'
<1>1. CASE ~Transmit /\ ~WaitForFrames
  <2>1. UNCHANGED <<sending, received, unwritten>> /\ Settled' = Settled
    BY <1>1, OnlyTheRoverSends DEF Settled
  <2>2. uartPc' \notin {"release", "transmit"} => sending' = <<>>
    BY <1>1, <2>1, OnlyTheRoverSends DEF SendingGoesOn
  <2> QED
    BY <2>1, <2>2 DEF SendingGoesOn, AllSettled, Rest, Earlier
<1>2. CASE WaitForFrames
  <2>1. /\ sending' = incoming /\ uartPc' = "release" /\ uartPc = "fetch"
        /\ UNCHANGED <<received, unwritten>>
    BY <1>2 DEF WaitForFrames
  <2>2. Settled' = Settled
    BY <2>1 DEF Settled
  <2>3. \A f \in Settled : AllSettled(f)
    BY <2>1 DEF SendingGoesOn
  <2>4. \A f \in Settled' : AllSettled(f)'
    BY <2>2, <2>3 DEF AllSettled
  <2>5. CASE incoming = <<>>
    BY <2>1, <2>4, <2>5 DEF SendingGoesOn
  <2>6. CASE incoming # <<>>
    <3>1. PICK c : c = incoming[1][1]
      OBVIOUS
    <3>2. /\ IsSet(incoming, c) /\ SettledBelow(c)
      BY <2>6, <3>1 DEF WaitingIsNewer
    <3>3. PICK n : n = Len(incoming)
      OBVIOUS
    <3>4. n \in Nat /\ n >= 1 /\ c \in Nat
      BY <2>6, <3>1, <3>3, SentType, HeadFrame
    <3>5. incoming[1] = <<c, 1, n>>
      BY <3>2, <3>3, <3>4 DEF IsSet
    <3>6. Rest(incoming, c, 1, n)
      <4>1. \A k \in 1..n : 1 + k - 1 = k
        BY <3>4
      <4> QED
        BY <3>2, <3>3, <4>1 DEF IsSet, Rest
    <3>7. \A f \in Settled : Earlier(f, <<c, 1, n>>)
      BY <3>2 DEF SettledBelow, Earlier
    <3>8. n = 1 + n - 1
      BY <3>4
    <3> QED
      BY <2>1, <2>2, <2>4, <2>6, <3>3, <3>5, <3>6, <3>7, <3>8 DEF SendingGoesOn
  <2> QED
    BY <2>5, <2>6
<1>3. CASE Transmit
  <2>1. PICK c, fr, n : c = sending[1][1] /\ fr = sending[1][2] /\ n = sending[1][3]
    OBVIOUS
  <2>2. /\ sending # <<>> /\ sending' = Tail(sending) /\ uartPc' = "transmit"
        /\ Settled' = Settled \cup {sending[1]}
    BY <1>3, TransmitSettles
  <2>3. /\ c \in Nat /\ fr \in Nat /\ n \in Nat /\ sending[1] = <<c, fr, n>>
        /\ Len(sending) \in Nat /\ Len(sending) >= 1 /\ sending \in Seq(FrameType)
    BY <2>1, <2>2, SentType, HeadFrame
  <2>4. /\ Rest(sending, c, fr, n) /\ fr >= 1 /\ n = fr + Len(sending) - 1
        /\ \A k \in 1..(fr - 1) : <<c, k, n>> \in Settled
        /\ \A f \in Settled : /\ Earlier(f, <<c, fr, n>>)
                              /\ AllSettled(f) \/ (f[1] = c /\ f[3] = n)
    BY <2>1, <2>2 DEF SendingGoesOn
  <2>5. \A k \in 1..fr : <<c, k, n>> \in Settled'
    <3>1. \A k \in 1..fr : k = fr \/ k \in 1..(fr - 1)
      BY <2>3
    <3> QED
      BY <2>2, <2>3, <2>4, <3>1
  <2>6. \A f \in Settled' : AllSettled(f)' \/ (f[1] = c /\ f[3] = n)
    <3>1. \A f \in Settled : AllSettled(f) => AllSettled(f)'
      BY <2>2 DEF AllSettled
    <3> QED
      BY <2>2, <2>3, <2>4, <3>1
  <2>7. /\ Len(sending') = Len(sending) - 1
        /\ \A k \in 1..Len(sending') : sending'[k] = sending[k + 1]
    BY <2>2, <2>3, HeadTailProperties
  <2>8. CASE sending' = <<>>
    <3>1. n = fr
      <4>1. fr \in Nat /\ Len(sending) \in Nat /\ n = fr + Len(sending) - 1
        BY <2>3, <2>4
      <4>2. Len(sending') = Len(sending) - 1
        BY <2>7
      <4>3. Len(sending) = 1
        BY <2>8, <4>1, <4>2
      <4>4. fr \in Nat /\ n \in Nat /\ n = fr + 1 - 1
        BY <2>3, <4>1, <4>3
      <4> QED
        BY <4>4
    <3>2. ASSUME NEW f \in Settled', f[1] = c, f[3] = n
          PROVE  AllSettled(f)'
      BY <2>5, <3>1, <3>2 DEF AllSettled
    <3> QED
      BY <2>2, <2>6, <2>8, <3>2 DEF SendingGoesOn
  <2>9. CASE sending' # <<>>
    <3>1. Rest(sending', c, fr + 1, n)
      <4> SUFFICES ASSUME NEW k \in 1..Len(sending')
                   PROVE  sending'[k] = <<c, (fr + 1) + k - 1, n>>
        BY DEF Rest
      <4>1. k + 1 \in 1..Len(sending) /\ fr + (k + 1) - 1 = (fr + 1) + k - 1
        BY <2>3, <2>7
      <4>2. sending[k + 1] = <<c, fr + (k + 1) - 1, n>>
        BY <2>4, <4>1 DEF Rest
      <4> QED
        BY <2>7, <4>1, <4>2
    <3>2. Len(sending') >= 1
      BY <2>2, <2>3, <2>7, <2>9, EmptySeq
    <3>3. sending'[1] = <<c, fr + 1, n>>
      <4>1. 1 \in 1..Len(sending') /\ (fr + 1) + 1 - 1 = fr + 1
        BY <2>3, <2>7, <3>2
      <4>2. sending'[1] = <<c, (fr + 1) + 1 - 1, n>>
        BY <3>1, <4>1 DEF Rest
      <4> QED
        BY <4>1, <4>2
    <3>4. n = (fr + 1) + Len(sending') - 1 /\ fr + 1 >= 1 /\ (fr + 1) - 1 = fr
      <4>1. fr \in Nat /\ Len(sending) \in Nat /\ n = fr + Len(sending) - 1
        BY <2>3, <2>4
      <4>2. Len(sending') = Len(sending) - 1
        BY <2>7
      <4> QED
        BY <4>1, <4>2
    <3>5. \A f \in Settled' : Earlier(f, <<c, fr + 1, n>>)
      <4>1. Earlier(<<c, fr, n>>, <<c, fr + 1, n>>)
        BY <2>3 DEF Earlier
      <4>2. \A f \in Settled : Earlier(f, <<c, fr + 1, n>>)
        BY <2>3, <2>4, SentType, EarlierTransitive
      <4> QED
        BY <2>2, <2>3, <4>1, <4>2
    <3>6. PICK g : g = fr + 1
      OBVIOUS
    <3>7. /\ sending'[1][1] = c /\ sending'[1][2] = g /\ sending'[1][3] = n
      BY <3>3, <3>6
    <3>8. /\ Rest(sending', c, g, n) /\ g >= 1 /\ n = g + Len(sending') - 1
          /\ \A k \in 1..(g - 1) : <<c, k, n>> \in Settled'
          /\ \A f \in Settled' : Earlier(f, <<c, g, n>>)
      BY <2>5, <3>1, <3>4, <3>5, <3>6
    <3> QED
      BY <2>2, <2>6, <2>9, <3>7, <3>8 DEF SendingGoesOn
  <2> QED
    BY <2>8, <2>9
<1> QED
  BY <1>1, <1>2, <1>3

(* What waits is newer than what is sent, what is applied newer than both.  *)
LEMMA WaitingStep ==
    ASSUME WaitingIsNewer, Types, [Next]_vars
    PROVE  WaitingIsNewer'
<1>1. CASE UNCHANGED <<incoming, applied, calls, appPc, sending, received, unwritten>>
  <2>1. Settled' = Settled
    BY <1>1 DEF Settled
  <2> QED
    BY <1>1, <2>1 DEF WaitingIsNewer, IsSet, SettledBelow, SetsBelow
<1>2. CASE UNCHANGED <<incoming, calls, sending, received, unwritten>> /\ appPc' # "apply"
  <2>1. Settled' = Settled
    BY <1>2 DEF Settled
  <2> QED
    BY <1>2, <2>1 DEF WaitingIsNewer, IsSet, SettledBelow, SetsBelow
<1>3. ASSUME NEW c, c = calls + 1, calls' = c, UNCHANGED <<incoming, sending, received, unwritten>>,
             appPc' = "apply" => IsSet(applied', c)
      PROVE  WaitingIsNewer'
  <2>1. Settled' = Settled /\ calls \in Nat /\ c \in Nat
    BY <1>3, SentType DEF Settled
  <2>2. /\ incoming \in Seq(FrameType) /\ sending \in Seq(FrameType)
        /\ SettledBelow(c) /\ SetsBelow(sending, c)
    BY <1>3, SentType DEF WaitingIsNewer
  <2>3. SettledBelow(c + 1) /\ SetsBelow(sending, c + 1)
    BY <2>1, <2>2, SettledLater, BelowLater
  <2>4. incoming # <<>> => incoming[1][1] <= c
    <3>1. incoming # <<>> => incoming[1][1] \in Nat /\ incoming[1][1] <= calls
      BY <2>2, HeadFrame DEF WaitingIsNewer
    <3> QED
      BY <1>3, <2>1, <3>1
  <2>5. SetsBelow(incoming, c)
    <3> SUFFICES ASSUME NEW k \in 1..Len(incoming)
                 PROVE  incoming[k][1] < c
      BY DEF SetsBelow
    <3>1. incoming # <<>>
      OBVIOUS
    <3>2. /\ incoming[1][1] \in Nat /\ incoming[1][1] <= calls
          /\ incoming[k] = <<incoming[1][1], k, Len(incoming)>>
      BY <2>2, <3>1, HeadFrame DEF WaitingIsNewer, IsSet
    <3> QED
      BY <1>3, <2>1, <3>2
  <2> QED
    BY <1>3, <2>1, <2>2, <2>3, <2>4, <2>5 DEF WaitingIsNewer, IsSet, SettledBelow, SetsBelow
<1>4. CASE UpdateFrames
  <2>1. /\ incoming' = applied /\ appPc = "apply" /\ appPc' = "applied"
        /\ UNCHANGED <<sending, received, unwritten, calls>>
    BY <1>4 DEF UpdateFrames
  <2>2. Settled' = Settled
    BY <2>1 DEF Settled
  <2>3. IsSet(applied, calls) /\ SettledBelow(calls) /\ SetsBelow(sending, calls)
    BY <2>1 DEF WaitingIsNewer
  <2>4. applied # <<>> => applied[1][1] = calls
    <3>1. applied # <<>> => Len(applied) \in Nat /\ Len(applied) >= 1
      BY SentType, HeadFrame
    <3> QED
      BY <2>3, <3>1 DEF IsSet
  <2>5. calls <= calls
    BY SentType
  <2> QED
    BY <2>1, <2>2, <2>3, <2>4, <2>5 DEF WaitingIsNewer, IsSet, SettledBelow, SetsBelow
<1>5. CASE WaitForFrames
  <2>1. /\ sending' = incoming /\ incoming' = <<>>
        /\ UNCHANGED <<received, unwritten, applied, calls, appPc>>
    BY <1>5 DEF WaitForFrames, callVars
  <2>2. Settled' = Settled /\ calls \in Nat /\ incoming \in Seq(FrameType)
    BY <2>1, SentType DEF Settled
  <2>3. SetsBelow(incoming, calls + 1)
    <3> SUFFICES ASSUME NEW k \in 1..Len(incoming)
                 PROVE  incoming[k][1] < calls + 1
      BY DEF SetsBelow
    <3>1. incoming # <<>>
      OBVIOUS
    <3>2. /\ incoming[1][1] \in Nat /\ incoming[1][1] <= calls
          /\ incoming[k] = <<incoming[1][1], k, Len(incoming)>>
      BY <2>2, <3>1, HeadFrame DEF WaitingIsNewer, IsSet
    <3> QED
      BY <2>2, <3>2
  <2>4. SetsBelow(<<>>, calls)
    BY DEF SetsBelow
  <2>5. appPc = "apply" => SetsBelow(incoming, calls) /\ IsSet(applied, calls) /\ SettledBelow(calls)
    BY DEF WaitingIsNewer
  <2>6. SettledBelow(calls + 1)
    BY DEF WaitingIsNewer
  <2> QED
    BY <2>1, <2>2, <2>3, <2>4, <2>5, <2>6 DEF WaitingIsNewer, IsSet, SettledBelow, SetsBelow
<1>6. CASE Transmit
  <2>1. /\ sending # <<>> /\ sending' = Tail(sending) /\ Settled' = Settled \cup {sending[1]}
    BY <1>6, TransmitSettles
  <2>2. UNCHANGED <<incoming, applied, calls, appPc>>
    BY <1>6 DEF Transmit, storeVars, callVars
  <2>3. sending \in Seq(FrameType) /\ Len(sending) \in Nat /\ Len(sending) >= 1
    BY <2>1, SentType, HeadFrame
  <2>4. ASSUME NEW c, SetsBelow(sending, c), SettledBelow(c)
        PROVE  SetsBelow(sending', c) /\ SettledBelow(c)'
    <3>1. /\ Len(sending') = Len(sending) - 1
          /\ \A k \in 1..Len(sending') : sending'[k] = sending[k + 1]
      BY <2>1, <2>3, HeadTailProperties
    <3>2. \A k \in 1..Len(sending') : k + 1 \in 1..Len(sending)
      BY <2>3, <3>1
    <3>3. sending[1][1] < c
      BY <2>3, <2>4 DEF SetsBelow
    <3> QED
      BY <2>1, <2>4, <3>1, <3>2, <3>3 DEF SetsBelow, SettledBelow
  <2>5. incoming # <<>> => /\ IsSet(incoming, incoming[1][1]) /\ incoming[1][1] <= calls
                           /\ SettledBelow(incoming[1][1])' /\ SetsBelow(sending', incoming[1][1])
    BY <2>2, <2>4 DEF WaitingIsNewer, SettledBelow
  <2>6. SettledBelow(calls + 1)' /\ SetsBelow(sending', calls + 1)
    BY <2>2, <2>4 DEF WaitingIsNewer, SettledBelow
  <2>7. appPc = "apply" => /\ IsSet(applied, calls) /\ SetsBelow(incoming, calls)
                           /\ SettledBelow(calls)' /\ SetsBelow(sending', calls)
    BY <2>2, <2>4 DEF WaitingIsNewer, SettledBelow
  <2> QED
    BY <2>2, <2>5, <2>6, <2>7 DEF WaitingIsNewer, SettledBelow
<1>7. CASE UNCHANGED vars
  BY <1>1, <1>7 DEF vars, callVars
<1>8. CASE RequestStop \/ \E sh \in Shapes : Emit(sh)
  BY <1>1, <1>8 DEF RequestStop, Emit, storeVars, callVars
<1>9. ASSUME NEW ids \in Requests, Ask(ids)
      PROVE  WaitingIsNewer'
  BY <1>3, <1>9 DEF Ask, storeVars
<1>10. ASSUME NEW n \in SetSizes, Apply(n)
       PROVE  WaitingIsNewer'
  <2>1. /\ applied' = [k \in 1..n |-> <<calls + 1, k, n>>] /\ calls' = calls + 1
        /\ UNCHANGED <<incoming, sending, received, unwritten>>
    BY <1>10 DEF Apply, storeVars
  <2>2. n \in Nat
    BY BoundsAssumption
  <2>3. IsSet(applied', calls + 1)
    <3>1. Len(applied') = n
      BY <2>1, <2>2
    <3> QED
      BY <2>1, <3>1 DEF IsSet
  <2> QED
    BY <1>3, <2>1, <2>3
<1>11. CASE CallStep /\ ~UpdateFrames
  <2>1. /\ UNCHANGED <<incoming, calls, sending, received, unwritten>>
        /\ appPc' # "apply"
    BY <1>11 DEF CallStep, GetFrames, LookUp, Collected, AskTimesOut, ReleaseApplied, AndNotify,
                 ApplyTimesOut, storeVars
  <2> QED
    BY <1>2, <2>1
<1>12. CASE UartBase
  <2>1. UNCHANGED <<incoming, applied, calls, appPc, sending, received, unwritten>>
    BY <1>12 DEF UartBase, ReadUart, ExtractFrame, ExtractEnds, UpdateFrame, WriteFrame,
                 UpdateTimesOut, PassEnds, storeVars, callVars
  <2> QED
    BY <1>1, <2>1
<1>13. CASE (UartRover \/ LoopTop) /\ ~Transmit /\ ~WaitForFrames
  <2>1. UNCHANGED <<incoming, applied, calls, appPc, sending, received, unwritten>>
    BY <1>13 DEF UartRover, LoopTop, Notified, WaitStopped, ReleaseFetched, FetchTimesOut,
                 Transmitted, storeVars, callVars
  <2> QED
    BY <1>1, <2>1
<1> QED
  BY <1>4, <1>5, <1>6, <1>7, <1>8, <1>9, <1>10, <1>11, <1>12, <1>13 DEF Next, Begin, UartStep

(* The receiver gets the frames in order, none without those before it.     *)
LEMMA SetsStep ==
    ASSUME SetsSentInOrder, SendingGoesOn, Types, [Next]_vars
    PROVE  SetsSentInOrder'
<1>1. CASE ~Transmit
  <2>1. UNCHANGED <<received, unwritten>>
    <3>1. CASE WaitForFrames
      BY <3>1 DEF WaitForFrames
    <3> QED
      BY <1>1, <3>1, OnlyTheRoverSends
  <2>2. Settled' = Settled
    BY <2>1 DEF Settled
  <2> QED
    BY <2>1, <2>2 DEF SetsSentInOrder
<1>2. CASE Transmit
  <2>1. PICK c, fr, n : c = sending[1][1] /\ fr = sending[1][2] /\ n = sending[1][3]
    OBVIOUS
  <2>2. /\ sending # <<>> /\ Settled' = Settled \cup {sending[1]}
        /\ received' = Append(received, sending[1]) \/ received' = received
    BY <1>2, TransmitSettles
  <2>3. /\ c \in Nat /\ fr \in Nat /\ n \in Nat /\ sending[1] = <<c, fr, n>>
        /\ <<c, fr, n>> \in FrameType
    BY <2>1, <2>2, SentType, HeadFrame DEF FrameType
  <2>4. /\ \A k \in 1..(fr - 1) : <<c, k, n>> \in Settled
        /\ \A f \in Settled : /\ Earlier(f, <<c, fr, n>>)
                              /\ AllSettled(f) \/ (f[1] = c /\ f[3] = n)
    BY <2>1, <2>2 DEF SendingGoesOn
  <2>5. /\ received \in Seq(FrameType) /\ Len(received) \in Nat
        /\ \A i \in 1..Len(received) : received[i] \in Settled /\ received[i] \in FrameType
    BY SentType DEF Settled
  <2>6. ASSUME NEW j \in 1..Len(received)
        PROVE  /\ \A i \in 1..(j - 1) : Earlier(received[i], received[j])
               /\ \A f \in Settled' : \A k \in 1..f[3] :
                    Earlier(<<f[1], k, f[3]>>, received[j]) => <<f[1], k, f[3]>> \in Settled'
    <3>1. Earlier(received[j], <<c, fr, n>>) /\ received[j] \in FrameType
      BY <2>4, <2>5
    <3>2. ASSUME NEW k \in 1..n, Earlier(<<c, k, n>>, received[j])
          PROVE  <<c, k, n>> \in Settled
      <4>1. k \in 1..(fr - 1)
        BY <2>3, <3>1, <3>2 DEF Earlier, FrameType
      <4> QED
        BY <2>4, <4>1
    <3> QED
      BY <2>2, <2>3, <3>2 DEF SetsSentInOrder
  <2>7. /\ \A i \in 1..Len(received) : Earlier(received[i], <<c, fr, n>>)
        /\ \A f \in Settled' : \A k \in 1..f[3] :
             Earlier(<<f[1], k, f[3]>>, <<c, fr, n>>) => <<f[1], k, f[3]>> \in Settled'
    <3>1. ASSUME NEW k \in 1..n, Earlier(<<c, k, n>>, <<c, fr, n>>)
          PROVE  <<c, k, n>> \in Settled
      <4>1. k \in 1..(fr - 1)
        BY <2>3, <3>1 DEF Earlier
      <4> QED
        BY <2>4, <4>1
    <3>2. \A f \in Settled : AllSettled(f) => \A k \in 1..f[3] : <<f[1], k, f[3]>> \in Settled'
      BY <2>2 DEF AllSettled
    <3> QED
      BY <2>2, <2>3, <2>4, <2>5, <3>1, <3>2
  <2>8. CASE received' = received
    BY <2>6, <2>8 DEF SetsSentInOrder
  <2>9. CASE received' = Append(received, sending[1])
    <3>1. /\ Len(received') = Len(received) + 1
          /\ received'[Len(received) + 1] = <<c, fr, n>>
          /\ \A i \in 1..Len(received) : received'[i] = received[i]
      BY <2>3, <2>5, <2>9, AppendProperties
    <3> SUFFICES ASSUME NEW j \in 1..Len(received')
                 PROVE  /\ \A i \in 1..(j - 1) : Earlier(received'[i], received'[j])
                        /\ \A f \in Settled' : \A k \in 1..f[3] :
                             Earlier(<<f[1], k, f[3]>>, received'[j]) => <<f[1], k, f[3]>> \in Settled'
      BY DEF SetsSentInOrder
    <3>2. CASE j \in 1..Len(received)
      <4>1. \A i \in 1..(j - 1) : received'[i] = received[i]
        BY <2>5, <3>1, <3>2
      <4> QED
        BY <2>6, <3>1, <3>2, <4>1
    <3>3. CASE j = Len(received) + 1
      <4>1. 1..(j - 1) = 1..Len(received)
        BY <2>5, <3>3
      <4> QED
        BY <2>7, <3>1, <3>3, <4>1
    <3> QED
      BY <2>5, <3>1, <3>2, <3>3
  <2> QED
    BY <2>2, <2>8, <2>9
<1> QED
  BY <1>1, <1>2

-----------------------------------------------------------------------------
(* The invariant                                                            *)

(* It holds at first, every step keeps it, and so it holds always. *)
LEMMA Initially == Init => Inv
<1> SUFFICES ASSUME Init
             PROVE  Inv
  OBVIOUS
<1>1. Types
  <2>1. \A S : <<>> \in Seq(S)
    BY EmptySeq
  <2>2. asked \in Seq(Ids)
    BY <2>1 DEF Init
  <2>3. TypeOK
    <3>1. frames \in [Ids -> Nat]
      BY DEF Init
    <3>2. calls \in 0..MaxCalls /\ sent \in 0..MaxMessages /\ slots \in 0..FrameLimit
      BY BoundsAssumption DEF Init
    <3>3. mode \in {"base", "rover"} /\ stop \in BOOLEAN /\ ready \in BOOLEAN
      BY DEF Init
    <3>4. uartPc = "top" /\ appPc = "idle" /\ guard = "free"
      BY DEF Init
    <3> QED
      BY <2>2, <3>1, <3>2, <3>3, <3>4 DEF TypeOK
  <2>4. SeqsType
    <3> HIDE DEF CellType, Messages
    <3> QED
      BY <2>1 DEF Init, SeqsType
  <2> QED
    BY <2>3, <2>4 DEF Types
<1>2. RoomToRead
  BY BoundsAssumption DEF Init, RoomToRead
<1>3. GuardHeld /\ PendingIsTheEnd
  BY DEF Init, GuardHeld, PendingIsTheEnd, IsEnd
<1>4. StoreInOrder
  BY DEF Init, StoreInOrder, Stored
<1>5. FoundIsStored /\ CorrectionsBelongTogether
  BY DEF Init, FoundIsStored, CorrectionsBelongTogether
<1>6. SendingGoesOn /\ WaitingIsNewer /\ SetsSentInOrder
  <2>1. sending = <<>> /\ received = <<>> /\ incoming = <<>> /\ appPc = "idle" /\ Settled = {}
    BY DEF Init, Settled
  <2> QED
    BY <2>1 DEF SendingGoesOn, WaitingIsNewer, SetsSentInOrder, SetsBelow, SettledBelow
<1> QED
  BY <1>1, <1>2, <1>3, <1>4, <1>5, <1>6 DEF Inv, Types, BaseInv, RoverInv

LEMMA EveryStep == Inv /\ [Next]_vars => Inv'
<1> SUFFICES ASSUME Inv, [Next]_vars
             PROVE  Inv'
  OBVIOUS
<1> USE DEF Inv, BaseInv, RoverInv
<1>1. Types
  BY DEF Types
<1>2. Types'
  BY <1>1, TypesStep
<1>3. RoomToRead'
  BY <1>1, RoomStep
<1>4. GuardHeld' /\ PendingIsTheEnd'
  BY <1>1, GuardStep, PendingStep
<1>5. StoreInOrder' /\ FoundIsStored' /\ CorrectionsBelongTogether'
  BY <1>1, StoreStep, FoundStep, TogetherStep
<1>6. SendingGoesOn' /\ WaitingIsNewer' /\ SetsSentInOrder'
  BY <1>1, SendingStep, WaitingStep, SetsStep
<1> QED
  BY <1>2, <1>3, <1>4, <1>5, <1>6 DEF Types

LEMMA Always == Spec => []Inv
BY Initially, EveryStep, PTL DEF Spec

(* Every variable keeps its type; the table of extracted frames is never    *)
(* indexed past its end.                                                    *)
THEOREM CorrectionsTypeCorrect == Spec => []TypeOK
<1>1. Inv => TypeOK
  BY DEF Inv
<1> QED
  BY Always, <1>1, PTL

(* F9PRun::executeUartBase: whatever the receiver sends and however the     *)
(* line damages it, the UART thread never reads into a full buffer: what    *)
(* is carried from pass to pass is always shorter than the buffer.          *)
THEOREM AlwaysRoomToRead == Spec => []RoomToRead
<1>1. Inv => RoomToRead
  BY DEF Inv
<1> QED
  BY Always, <1>1, PTL

(* Rtcm3Store::getFrames: a set of corrections holds messages of one burst, *)
(* or the first of a burst and the last of the one before, as long as no    *)
(* frame was damaged or dropped, whatever the application asks for and      *)
(* whenever it asks.                                                        *)
THEOREM CorrectionsOfOneBurst == Spec => []CorrectionsBelongTogether
<1>1. Inv => CorrectionsBelongTogether
  BY DEF Inv, BaseInv
<1> QED
  BY Always, <1>1, PTL

(* F9PRun::executeUartRover: the receiver gets the frames in the order of   *)
(* the sets and within them, none twice, and with every frame the earlier   *)
(* ones of the sets begun so far but for those whose write failed, whatever *)
(* sets are applied and however the calls and the UART thread meet.         *)
THEOREM SetsInOrder == Spec => []SetsSentInOrder
<1>1. Inv => SetsSentInOrder
  BY DEF Inv, RoverInv
<1> QED
  BY Always, <1>1, PTL

-----------------------------------------------------------------------------
(* The cuts do not matter                                                   *)

(* What extractFrames computes, round by round.                             *)
Rounds(cells, limit) ==
    CHOOSE g : g = [n \in 0..limit |-> IF n = 0 THEN Start(cells) ELSE ExtractOne(g[n - 1])]

Found(cells, g) == [rest |-> cells, got |-> g, carry |-> <<>>, over |-> FALSE]
Accepted(g, frame) == IF CheckFrame(frame) THEN Append(g, frame[1].msg) ELSE g

(* However stream w goes on, m rounds over it find g and leave cell p to be *)
(* looked at next.                                                          *)
Rounded(w, p, m, g) ==
    \A x \in Seq(CellType) : \A n \in Nat :
        n >= m => Rounds(w \o x, n)[m] = Found(SubSeq(w \o x, p, Len(w \o x)), g)

NoPreamble(w, p, q) == \A k \in p..q : ~(w[k].claim > 0)
FirstPreamble(cells, k) == k = Preamble(cells) /\ k # 0
FrameAt(w, h, n) == w[h].claim > 0 /\ n = Claimed(w[h])

(* The buffer holds the stream from cell q on; m rounds over the stream     *)
(* have found `framed` and go on at p, with no preamble between p and q.    *)
Stands(q, p, m) ==
    /\ q \in 1..Len(wire) + 1 /\ p \in 1..Len(wire) + 1 /\ m < p /\ p <= q
    /\ Len(buf) = Len(wire) - q + 1
    /\ \A i \in 1..Len(buf) : buf[i] = wire[q + i - 1]
    /\ NoPreamble(wire, p, q - 1)
    /\ Rounded(wire, p, m, framed)

InStream == overflowed \/ \E q, p, m \in Nat : Stands(q, p, m)

(* Behind the last round only a frame that is not all there is left.        *)
Unfinished ==
    buf = <<>> \/ (buf[1].claim > 0 /\ (Len(buf) < 2 \/ Len(buf) < Claimed(buf[1])))

WireType == wire \in Seq(CellType) /\ buf \in Seq(CellType) /\ framed \in Seq(Messages)

CutInv == WireType /\ InStream /\ (uartPc \in {"store", "write"} => Unfinished)

LEMMA ExtractFramesIsRounds ==
    ASSUME NEW cells, NEW limit
    PROVE  ExtractFrames(cells, limit) = Rounds(cells, limit)[limit]
BY DEF ExtractFrames, Rounds

LEMMA RoundsExist ==
    ASSUME NEW cells
    PROVE  \A limit \in Nat :
              \E g : g = [n \in 0..limit |-> IF n = 0 THEN Start(cells) ELSE ExtractOne(g[n - 1])]
<1> DEFINE Fun(l, g) ==
              g = [n \in 0..l |-> IF n = 0 THEN Start(cells) ELSE ExtractOne(g[n - 1])]
           Ok(l) == \E g : Fun(l, g)
           Bad == {l \in Nat : ~Ok(l)}
<1>1. SUFFICES ASSUME Bad # {} PROVE FALSE
  OBVIOUS
<1>2. PICK l \in Bad : \A k \in Bad : l <= k
  <2>1. Bad \subseteq Nat
    OBVIOUS
  <2> HIDE DEF Bad
  <2> QED
    BY <1>1, <2>1, LeastExists
<1>3. CASE l = 0
  <2> DEFINE h == [n \in 0..0 |-> Start(cells)]
  <2>1. h = [n \in 0..0 |-> IF n = 0 THEN Start(cells) ELSE ExtractOne(h[n - 1])]
    OBVIOUS
  <2> QED
    BY <1>2, <1>3, <2>1
<1>4. CASE l # 0
  <2>1. l - 1 \in Nat /\ l \in Nat /\ Ok(l - 1)
    <3> HIDE DEF Ok
    <3>1. l \in Nat /\ l - 1 \in Nat
      BY <1>4
    <3>2. ~(l <= l - 1)
      BY <3>1
    <3> QED
      BY <1>2, <3>1, <3>2
  <2>2. PICK g : Fun(l - 1, g)
    BY <2>1
  <2> DEFINE h == [n \in 0..l |-> IF n = 0 THEN Start(cells) ELSE ExtractOne(g[n - 1])]
  <2>3. \A n \in 0..l - 1 : g[n] = IF n = 0 THEN Start(cells) ELSE ExtractOne(g[n - 1])
    <3>1. g = [n \in 0..l - 1 |-> IF n = 0 THEN Start(cells) ELSE ExtractOne(g[n - 1])]
      BY <2>2
    <3> QED
      BY <3>1
  <2>4. \A n \in 0..l - 1 : h[n] = g[n]
    <3> TAKE n \in 0..l - 1
    <3>1. n \in 0..l
      BY <2>1
    <3> QED
      BY <2>3, <3>1
  <2>5. h = [n \in 0..l |-> IF n = 0 THEN Start(cells) ELSE ExtractOne(g[n - 1])]
    OBVIOUS
  <2> HIDE DEF h
  <2>6. \A n \in 0..l : n # 0 => h[n - 1] = g[n - 1]
    <3> TAKE n \in 0..l
    <3>1. n # 0 => n - 1 \in 0..l - 1
      BY <2>1
    <3> QED
      BY <2>4, <3>1
  <2>7. h = [n \in 0..l |-> IF n = 0 THEN Start(cells) ELSE ExtractOne(h[n - 1])]
    BY <2>5, <2>6
  <2> QED
    BY <1>2, <2>7
<1> QED
  BY <1>3, <1>4

LEMMA RoundsUnfold ==
    ASSUME NEW cells, NEW limit \in Nat, NEW n \in 0..limit
    PROVE  Rounds(cells, limit)[n] =
               IF n = 0 THEN Start(cells) ELSE ExtractOne(Rounds(cells, limit)[n - 1])
<1>1. Rounds(cells, limit) =
          [k \in 0..limit |->
              IF k = 0 THEN Start(cells) ELSE ExtractOne(Rounds(cells, limit)[k - 1])]
  BY RoundsExist DEF Rounds
<1> QED
  BY <1>1

(* Once a round has ended the pass, the others do nothing.                  *)
LEMMA OverStays ==
    ASSUME NEW cells, NEW limit \in Nat, NEW m \in 0..limit,
           Rounds(cells, limit)[m].over = TRUE
    PROVE  Rounds(cells, limit)[limit] = Rounds(cells, limit)[m]
<1> DEFINE R == Rounds(cells, limit)
           Bad == {n \in m..limit : R[n] # R[m]}
<1> SUFFICES ASSUME Bad # {} PROVE FALSE
  OBVIOUS
<1>1. \A n \in 0..limit : R[n] = IF n = 0 THEN Start(cells) ELSE ExtractOne(R[n - 1])
  BY RoundsUnfold
<1> HIDE DEF R
<1>2. PICK n \in Bad : \A k \in Bad : n <= k
  <2>1. Bad \subseteq Nat
    OBVIOUS
  <2> HIDE DEF Bad
  <2> QED
    BY <2>1, LeastExists
<1>3. n \in m..limit /\ R[n] # R[m] /\ n # m
  BY <1>2
<1>4. n - 1 \in m..limit /\ n \in 0..limit /\ n # 0 /\ ~(n <= n - 1)
  BY <1>3
<1>5. n - 1 \notin Bad
  <2> HIDE DEF Bad
  <2> QED
    BY <1>2, <1>4
<1>6. R[n - 1] = R[m]
  BY <1>4, <1>5
<1>7. R[n] = ExtractOne(R[m])
  BY <1>1, <1>4, <1>6
<1>8. R[m].over = TRUE
  BY DEF R
<1>9. ExtractOne(R[m]) = R[m]
  BY <1>8 DEF ExtractOne
<1> QED
  BY <1>3, <1>7, <1>9

(* What a round makes of a stream of which g has been found.                *)
LEMMA PreambleIs ==
    ASSUME NEW cells \in Seq(CellType), NEW k \in 1..Len(cells), cells[k].claim > 0,
           \A j \in 1..k - 1 : ~(cells[j].claim > 0)
    PROVE  Preamble(cells) = k
<1> DEFINE at == {j \in 1..Len(cells) : cells[j].claim > 0}
<1>1. k \in at /\ \A j \in at : k <= j
  OBVIOUS
<1>2. Preamble(cells) = CHOOSE i \in at : \A j \in at : i <= j
  BY <1>1 DEF Preamble
<1>3. \A i \in at : (\A j \in at : i <= j) => i = k
  BY <1>1
<1> HIDE DEF at
<1> QED
  BY <1>1, <1>2, <1>3

LEMMA NoPreambleIs ==
    ASSUME NEW cells \in Seq(CellType), \A j \in 1..Len(cells) : ~(cells[j].claim > 0)
    PROVE  Preamble(cells) = 0
BY DEF Preamble

LEMMA FindsNothing ==
    ASSUME NEW cells, NEW g, Preamble(cells) = 0
    PROVE  ExtractOne(Found(cells, g)).over = TRUE /\ ExtractOne(Found(cells, g)).got = g
<1> DEFINE s == Found(cells, g)
<1>1. s.rest = cells /\ s.over = FALSE
  BY DEF Found
<1>2. ExtractOne(s) = [s EXCEPT !.over = TRUE, !.rest = <<>>]
  <2> HIDE DEF s
  <2> QED
    BY <1>1 DEF ExtractOne
<1> QED
  BY <1>2 DEF Found

LEMMA FindsUnfinished ==
    ASSUME NEW cells, NEW g, NEW k \in Nat \ {0}, k = Preamble(cells),
           NEW remaining \in Nat, remaining = Len(cells) - k + 1,
           NEW n \in Nat, n = Claimed(cells[k]), remaining < 2 \/ remaining < n
    PROVE  ExtractOne(Found(cells, g)).over = TRUE /\ ExtractOne(Found(cells, g)).got = g
<1> DEFINE s == Found(cells, g)
<1>1. s.rest = cells /\ s.over = FALSE
  BY DEF Found
<1>2. ExtractOne(s) = [s EXCEPT !.over = TRUE, !.rest = <<>>,
                                !.carry = SubSeq(cells, k, Len(cells))]
  <2> HIDE DEF s
  <2> QED
    BY <1>1 DEF ExtractOne
<1> QED
  BY <1>2 DEF Found

WholeFrame(cells, k, n) ==
    /\ k \in Nat \ {0} /\ k = Preamble(cells)
    /\ n \in Nat /\ n = Claimed(cells[k])
    /\ Len(cells) - k + 1 \in Nat /\ Len(cells) - k + 1 >= 2 /\ Len(cells) - k + 1 >= n

OneMore(cells, k, n, g) ==
    WholeFrame(cells, k, n) =>
        ExtractOne(Found(cells, g)) =
            Found(SubSeq(cells, k + n, Len(cells)), Accepted(g, SubSeq(cells, k, k + n - 1)))

LEMMA FindsFrame == \A cells, k, n, g : OneMore(cells, k, n, g)
<1> SUFFICES ASSUME NEW cells, NEW k, NEW n, NEW g, WholeFrame(cells, k, n)
             PROVE  ExtractOne(Found(cells, g)) =
                        Found(SubSeq(cells, k + n, Len(cells)),
                              Accepted(g, SubSeq(cells, k, k + n - 1)))
  BY DEF OneMore
<1>0. PICK remaining : remaining = Len(cells) - k + 1
  OBVIOUS
<1>a. k \in Nat \ {0} /\ k = Preamble(cells) /\ remaining \in Nat /\ n = Claimed(cells[k])
      /\ ~(remaining < 2 \/ remaining < n)
  BY <1>0 DEF WholeFrame
<1> DEFINE s == Found(cells, g)
           frame == SubSeq(cells, k, k + n - 1)
<1>1. s.rest = cells /\ s.over = FALSE /\ s.got = g
  BY DEF Found
<1>2. ExtractOne(s) = [s EXCEPT !.rest = SubSeq(cells, k + n, Len(cells)),
                                !.got  = IF CheckFrame(frame) THEN Append(g, frame[1].msg) ELSE g]
  <2> HIDE DEF s
  <2> QED
    BY <1>0, <1>a, <1>1 DEF ExtractOne
<1> QED
  BY <1>2 DEF Found, Accepted

(* Two stretches with the same cells are the same sequence.                 *)
SameCells(s, a, b, t, c, d) ==
    /\ s \in Seq(CellType) /\ t \in Seq(CellType)
    /\ a \in Nat \ {0} /\ c \in Nat \ {0} /\ b \in Nat /\ d \in Nat
    /\ b <= Len(s) /\ d <= Len(t) /\ b - a = d - c /\ a <= b + 1
    /\ \A i \in 1..b - a + 1 : s[a + i - 1] = t[c + i - 1]

OneStretch(s, a, b, t, c, d) ==
    SameCells(s, a, b, t, c, d) => SubSeq(s, a, b) = SubSeq(t, c, d)

LEMMA SameStretch == \A s, a, b, t, c, d : OneStretch(s, a, b, t, c, d)
<1> SUFFICES ASSUME NEW s, NEW a, NEW b, NEW t, NEW c, NEW d, SameCells(s, a, b, t, c, d)
             PROVE  SubSeq(s, a, b) = SubSeq(t, c, d)
  BY DEF OneStretch
<1>0. /\ s \in Seq(CellType) /\ t \in Seq(CellType)
      /\ a \in Nat \ {0} /\ c \in Nat \ {0} /\ b \in Nat /\ d \in Nat
      /\ b <= Len(s) /\ d <= Len(t) /\ b - a = d - c /\ a <= b + 1
      /\ \A i \in 1..b - a + 1 : s[a + i - 1] = t[c + i - 1]
  BY DEF SameCells
<1>1. /\ Len(s) \in Nat /\ Len(t) \in Nat /\ d - c + 1 = b - a + 1 /\ c <= d + 1
      /\ b - a + 1 \in Nat
  BY <1>0, LenProperties
<1>2. \A i \in a..b : s[i] \in CellType
  <2> TAKE i \in a..b
  <2>1. i \in 1..Len(s)
    BY <1>0, <1>1
  <2> QED
    BY <1>0, <2>1, ElementOfSeq
<1>3. \A i \in c..d : t[i] \in CellType
  <2> TAKE i \in c..d
  <2>1. i \in 1..Len(t)
    BY <1>0, <1>1
  <2> QED
    BY <1>0, <2>1, ElementOfSeq
<1>4. /\ SubSeq(s, a, b) \in Seq(CellType)
      /\ Len(SubSeq(s, a, b)) = IF a <= b THEN b - a + 1 ELSE 0
      /\ \A i \in 1..b - a + 1 : SubSeq(s, a, b)[i] = s[a + i - 1]
  BY <1>0, <1>2, SubSeqProperties
<1>5. /\ SubSeq(t, c, d) \in Seq(CellType)
      /\ Len(SubSeq(t, c, d)) = IF c <= d THEN d - c + 1 ELSE 0
      /\ \A i \in 1..d - c + 1 : SubSeq(t, c, d)[i] = t[c + i - 1]
  BY <1>0, <1>3, SubSeqProperties
<1>6. Len(SubSeq(s, a, b)) = b - a + 1 /\ Len(SubSeq(t, c, d)) = b - a + 1
  BY <1>0, <1>1, <1>4, <1>5
<1>7. \A i \in 1..Len(SubSeq(s, a, b)) : SubSeq(s, a, b)[i] = SubSeq(t, c, d)[i]
  BY <1>0, <1>1, <1>4, <1>5, <1>6
<1> QED
  BY <1>4, <1>5, <1>6, <1>7, SeqEqual

LEMMA CellsAssociate ==
    \A a, b, c \in Seq(CellType) : (a \o b) \o c = a \o (b \o c)
<1> TAKE a, b, c \in Seq(CellType)
<1>1. PICK S : S = CellType
  OBVIOUS
<1>2. a \in Seq(S) /\ b \in Seq(S) /\ c \in Seq(S)
  BY <1>1
<1> QED
  BY <1>2, ConcatAssociative

(* The rest of a stream.                                                    *)
LEMMA RestOf ==
    ASSUME NEW w \in Seq(CellType), NEW p \in 1..Len(w) + 1
    PROVE  /\ SubSeq(w, p, Len(w)) \in Seq(CellType)
           /\ Len(SubSeq(w, p, Len(w))) = Len(w) - p + 1
           /\ \A i \in 1..Len(w) - p + 1 : SubSeq(w, p, Len(w))[i] = w[p + i - 1]
<1>1. Len(w) \in Nat
  BY LenProperties
<1>2. \A i \in p..Len(w) : w[i] \in CellType
  <2> TAKE i \in p..Len(w)
  <2>1. i \in 1..Len(w)
    BY <1>1
  <2> QED
    BY <2>1, ElementOfSeq
<1>3. /\ SubSeq(w, p, Len(w)) \in Seq(CellType)
      /\ Len(SubSeq(w, p, Len(w))) = IF p <= Len(w) THEN Len(w) - p + 1 ELSE 0
      /\ \A i \in 1..Len(w) - p + 1 : SubSeq(w, p, Len(w))[i] = w[p + i - 1]
  <2>1. p \in Int /\ Len(w) \in Int
    BY <1>1
  <2> HIDE DEF CellType
  <2> QED
    BY <1>2, <2>1, SubSeqProperties
<1> QED
  BY <1>1, <1>3

(* The next preamble of the stream, for a search that stands at p, is the   *)
(* first one of the buffer.                                                 *)
LEMMA NextPreamble ==
    ASSUME NEW w \in Seq(CellType), NEW p \in 1..Len(w) + 1, NEW h \in p..Len(w),
           w[h].claim > 0, NoPreamble(w, p, h - 1)
    PROVE  /\ Preamble(SubSeq(w, p, Len(w))) = h - p + 1
           /\ SubSeq(w, p, Len(w))[h - p + 1] = w[h]
<1> DEFINE rest == SubSeq(w, p, Len(w))
<1>1. /\ rest \in Seq(CellType) /\ Len(rest) = Len(w) - p + 1 /\ Len(w) \in Nat
      /\ \A i \in 1..Len(w) - p + 1 : rest[i] = w[p + i - 1]
  BY RestOf, LenProperties
<1> HIDE DEF rest
<1>2. h - p + 1 \in 1..Len(rest) /\ p + (h - p + 1) - 1 = h
  BY <1>1
<1>3. rest[h - p + 1] = w[h]
  BY <1>1, <1>2
<1>4. ASSUME NEW j \in 1..(h - p + 1) - 1 PROVE ~(rest[j].claim > 0)
  <2>1. p + j - 1 \in p..h - 1 /\ j \in 1..Len(w) - p + 1
    BY <1>1, <1>2
  <2>2. rest[j] = w[p + j - 1]
    BY <1>1, <2>1
  <2> QED
    BY <2>1, <2>2 DEF NoPreamble
<1>5. Preamble(rest) = h - p + 1
  BY <1>1, <1>2, <1>3, <1>4, PreambleIs
<1> QED
  BY <1>3, <1>5 DEF rest

(* One more round over a stream whose next frame is all there.              *)
Ahead(w, p, h, n) ==
    /\ w \in Seq(CellType) /\ p \in 1..Len(w) + 1 /\ h \in p..Len(w)
    /\ NoPreamble(w, p, h - 1) /\ n \in Nat /\ FrameAt(w, h, n)
    /\ n >= 1 /\ h + n - 1 <= Len(w) /\ h < Len(w)

RoundOver(w, p, h, n, g) ==
    Ahead(w, p, h, n) =>
        ExtractOne(Found(SubSeq(w, p, Len(w)), g)) =
            Found(SubSeq(w, h + n, Len(w)), Accepted(g, SubSeq(w, h, h + n - 1)))

LEMMA NextRound == \A w, p, h, n, g : RoundOver(w, p, h, n, g)
<1> SUFFICES ASSUME NEW w, NEW p, NEW h, NEW n, NEW g, Ahead(w, p, h, n)
             PROVE  ExtractOne(Found(SubSeq(w, p, Len(w)), g)) =
                        Found(SubSeq(w, h + n, Len(w)), Accepted(g, SubSeq(w, h, h + n - 1)))
  BY DEF RoundOver
<1>0. /\ w \in Seq(CellType) /\ p \in 1..Len(w) + 1 /\ h \in p..Len(w)
      /\ NoPreamble(w, p, h - 1) /\ n \in Nat /\ FrameAt(w, h, n)
      /\ n >= 1 /\ h + n - 1 <= Len(w) /\ h < Len(w)
  BY DEF Ahead
<1> DEFINE rest == SubSeq(w, p, Len(w))
           k == h - p + 1
           remaining == Len(rest) - k + 1
<1>1. /\ rest \in Seq(CellType) /\ Len(rest) = Len(w) - p + 1 /\ Len(w) \in Nat
      /\ \A i \in 1..Len(w) - p + 1 : rest[i] = w[p + i - 1]
  BY <1>0, RestOf, LenProperties
<1>2. k = Preamble(rest) /\ rest[k] = w[h]
  BY <1>0, NextPreamble DEF FrameAt
<1> HIDE DEF rest
<1>3. /\ k \in Nat \ {0} /\ remaining \in Nat /\ remaining = Len(w) - h + 1 /\ ~(remaining < 2 \/ remaining < n)
      /\ k + n - 1 <= Len(rest) /\ k + n - 1 \in Nat /\ h + n - 1 \in Nat /\ h \in Nat \ {0}
      /\ (k + n - 1) - k = (h + n - 1) - h /\ k <= (k + n - 1) + 1
  BY <1>0, <1>1
<1>4. SubSeq(rest, k, k + n - 1) = SubSeq(w, h, h + n - 1)
  <2>1. ASSUME NEW i \in 1..(k + n - 1) - k + 1 PROVE rest[k + i - 1] = w[h + i - 1]
    <3>1. k + i - 1 \in 1..Len(w) - p + 1 /\ p + (k + i - 1) - 1 = h + i - 1
      BY <1>0, <1>1, <1>3
    <3> QED
      BY <1>1, <3>1
  <2>2. SameCells(rest, k, k + n - 1, w, h, h + n - 1)
    <3> HIDE DEF k
    <3> QED
      BY <1>0, <1>1, <1>3, <2>1 DEF SameCells
  <2> HIDE DEF k
  <2>3. OneStretch(rest, k, k + n - 1, w, h, h + n - 1)
    BY SameStretch
  <2> QED
    BY <2>2, <2>3 DEF OneStretch
<1>5. SubSeq(rest, k + n, Len(rest)) = SubSeq(w, h + n, Len(w))
  <2>1. ASSUME NEW i \in 1..Len(rest) - (k + n) + 1
        PROVE  rest[(k + n) + i - 1] = w[(h + n) + i - 1]
    <3>1. (k + n) + i - 1 \in 1..Len(w) - p + 1 /\ p + ((k + n) + i - 1) - 1 = (h + n) + i - 1
      BY <1>0, <1>1, <1>3
    <3> QED
      BY <1>1, <3>1
  <2>2. /\ k + n \in Nat \ {0} /\ h + n \in Nat \ {0} /\ Len(rest) - (k + n) = Len(w) - (h + n)
        /\ k + n <= Len(rest) + 1 /\ Len(rest) \in Nat
    <3>1. Len(rest) \in Nat /\ Len(w) \in Nat /\ Len(rest) - k = Len(w) - h
      <4>1. /\ p \in Int /\ h \in Int /\ Len(w) \in Int
            /\ Len(rest) = Len(w) - p + 1 /\ p <= Len(w) + 1
        BY <1>0, <1>1
      <4> QED
        BY <4>1
    <3> HIDE DEF k, remaining
    <3> QED
      BY <1>0, <1>3, <3>1
  <2>3. SameCells(rest, k + n, Len(rest), w, h + n, Len(w))
    <3> HIDE DEF k
    <3> QED
      BY <1>0, <1>1, <2>1, <2>2 DEF SameCells
  <2> HIDE DEF k
  <2>4. OneStretch(rest, k + n, Len(rest), w, h + n, Len(w))
    BY SameStretch
  <2> QED
    BY <2>3, <2>4 DEF OneStretch
<1>6. remaining = Len(rest) - k + 1 /\ n = Claimed(rest[k])
  BY <1>0, <1>2 DEF FrameAt
<1> HIDE DEF k, remaining
<1>7. ExtractOne(Found(rest, g)) =
          Found(SubSeq(rest, k + n, Len(rest)), Accepted(g, SubSeq(rest, k, k + n - 1)))
  <2>1. WholeFrame(rest, k, n)
    <3>1. /\ Len(rest) - k + 1 \in Nat /\ Len(rest) - k + 1 >= 2 /\ Len(rest) - k + 1 >= n
          /\ k \in Nat \ {0} /\ n \in Nat
      BY <1>0, <1>3 DEF remaining
    <3>2. k = Preamble(rest) /\ n = Claimed(rest[k])
      BY <1>2, <1>6
    <3> QED
      BY <3>1, <3>2 DEF WholeFrame
  <2>2. OneMore(rest, k, n, g)
    BY FindsFrame
  <2> QED
    BY <2>1, <2>2 DEF OneMore
<1> QED
  BY <1>4, <1>5, <1>7 DEF rest

(* The stream goes on behind what the buffer holds.                         *)
LEMMA ReadsOn ==
    ASSUME WireType, InStream, NEW b \in Seq(CellType),
           buf' = buf \o b, wire' = wire \o b, UNCHANGED <<framed, overflowed>>
    PROVE  InStream'
<1> SUFFICES ASSUME ~overflowed PROVE \E q, p, m \in Nat : Stands(q, p, m)'
  BY DEF InStream
<1>1. PICK q \in Nat, p \in Nat, m \in Nat : Stands(q, p, m)
  BY DEF InStream
<1>2. /\ wire \in Seq(CellType) /\ buf \in Seq(CellType)
      /\ Len(wire) \in Nat /\ Len(buf) \in Nat /\ Len(b) \in Nat
  BY LenProperties DEF WireType
<1>3. /\ q \in 1..Len(wire) + 1 /\ p \in 1..Len(wire) + 1 /\ m < p /\ p <= q
      /\ Len(buf) = Len(wire) - q + 1
      /\ \A i \in 1..Len(buf) : buf[i] = wire[q + i - 1]
      /\ NoPreamble(wire, p, q - 1)
      /\ Rounded(wire, p, m, framed)
  BY <1>1 DEF Stands
<1> HIDE DEF CellType
<1>4. /\ Len(wire') = Len(wire) + Len(b)
      /\ \A i \in 1..Len(wire') : wire'[i] = IF i <= Len(wire) THEN wire[i] ELSE b[i - Len(wire)]
  BY <1>2, ConcatProperties
<1>5. /\ Len(buf') = Len(buf) + Len(b)
      /\ \A i \in 1..Len(buf') : buf'[i] = IF i <= Len(buf) THEN buf[i] ELSE b[i - Len(buf)]
  BY <1>2, ConcatProperties
<1>6. Len(buf') = Len(wire') - q + 1 /\ q \in 1..Len(wire') + 1 /\ p \in 1..Len(wire') + 1
  BY <1>2, <1>3, <1>4, <1>5
<1>7. ASSUME NEW i \in 1..Len(buf') PROVE buf'[i] = wire'[q + i - 1]
  <2>1. q + i - 1 \in 1..Len(wire') /\ Len(wire) = Len(buf) + q - 1
    BY <1>2, <1>3, <1>4, <1>5
  <2>2. CASE i <= Len(buf)
    <3>1. i \in 1..Len(buf) /\ q + i - 1 <= Len(wire)
      BY <1>2, <2>1, <2>2
    <3>2. buf'[i] = buf[i] /\ wire'[q + i - 1] = wire[q + i - 1]
      BY <1>4, <1>5, <2>1, <2>2, <3>1
    <3> QED
      BY <1>3, <3>1, <3>2
  <2>3. CASE ~(i <= Len(buf))
    <3>1. ~(q + i - 1 <= Len(wire)) /\ (q + i - 1) - Len(wire) = i - Len(buf)
      BY <1>2, <2>1, <2>3
    <3> QED
      BY <1>4, <1>5, <2>1, <2>3, <3>1
  <2> QED
    BY <2>2, <2>3
<1>8. NoPreamble(wire', p, q - 1)
  <2> SUFFICES ASSUME NEW k \in p..q - 1 PROVE ~(wire'[k].claim > 0)
    BY DEF NoPreamble
  <2>1. k \in 1..Len(wire) /\ k \in 1..Len(wire')
    BY <1>2, <1>3, <1>4
  <2>2. wire'[k] = wire[k]
    BY <1>4, <2>1
  <2> QED
    BY <1>3, <2>2 DEF NoPreamble
<1>9. Rounded(wire', p, m, framed)
  <2> SUFFICES ASSUME NEW x \in Seq(CellType), NEW n \in Nat, n >= m
               PROVE  Rounds(wire' \o x, n)[m] =
                          Found(SubSeq(wire' \o x, p, Len(wire' \o x)), framed)
    BY DEF Rounded
  <2>1. (wire \o b) \o x = wire \o (b \o x) /\ b \o x \in Seq(CellType)
    BY <1>2, CellsAssociate, ConcatProperties
  <2>2. Rounds(wire \o (b \o x), n)[m] =
            Found(SubSeq(wire \o (b \o x), p, Len(wire \o (b \o x))), framed)
    BY <1>3, <2>1 DEF Rounded
  <2> QED
    BY <2>1, <2>2
<1> QED
  BY <1>3, <1>6, <1>7, <1>8, <1>9 DEF Stands

(* No cell before the first preamble looks like one.                        *)
LEMMA BeforePreamble ==
    ASSUME NEW cells \in Seq(CellType), Preamble(cells) # 0, NEW j \in 1..Preamble(cells) - 1
    PROVE  ~(cells[j].claim > 0)
<1> DEFINE at == {k \in 1..Len(cells) : cells[k].claim > 0}
<1>1. at # {} /\ at \subseteq Nat
  BY DEF Preamble
<1>2. Preamble(cells) = CHOOSE k \in at : \A i \in at : k <= i
  BY <1>1 DEF Preamble
<1>3. \E k \in at : \A i \in at : k <= i
  <2> HIDE DEF at
  <2> QED
    BY <1>1, LeastExists
<1>4. Preamble(cells) \in at /\ \A i \in at : Preamble(cells) <= i
  <2> HIDE DEF at
  <2> QED
    BY <1>2, <1>3
<1>5. Len(cells) \in Nat /\ Preamble(cells) \in 1..Len(cells)
  BY <1>4, LenProperties
<1>6. j \in 1..Len(cells) /\ ~(Preamble(cells) <= j)
  BY <1>5
<1> QED
  BY <1>4, <1>6

(* What the parser finds in the buffer is what it would find in the stream. *)
LEMMA FindsInStream ==
    ASSUME WireType, NEW q \in Nat, NEW p \in Nat, NEW m \in Nat, Stands(q, p, m),
           NEW k \in 1..Len(buf), FirstPreamble(buf, k),
           NEW n \in Nat, FrameAt(buf, k, n), n >= 1, k + n - 1 <= Len(buf), k < Len(buf)
    PROVE  Rounded(wire, q + k + n - 1, m + 1, Accepted(framed, SubSeq(buf, k, k + n - 1)))
<1> DEFINE frame == SubSeq(buf, k, k + n - 1)
           found == Accepted(framed, frame)
           h == q + k - 1
<1> SUFFICES ASSUME NEW x \in Seq(CellType), NEW l \in Nat, l >= m + 1
             PROVE  Rounds(wire \o x, l)[m + 1] =
                        Found(SubSeq(wire \o x, q + k + n - 1, Len(wire \o x)), found)
  BY DEF Rounded
<1> DEFINE w == wire \o x
<1> HIDE DEF CellType
<1>1. /\ wire \in Seq(CellType) /\ buf \in Seq(CellType)
      /\ Len(wire) \in Nat /\ Len(buf) \in Nat /\ Len(x) \in Nat
  BY LenProperties DEF WireType
<1>2. /\ q \in 1..Len(wire) + 1 /\ p \in 1..Len(wire) + 1 /\ p <= q
      /\ Len(buf) = Len(wire) - q + 1
      /\ \A i \in 1..Len(buf) : buf[i] = wire[q + i - 1]
      /\ NoPreamble(wire, p, q - 1)
      /\ Rounded(wire, p, m, framed)
  BY DEF Stands
<1>3. /\ w \in Seq(CellType) /\ Len(w) = Len(wire) + Len(x)
      /\ \A i \in 1..Len(w) : w[i] = IF i <= Len(wire) THEN wire[i] ELSE x[i - Len(wire)]
  BY <1>1, ConcatProperties
<1>4. Rounds(w, l)[m] = Found(SubSeq(w, p, Len(w)), framed)
  <2>1. l >= m
    OBVIOUS
  <2> QED
    BY <1>2, <2>1 DEF Rounded
<1>5. Rounds(w, l)[m + 1] = ExtractOne(Rounds(w, l)[m])
  <2>1. m + 1 \in 0..l /\ m + 1 # 0 /\ (m + 1) - 1 = m
    OBVIOUS
  <2>2. Rounds(w, l)[m + 1] =
            IF m + 1 = 0 THEN Start(w) ELSE ExtractOne(Rounds(w, l)[(m + 1) - 1])
    BY <2>1, RoundsUnfold
  <2> QED
    BY <2>1, <2>2
<1> HIDE DEF w, h, frame
<1>6. ASSUME NEW i \in 1..Len(buf) PROVE q + i - 1 \in 1..Len(wire) /\ w[q + i - 1] = buf[i]
  <2>1. q + i - 1 \in 1..Len(wire)
    BY <1>1, <1>2
  <2>2. q + i - 1 \in 1..Len(w)
    BY <1>1, <1>3, <2>1
  <2>3. w[q + i - 1] = wire[q + i - 1]
    <3>1. PICK j : j = q + i - 1
      OBVIOUS
    <3>2. j \in 1..Len(w) /\ j <= Len(wire)
      BY <1>1, <2>1, <2>2, <3>1
    <3>3. w[j] = wire[j]
      BY <1>3, <3>2
    <3> QED
      BY <3>1, <3>3
  <2> QED
    BY <1>2, <2>1, <2>3
<1>7. h \in 1..Len(wire) /\ w[h] = buf[k]
  BY <1>6 DEF h
<1>8. /\ p \in 1..Len(w) + 1 /\ h \in p..Len(w) /\ h + n - 1 <= Len(w) /\ h < Len(w)
      /\ h \in Nat \ {0} /\ h = q + k - 1 /\ h + n = q + k + n - 1
  <2>1. h = q + k - 1 /\ k \in Nat /\ k >= 1
    BY DEF h
  <2> QED
    BY <1>1, <1>2, <1>3, <2>1
<1>9. NoPreamble(w, p, h - 1)
  <2> SUFFICES ASSUME NEW j \in p..h - 1 PROVE ~(w[j].claim > 0)
    BY DEF NoPreamble
  <2>1. CASE j <= q - 1
    <3>1. j \in p..q - 1 /\ j \in 1..Len(wire) /\ j \in 1..Len(w)
      BY <1>1, <1>2, <1>3, <2>1
    <3>2. w[j] = wire[j]
      BY <1>3, <3>1
    <3> QED
      BY <1>2, <3>1, <3>2 DEF NoPreamble
  <2>2. CASE ~(j <= q - 1)
    <3>1. j - q + 1 \in 1..k - 1 /\ j - q + 1 \in 1..Len(buf) /\ q + (j - q + 1) - 1 = j
      BY <1>1, <1>2, <1>8, <2>2
    <3>2. w[j] = buf[j - q + 1]
      BY <1>6, <3>1
    <3>3. ~(buf[j - q + 1].claim > 0)
      BY <1>1, <3>1, BeforePreamble DEF FirstPreamble
    <3> QED
      BY <3>2, <3>3
  <2> QED
    BY <2>1, <2>2
<1>10. SubSeq(w, h, h + n - 1) = frame
  <2>1. ASSUME NEW i \in 1..(h + n - 1) - h + 1 PROVE w[h + i - 1] = buf[k + i - 1]
    <3>1. k + i - 1 \in 1..Len(buf) /\ q + (k + i - 1) - 1 = h + i - 1
      BY <1>1, <1>8
    <3> QED
      BY <1>6, <3>1
  <2>2. /\ k \in Nat \ {0} /\ k + n - 1 \in Nat /\ h + n - 1 \in Nat /\ h <= (h + n - 1) + 1
        /\ (h + n - 1) - h = (k + n - 1) - k
    BY <1>8
  <2>3. SameCells(w, h, h + n - 1, buf, k, k + n - 1)
    BY <1>1, <1>3, <1>8, <2>1, <2>2 DEF SameCells
  <2>4. OneStretch(w, h, h + n - 1, buf, k, k + n - 1)
    BY SameStretch
  <2> QED
    BY <2>3, <2>4 DEF OneStretch, frame
<1>11. ExtractOne(Found(SubSeq(w, p, Len(w)), framed)) = Found(SubSeq(w, h + n, Len(w)), found)
  <2>1. FrameAt(w, h, n)
    BY <1>7 DEF FrameAt
  <2>2. ExtractOne(Found(SubSeq(w, p, Len(w)), framed)) =
            Found(SubSeq(w, h + n, Len(w)), Accepted(framed, SubSeq(w, h, h + n - 1)))
    <3>1. w \in Seq(CellType) /\ p \in 1..Len(w) + 1 /\ h \in p..Len(w) /\ h + n - 1 <= Len(w)
          /\ h < Len(w) /\ n >= 1 /\ n \in Nat
      BY <1>3, <1>8
    <3>2. Ahead(w, p, h, n)
      BY <1>9, <2>1, <3>1 DEF Ahead
    <3>3. RoundOver(w, p, h, n, framed)
      BY NextRound
    <3> QED
      BY <3>2, <3>3 DEF RoundOver
  <2> QED
    BY <1>10, <2>2
<1> QED
  BY <1>4, <1>5, <1>8, <1>11 DEF w, frame

(* Where the buffer stands in the stream when its first s cells are gone.   *)
LEMMA Shifted ==
    ASSUME WireType, NEW q \in Nat, NEW p \in Nat, NEW m \in Nat, Stands(q, p, m),
           NEW s \in Nat, s <= Len(buf), buf' = SubSeq(buf, s + 1, Len(buf)), wire' = wire
    PROVE  /\ q + s \in 1..Len(wire') + 1
           /\ Len(buf') = Len(wire') - (q + s) + 1
           /\ \A i \in 1..Len(buf') : buf'[i] = buf[s + i]
           /\ \A i \in 1..Len(buf') : buf'[i] = wire'[(q + s) + i - 1]
<1>1. /\ q \in 1..Len(wire) + 1 /\ Len(buf) = Len(wire) - q + 1
      /\ \A i \in 1..Len(buf) : buf[i] = wire[q + i - 1]
  BY DEF Stands
<1>2. wire \in Seq(CellType) /\ buf \in Seq(CellType) /\ Len(wire) \in Nat /\ Len(buf) \in Nat
  BY LenProperties DEF WireType
<1>3. s + 1 \in 1..Len(buf) + 1
  BY <1>2
<1>4. /\ Len(buf') = Len(buf) - (s + 1) + 1
      /\ \A i \in 1..Len(buf) - (s + 1) + 1 : buf'[i] = buf[(s + 1) + i - 1]
  BY <1>2, <1>3, RestOf
<1>5. /\ Len(buf') = Len(buf) - s /\ Len(buf') = Len(wire') - (q + s) + 1
      /\ q + s \in 1..Len(wire') + 1
  BY <1>1, <1>2, <1>4
<1>6. ASSUME NEW i \in 1..Len(buf')
      PROVE  buf'[i] = buf[s + i] /\ buf'[i] = wire'[(q + s) + i - 1]
  <2>1. i \in 1..Len(buf) - (s + 1) + 1 /\ (s + 1) + i - 1 = s + i
    BY <1>2, <1>5
  <2>2. buf'[i] = buf[s + i]
    BY <1>4, <2>1
  <2>3. s + i \in 1..Len(buf) /\ q + (s + i) - 1 = (q + s) + i - 1
    BY <1>2, <2>1
  <2>4. PICK j : j = s + i
    OBVIOUS
  <2>5. buf[j] = wire[q + j - 1]
    BY <1>1, <2>3, <2>4
  <2> QED
    BY <2>2, <2>3, <2>4, <2>5
<1> QED
  BY <1>5, <1>6

(* Cells of the buffer that are no preamble are none in the stream.         *)
LEMMA NoneBefore ==
    ASSUME WireType, NEW q \in Nat, NEW p \in Nat, NEW m \in Nat, Stands(q, p, m),
           NEW s \in Nat, s <= Len(buf), \A j \in 1..s : ~(buf[j].claim > 0)
    PROVE  NoPreamble(wire, p, q + s - 1)
<1> SUFFICES ASSUME NEW k \in p..q + s - 1 PROVE ~(wire[k].claim > 0)
  BY DEF NoPreamble
<1>1. /\ q \in 1..Len(wire) + 1 /\ p \in 1..Len(wire) + 1 /\ NoPreamble(wire, p, q - 1)
      /\ \A i \in 1..Len(buf) : buf[i] = wire[q + i - 1]
  BY DEF Stands
<1>2. CASE k <= q - 1
  <2>1. k \in p..q - 1
    BY <1>1, <1>2
  <2> QED
    BY <1>1, <2>1 DEF NoPreamble
<1>3. CASE ~(k <= q - 1)
  <2>1. PICK j : j = k - q + 1
    OBVIOUS
  <2>2. j \in 1..s /\ k = q + j - 1
    BY <1>1, <1>3, <2>1
  <2>3. j \in 1..Len(buf)
    BY <2>2, LenProperties DEF WireType
  <2>4. buf[j] = wire[k]
    BY <1>1, <2>2, <2>3
  <2> QED
    BY <2>2, <2>4
<1> QED
  BY <1>2, <1>3

LEMMA CutStart ==
    ASSUME Init
    PROVE  CutInv
<1>1. wire = <<>> /\ buf = <<>> /\ framed = <<>> /\ uartPc = "top"
  BY DEF Init
<1>2. WireType
  BY <1>1, EmptySeq DEF WireType
<1>3. Rounded(wire, 1, 0, framed)
  <2> SUFFICES ASSUME NEW x \in Seq(CellType), NEW n \in Nat
               PROVE  Rounds(wire \o x, n)[0] =
                          Found(SubSeq(wire \o x, 1, Len(wire \o x)), framed)
    BY DEF Rounded
  <2>1. wire \o x = x
    BY <1>1, ConcatEmptySeq
  <2>2. 0 \in 0..n
    OBVIOUS
  <2>3. Rounds(x, n)[0] = Start(x)
    BY <2>2, RoundsUnfold
  <2>4. SubSeq(x, 1, Len(x)) = x
    <3>1. 1 \in 1..Len(x) + 1 /\ Len(x) \in Nat
      BY LenProperties
    <3>2. /\ SubSeq(x, 1, Len(x)) \in Seq(CellType)
          /\ Len(SubSeq(x, 1, Len(x))) = Len(x) - 1 + 1
          /\ \A i \in 1..Len(x) - 1 + 1 : SubSeq(x, 1, Len(x))[i] = x[1 + i - 1]
      BY <3>1, RestOf
    <3>3. Len(SubSeq(x, 1, Len(x))) = Len(x) /\ \A i \in 1..Len(x) : SubSeq(x, 1, Len(x))[i] = x[i]
      BY <3>1, <3>2
    <3> QED
      BY <3>2, <3>3, SeqEqual
  <2> QED
    BY <1>1, <2>1, <2>3, <2>4 DEF Start, Found
<1>4. Stands(1, 1, 0)
  <2>1. Len(wire) = 0 /\ Len(buf) = 0
    BY <1>1
  <2>2. NoPreamble(wire, 1, 1 - 1)
    BY DEF NoPreamble
  <2> QED
    BY <1>3, <2>1, <2>2 DEF Stands
<1> QED
  BY <1>1, <1>2, <1>4 DEF CutInv, InStream

(* A step that neither reads nor extracts.                                  *)
LEMMA CutKept ==
    ASSUME CutInv, UNCHANGED <<wire, buf, framed, overflowed>>,
           uartPc' \in {"store", "write"} => uartPc \in {"store", "write"}
    PROVE  CutInv'
BY DEF CutInv, WireType, InStream, Stands, Rounded, NoPreamble, Unfinished

LEMMA CutRead ==
    ASSUME Types, CutInv, NEW n \in 1..BufSize, ReadUart(n)
    PROVE  CutInv'
<1> DEFINE b == SubSeq(out, 1, n)
<1>1. /\ n <= Len(out) /\ buf' = buf \o b /\ wire' = wire \o b /\ uartPc' = "extract"
      /\ UNCHANGED <<framed, overflowed>>
  BY DEF ReadUart
<1>2. b \in Seq(CellType)
  <2>1. out \in Seq(CellType) /\ Len(out) \in Nat
    BY LenProperties DEF Types, SeqsType
  <2>2. n \in Nat
    BY BoundsAssumption
  <2>3. \A i \in 1..n : out[i] \in CellType
    <3> TAKE i \in 1..n
    <3>1. i \in 1..Len(out)
      BY <1>1, <2>1, <2>2
    <3> QED
      BY <2>1, <3>1, ElementOfSeq
  <2> QED
    BY <2>2, <2>3, SubSeqProperties
<1> HIDE DEF b
<1>3. WireType'
  BY <1>1, <1>2, ConcatProperties DEF CutInv, WireType
<1>4. InStream'
  BY <1>1, <1>2, ReadsOn DEF CutInv
<1> QED
  BY <1>1, <1>3, <1>4 DEF CutInv

(* A frame, intact or not, is taken out of the buffer.                      *)
LEMMA CutFrame ==
    ASSUME Types, CutInv, ExtractFrame
    PROVE  CutInv'
<1> DEFINE round == ExtractOne(Start(buf))
<1>1. /\ ~round.over /\ buf' = round.rest /\ framed' = framed \o round.got
      /\ wire' = wire /\ uartPc' = "extract" /\ overflowed' = overflowed
  BY DEF ExtractFrame
<1>2. WireType /\ InStream /\ buf \in Seq(CellType) /\ framed \in Seq(Messages) /\ Len(buf) \in Nat
  BY LenProperties DEF CutInv, WireType
<1>3. PICK k : k = Preamble(buf)
  OBVIOUS
<1>4. k # 0
  BY <1>1, <1>3, NothingFound
<1>5. k \in 1..Len(buf) /\ buf[k] \in CellType /\ buf[k].claim > 0
  BY <1>2, <1>3, <1>4, PreambleFound, ElementOfSeq
<1>6. PICK n : n = Claimed(buf[k])
  OBVIOUS
<1>7. n \in Nat /\ n >= 1
  BY <1>5, <1>6, ClaimedRange, BoundsAssumption
<1>8. PICK remaining : remaining = Len(buf) - k + 1
  OBVIOUS
<1>9. remaining \in Nat /\ k \in Nat \ {0}
  BY <1>2, <1>5, <1>8
<1>10. ~(remaining < 2 \/ remaining < n)
  BY <1>1, <1>3, <1>6, <1>7, <1>8, <1>9, RestCarried
<1>11. PICK frame : frame = SubSeq(buf, k, k + n - 1)
  OBVIOUS
<1>12. /\ round.rest = SubSeq(buf, k + n, Len(buf))
       /\ round.got = IF CheckFrame(frame) THEN Append(<<>>, frame[1].msg) ELSE <<>>
  BY <1>3, <1>6, <1>7, <1>8, <1>9, <1>10, <1>11, FrameFound
<1>13. frame[1].msg \in Messages
  <2>1. k \in Int /\ k + n - 1 \in Int /\ k <= k + n - 1 /\ k + n - 1 <= Len(buf)
    BY <1>2, <1>7, <1>8, <1>9, <1>10
  <2>2. \A i \in k..k + n - 1 : buf[i] \in CellType
    <3> TAKE i \in k..k + n - 1
    <3>1. i \in 1..Len(buf)
      BY <1>2, <1>7, <1>9, <2>1
    <3> QED
      BY <1>2, <3>1, ElementOfSeq
  <2>3. frame[1] = buf[k]
    <3>1. PICK e : e = k + n - 1
      OBVIOUS
    <3>2. k \in Int /\ e \in Int /\ k <= e /\ \A i \in k..e : buf[i] \in CellType
      BY <2>1, <2>2, <3>1
    <3>3. 1 \in 1..e - k + 1 /\ k + 1 - 1 = k
      BY <3>2
    <3>4. SubSeq(buf, k, e)[1] = buf[k + 1 - 1]
      BY <3>2, <3>3, SubSeqProperties
    <3> QED
      BY <1>11, <3>1, <3>3, <3>4
  <2> QED
    BY <1>5, <2>3 DEF CellType
<1> HIDE DEF round
<1>14. framed' = Accepted(framed, frame) /\ framed' \in Seq(Messages)
  <2>1. CASE CheckFrame(frame)
    <3>1. PICK x : x = frame[1].msg
      OBVIOUS
    <3>2. x \in Messages /\ round.got = <<x>>
      BY <1>12, <1>13, <2>1, <3>1
    <3>3. framed' = framed \o <<x>>
      BY <1>1, <3>2
    <3>4. Append(framed, x) = framed \o <<x>> /\ Append(framed, x) \in Seq(Messages)
      BY <1>2, <3>2, AppendIsConcat, AppendProperties
    <3> QED
      BY <2>1, <3>1, <3>3, <3>4 DEF Accepted
  <2>2. CASE ~CheckFrame(frame)
    <3>1. framed \o <<>> = framed
      BY <1>2, ConcatEmptySeq
    <3> QED
      BY <1>1, <1>2, <1>12, <2>2, <3>1 DEF Accepted
  <2> QED
    BY <2>1, <2>2
<1>15. PICK s : s = k + n - 1
  OBVIOUS
<1>16. s \in Nat /\ s >= 1 /\ s <= Len(buf) /\ s + 1 = k + n
  BY <1>2, <1>7, <1>8, <1>9, <1>10, <1>15
<1>17. buf' = SubSeq(buf, s + 1, Len(buf))
  BY <1>1, <1>12, <1>16
<1>18. InStream'
  <2> SUFFICES ASSUME ~overflowed' PROVE \E q, p, m \in Nat : Stands(q, p, m)'
    BY DEF InStream
  <2>1. PICK q \in Nat, p \in Nat, m \in Nat : Stands(q, p, m)
    BY <1>1, <1>2 DEF InStream
  <2>2. /\ q + s \in 1..Len(wire') + 1
        /\ Len(buf') = Len(wire') - (q + s) + 1
        /\ \A i \in 1..Len(buf') : buf'[i] = wire'[(q + s) + i - 1]
    BY <1>1, <1>2, <1>16, <1>17, <2>1, Shifted
  <2>3. m + 1 < q + s /\ q + s \in Nat /\ m + 1 \in Nat
    BY <1>16, <2>1 DEF Stands
  <2>4. Rounded(wire, q + k + n - 1, m + 1, Accepted(framed, SubSeq(buf, k, k + n - 1)))
    <3>1. FirstPreamble(buf, k) /\ FrameAt(buf, k, n)
      BY <1>3, <1>4, <1>5, <1>6 DEF FirstPreamble, FrameAt
    <3>2. k + n - 1 <= Len(buf) /\ k < Len(buf)
      BY <1>2, <1>7, <1>8, <1>9, <1>10
    <3> QED
      BY <1>2, <1>5, <1>7, <2>1, <3>1, <3>2, FindsInStream
  <2>5. q + k + n - 1 = q + s
    BY <1>7, <1>9, <1>15
  <2>6. Rounded(wire', q + s, m + 1, framed')
    BY <1>1, <1>11, <1>14, <2>4, <2>5
  <2>7. NoPreamble(wire', q + s, (q + s) - 1)
    BY <2>3 DEF NoPreamble
  <2>8. PICK t : t = q + s
    OBVIOUS
  <2>9. Stands(t, t, m + 1)'
    BY <2>2, <2>3, <2>6, <2>7, <2>8 DEF Stands
  <2> QED
    BY <2>3, <2>8, <2>9
<1>19. WireType'
  <2>1. s + 1 \in 1..Len(buf) + 1
    BY <1>2, <1>16
  <2>2. buf' \in Seq(CellType)
    BY <1>2, <1>17, <2>1, RestOf
  <2> QED
    BY <1>1, <1>2, <1>14, <2>2 DEF WireType
<1> QED
  BY <1>1, <1>18, <1>19 DEF CutInv

(* The last round, with nothing that may become a frame.                    *)
LEMMA EndsWithNothing ==
    ASSUME WireType, InStream, Preamble(buf) = 0, buf' = <<>>,
           UNCHANGED <<wire, framed, overflowed>>
    PROVE  InStream'
<1> SUFFICES ASSUME ~overflowed' PROVE \E q, p, m \in Nat : Stands(q, p, m)'
  BY DEF InStream
<1>1. PICK q \in Nat, p \in Nat, m \in Nat : Stands(q, p, m)
  BY DEF InStream
<1>2. /\ wire \in Seq(CellType) /\ buf \in Seq(CellType) /\ Len(wire) \in Nat /\ Len(buf) \in Nat
  BY LenProperties DEF WireType
<1>3. PICK s : s = Len(buf)
  OBVIOUS
<1>4. \A j \in 1..s : ~(buf[j].claim > 0)
  <2> DEFINE at == {k \in 1..Len(buf) : buf[k].claim > 0}
  <2>1. CASE at = {}
    BY <1>3, <2>1
  <2>2. CASE at # {}
    <3>1. PICK k \in at : \A j \in at : k <= j
      <4>1. at \subseteq Nat
        BY <1>2
      <4> HIDE DEF at
      <4> QED
        BY <2>2, <4>1, LeastExists
    <3>2. k \in 1..Len(buf) /\ buf[k].claim > 0
      BY <3>1
    <3>3. \A j \in 1..k - 1 : ~(buf[j].claim > 0)
      <4> TAKE j \in 1..k - 1
      <4>1. j \in 1..Len(buf) /\ ~(k <= j)
        BY <1>2, <3>2
      <4> QED
        BY <3>1, <4>1
    <3>4. Preamble(buf) = k
      BY <1>2, <3>2, <3>3, PreambleIs
    <3> QED
      BY <3>2, <3>4
  <2> QED
    BY <2>1, <2>2
<1>5. NoPreamble(wire, p, q + s - 1)
  BY <1>1, <1>2, <1>3, <1>4, NoneBefore
<1>6. /\ q \in 1..Len(wire) + 1 /\ p \in 1..Len(wire) + 1 /\ m < p /\ p <= q
      /\ Len(buf) = Len(wire) - q + 1 /\ Rounded(wire, p, m, framed)
  BY <1>1 DEF Stands
<1>7. PICK t : t = q + s
  OBVIOUS
<1>8. t \in Nat /\ t = Len(wire) + 1 /\ t - 1 = q + s - 1
  BY <1>2, <1>3, <1>6, <1>7
<1>9. Len(buf') = 0
  OBVIOUS
<1>10. Stands(t, p, m)'
  <2>1. t \in 1..Len(wire) + 1 /\ p <= t /\ Len(buf') = Len(wire) - t + 1
    BY <1>2, <1>6, <1>8, <1>9
  <2>2. NoPreamble(wire, p, t - 1)
    BY <1>5, <1>8
  <2> QED
    BY <1>6, <1>9, <2>1, <2>2 DEF Stands
<1> QED
  BY <1>8, <1>10

(* The last round, with a frame that is not all there.                      *)
LEMMA EndsWithCarry ==
    ASSUME WireType, InStream, NEW k \in 1..Len(buf), k = Preamble(buf),
           buf' = SubSeq(buf, k, Len(buf)), UNCHANGED <<wire, framed, overflowed>>
    PROVE  InStream'
<1> SUFFICES ASSUME ~overflowed' PROVE \E q, p, m \in Nat : Stands(q, p, m)'
  BY DEF InStream
<1>1. PICK q \in Nat, p \in Nat, m \in Nat : Stands(q, p, m)
  BY DEF InStream
<1>2. /\ wire \in Seq(CellType) /\ buf \in Seq(CellType) /\ Len(wire) \in Nat /\ Len(buf) \in Nat
  BY LenProperties DEF WireType
<1>3. PICK s : s = k - 1
  OBVIOUS
<1>4. s \in Nat /\ s <= Len(buf) /\ s + 1 = k /\ k # 0
  BY <1>2, <1>3
<1>5. \A j \in 1..s : ~(buf[j].claim > 0)
  BY <1>2, <1>3, <1>4, BeforePreamble
<1>6. NoPreamble(wire, p, q + s - 1)
  BY <1>1, <1>4, <1>5, NoneBefore
<1>7. buf' = SubSeq(buf, s + 1, Len(buf)) /\ wire' = wire
  BY <1>4
<1>8. /\ q + s \in 1..Len(wire') + 1
      /\ Len(buf') = Len(wire') - (q + s) + 1
      /\ \A i \in 1..Len(buf') : buf'[i] = wire'[(q + s) + i - 1]
  BY <1>1, <1>4, <1>7, Shifted
<1>9. /\ p \in 1..Len(wire) + 1 /\ m < p /\ p <= q /\ Rounded(wire, p, m, framed)
  BY <1>1 DEF Stands
<1>10. PICK t : t = q + s
  OBVIOUS
<1>11. t \in Nat /\ p <= t
  BY <1>4, <1>9, <1>10
<1>12. Stands(t, p, m)'
  <2>1. t \in 1..Len(wire') + 1 /\ Len(buf') = Len(wire') - t + 1
    BY <1>8, <1>10
  <2>2. \A i \in 1..Len(buf') : buf'[i] = wire'[t + i - 1]
    BY <1>8, <1>10
  <2>3. NoPreamble(wire', p, t - 1)
    <3>1. t - 1 = q + s - 1
      BY <1>4, <1>10
    <3> QED
      BY <1>6, <1>7, <3>1
  <2>4. Rounded(wire', p, m, framed')
    BY <1>9
  <2>5. p \in 1..Len(wire') + 1
    BY <1>7, <1>9
  <2> QED
    BY <1>9, <1>11, <2>1, <2>2, <2>3, <2>4, <2>5 DEF Stands
<1> QED
  BY <1>11, <1>12

LEMMA CutEnds ==
    ASSUME Types, CutInv, ExtractEnds
    PROVE  CutInv'
<1> DEFINE round == ExtractOne(Start(buf))
<1>1. /\ \/ round.over /\ buf' = round.carry /\ overflowed' = overflowed
         \/ buf' = <<>> /\ overflowed' = (overflowed \/ buf # <<>>)
      /\ wire' = wire /\ framed' = framed
  BY DEF ExtractEnds
<1>2. /\ WireType /\ InStream /\ buf \in Seq(CellType) /\ wire \in Seq(CellType)
      /\ framed \in Seq(Messages) /\ Len(buf) \in Nat
  BY LenProperties DEF CutInv, WireType
<1>3. CASE buf' = <<>> /\ overflowed' = (overflowed \/ buf # <<>>)
  <2>1. InStream'
    <3>1. CASE buf = <<>>
      <4>1. overflowed' <=> overflowed
        BY <1>3, <3>1
      <4>2. buf' = buf
        BY <1>3, <3>1
      <4>3. CASE overflowed
        BY <4>1, <4>3 DEF InStream
      <4>4. CASE ~overflowed
        <5>1. PICK q \in Nat, p \in Nat, m \in Nat : Stands(q, p, m)
          BY <1>2, <4>4 DEF InStream
        <5>2. Stands(q, p, m)'
          BY <1>1, <4>2, <5>1 DEF Stands
        <5> QED
          BY <5>2 DEF InStream
      <4> QED
        BY <4>3, <4>4
    <3>2. CASE buf # <<>>
      <4>1. overflowed' = TRUE
        BY <1>3, <3>2
      <4> QED
        BY <4>1 DEF InStream
    <3> QED
      BY <3>1, <3>2
  <2>2. WireType'
    BY <1>1, <1>2, <1>3, EmptySeq DEF WireType
  <2> QED
    BY <1>3, <2>1, <2>2 DEF CutInv, Unfinished
<1>4. CASE round.over /\ buf' = round.carry /\ overflowed' = overflowed
  <2>1. PICK k : k = Preamble(buf)
    OBVIOUS
  <2>2. CASE k = 0
    <3>1. buf' = <<>>
      BY <1>4, <2>1, <2>2, NothingFound
    <3>2. InStream'
      BY <1>1, <1>2, <1>4, <2>1, <2>2, <3>1, EndsWithNothing
    <3>3. WireType'
      BY <1>1, <1>2, <3>1, EmptySeq DEF WireType
    <3> QED
      BY <3>1, <3>2, <3>3 DEF CutInv, Unfinished
  <2>3. CASE k # 0
    <3>1. k \in 1..Len(buf) /\ buf[k] \in CellType /\ buf[k].claim > 0
      BY <1>2, <2>1, <2>3, PreambleFound, ElementOfSeq
    <3>2. PICK n : n = Claimed(buf[k])
      OBVIOUS
    <3>3. n \in Nat
      BY <3>1, <3>2, ClaimedRange, BoundsAssumption
    <3>4. PICK remaining : remaining = Len(buf) - k + 1
      OBVIOUS
    <3>5. remaining \in Nat /\ k \in Nat \ {0}
      BY <1>2, <3>1, <3>4
    <3>6. remaining < 2 \/ remaining < n
      <4> SUFFICES ASSUME ~(remaining < 2 \/ remaining < n) PROVE FALSE
        OBVIOUS
      <4>1. PICK frame : frame = SubSeq(buf, k, k + n - 1)
        OBVIOUS
      <4>2. round.over = FALSE
        BY <2>1, <3>2, <3>3, <3>4, <3>5, <4>1, FrameFound
      <4> HIDE DEF round
      <4> QED
        BY <1>4, <4>2
    <3>7. round.carry = SubSeq(buf, k, Len(buf))
      BY <2>1, <3>2, <3>3, <3>4, <3>5, <3>6, RestCarried
    <3> HIDE DEF round
    <3>8. buf' = SubSeq(buf, k, Len(buf))
      BY <1>4, <3>7
    <3>9. InStream'
      BY <1>1, <1>2, <1>4, <2>1, <3>1, <3>8, EndsWithCarry
    <3>10. k \in 1..Len(buf) + 1
      BY <1>2, <3>1
    <3>11. /\ buf' \in Seq(CellType) /\ Len(buf') = Len(buf) - k + 1
           /\ \A i \in 1..Len(buf) - k + 1 : buf'[i] = buf[k + i - 1]
      BY <1>2, <3>8, <3>10, RestOf
    <3>12. WireType'
      BY <1>1, <1>2, <3>11 DEF WireType
    <3>13. 1 \in 1..Len(buf) - k + 1 /\ k + 1 - 1 = k
      BY <1>2, <3>1
    <3>14. buf'[1] = buf[k]
      <4>1. buf'[1] = buf[k + 1 - 1]
        BY <3>11, <3>13
      <4> QED
        BY <3>13, <4>1
    <3>15. Unfinished'
      <4>1. buf'[1].claim > 0
        BY <3>1, <3>14
      <4>2. Claimed(buf'[1]) = n
        BY <3>2, <3>14
      <4>3. Len(buf') = remaining
        BY <3>4, <3>11
      <4> QED
        BY <3>6, <4>1, <4>2, <4>3 DEF Unfinished
    <3> QED
      BY <3>9, <3>12, <3>15 DEF CutInv
  <2> QED
    BY <2>2, <2>3
<1> HIDE DEF round
<1> QED
  BY <1>1, <1>3, <1>4

(* What the buffer still holds is no frame: the stream ends the pass there. *)
LEMMA NothingAhead ==
    ASSUME WireType, Unfinished, NEW q \in Nat, NEW p \in Nat, NEW m \in Nat, Stands(q, p, m)
    PROVE  LET last == ExtractOne(Found(SubSeq(wire, p, Len(wire)), framed))
           IN last.over = TRUE /\ last.got = framed
<1> DEFINE rest == SubSeq(wire, p, Len(wire))
<1>1. /\ wire \in Seq(CellType) /\ buf \in Seq(CellType) /\ Len(wire) \in Nat /\ Len(buf) \in Nat
  BY LenProperties DEF WireType
<1>2. /\ q \in 1..Len(wire) + 1 /\ p \in 1..Len(wire) + 1 /\ p <= q
      /\ Len(buf) = Len(wire) - q + 1
      /\ \A i \in 1..Len(buf) : buf[i] = wire[q + i - 1]
      /\ NoPreamble(wire, p, q - 1)
  BY DEF Stands
<1>3. /\ rest \in Seq(CellType) /\ Len(rest) = Len(wire) - p + 1
      /\ \A i \in 1..Len(wire) - p + 1 : rest[i] = wire[p + i - 1]
  BY <1>1, <1>2, RestOf
<1>4. CASE buf = <<>>
  <2>1. q - 1 = Len(wire)
    <3>1. Len(buf) = 0
      BY <1>4
    <3> QED
      BY <1>1, <1>2, <3>1
  <2>2. \A j \in 1..Len(rest) : ~(rest[j].claim > 0)
    <3> HIDE DEF rest
    <3> TAKE j \in 1..Len(rest)
    <3>1. PICK i : i = p + j - 1
      OBVIOUS
    <3>2. i \in p..q - 1 /\ j \in 1..Len(wire) - p + 1
      BY <1>1, <1>2, <1>3, <2>1, <3>1
    <3>3. rest[j] = wire[i]
      BY <1>3, <3>1, <3>2
    <3> QED
      BY <1>2, <3>2, <3>3 DEF NoPreamble
  <2>3. Preamble(rest) = 0
    BY <1>3, <2>2, NoPreambleIs
  <2> QED
    BY <2>3, FindsNothing
<1>5. CASE buf # <<>>
  <2>1. buf[1].claim > 0 /\ (Len(buf) < 2 \/ Len(buf) < Claimed(buf[1]))
    BY <1>5 DEF Unfinished
  <2>2. Len(buf) >= 1
    BY <1>1, <1>5, EmptySeq
  <2>3. 1 \in 1..Len(buf) /\ q + 1 - 1 = q /\ q \in p..Len(wire)
    BY <1>1, <1>2, <2>2
  <2>4. buf[1] = wire[q] /\ buf[1] \in CellType
    <3>1. buf[1] = wire[q + 1 - 1]
      BY <1>2, <2>3
    <3> QED
      BY <1>1, <2>3, <3>1, ElementOfSeq
  <2>5. Preamble(rest) = q - p + 1 /\ rest[q - p + 1] = wire[q]
    BY <1>1, <1>2, <2>1, <2>3, <2>4, NextPreamble
  <2> HIDE DEF rest
  <2>6. PICK k : k = Preamble(rest)
    OBVIOUS
  <2>7. PICK n : n = Claimed(rest[k])
    OBVIOUS
  <2>8. PICK remaining : remaining = Len(rest) - k + 1
    OBVIOUS
  <2>9. k \in Nat \ {0} /\ remaining = Len(buf) /\ remaining \in Nat
    <3>1. k = q - p + 1
      BY <2>5, <2>6
    <3> QED
      BY <1>1, <1>2, <1>3, <2>8, <3>1
  <2>10. n = Claimed(buf[1])
    BY <2>4, <2>5, <2>6, <2>7
  <2>11. n \in Nat /\ (remaining < 2 \/ remaining < n)
    BY <2>1, <2>4, <2>9, <2>10, ClaimedRange, BoundsAssumption
  <2>12. ExtractOne(Found(rest, framed)).over = TRUE /\ ExtractOne(Found(rest, framed)).got = framed
    BY <2>6, <2>7, <2>8, <2>9, <2>11, FindsUnfinished
  <2> QED
    BY <2>12 DEF rest
<1> QED
  BY <1>4, <1>5

LEMMA CutsAgree ==
    ASSUME CutInv
    PROVE  CutsDoNotMatter
<1> SUFFICES ASSUME uartPc = "store", ~overflowed
             PROVE  framed = ExtractFrames(wire, Len(wire)).got
  BY DEF CutsDoNotMatter
<1>1. WireType /\ Unfinished /\ wire \in Seq(CellType) /\ Len(wire) \in Nat
  BY LenProperties DEF CutInv, WireType
<1>2. PICK q \in Nat, p \in Nat, m \in Nat : Stands(q, p, m)
  BY DEF CutInv, InStream
<1>3. p \in 1..Len(wire) + 1 /\ m < p /\ Rounded(wire, p, m, framed)
  BY <1>2 DEF Stands
<1>4. PICK limit : limit = Len(wire)
  OBVIOUS
<1>5. limit \in Nat /\ m <= limit
  BY <1>1, <1>3, <1>4
<1> DEFINE R == Rounds(wire, limit)
           rest == SubSeq(wire, p, Len(wire))
<1>6. R[m] = Found(rest, framed)
  <2>1. <<>> \in Seq(CellType) /\ wire \o <<>> = wire
    BY <1>1, EmptySeq, ConcatEmptySeq
  <2>2. PICK x \in Seq(CellType) : wire \o x = wire
    BY <2>1
  <2>3. Rounds(wire \o x, limit)[m] = Found(SubSeq(wire \o x, p, Len(wire \o x)), framed)
    BY <1>3, <1>5 DEF Rounded
  <2> QED
    BY <2>2, <2>3
<1>7. ExtractFrames(wire, Len(wire)) = R[limit]
  BY <1>4, ExtractFramesIsRounds
<1>8. CASE m = limit
  BY <1>6, <1>7, <1>8 DEF Found
<1>9. CASE m # limit
  <2>1. m + 1 \in 0..limit /\ m + 1 # 0 /\ (m + 1) - 1 = m
    BY <1>5, <1>9
  <2>2. R[m + 1] = IF m + 1 = 0 THEN Start(wire) ELSE ExtractOne(R[(m + 1) - 1])
    BY <1>5, <2>1, RoundsUnfold
  <2>3. R[m + 1] = ExtractOne(Found(rest, framed))
    <3> HIDE DEF R, rest
    <3> QED
      BY <1>6, <2>1, <2>2
  <2>4. R[m + 1].over = TRUE /\ R[m + 1].got = framed
    <3>1. /\ ExtractOne(Found(rest, framed)).over = TRUE
          /\ ExtractOne(Found(rest, framed)).got = framed
      BY <1>1, <1>2, NothingAhead
    <3> QED
      BY <2>3, <3>1
  <2>5. PICK e : e = m + 1
    OBVIOUS
  <2>6. R[limit] = R[e]
    <3>1. e \in 0..limit /\ Rounds(wire, limit)[e].over = TRUE
      BY <2>1, <2>4, <2>5
    <3> QED
      BY <1>5, <3>1, OverStays
  <2> QED
    BY <1>7, <2>4, <2>5, <2>6
<1> QED
  BY <1>8, <1>9

LEMMA CutStep ==
    ASSUME Types, CutInv, [Next]_vars
    PROVE  CutInv'
<1> DEFINE Kept == /\ UNCHANGED <<wire, buf, framed, overflowed>>
                   /\ uartPc' \in {"store", "write"} => uartPc \in {"store", "write"}
<1>0. Kept => CutInv'
  BY CutKept
<1> HIDE DEF Kept
<1>1. ASSUME NEW sh \in Shapes, Emit(sh)
      PROVE  CutInv'
  BY <1>0, <1>1 DEF Emit, storeVars, callVars, histVars, Kept
<1>2. ASSUME NEW ids \in Requests, Ask(ids)
      PROVE  CutInv'
  BY <1>0, <1>2 DEF Ask, uartVars, storeVars, histVars, Kept
<1>3. ASSUME NEW n \in SetSizes, Apply(n)
      PROVE  CutInv'
  BY <1>0, <1>3 DEF Apply, uartVars, storeVars, histVars, Kept
<1>4. CASE GetFrames
  BY <1>0, <1>4 DEF GetFrames, uartVars, histVars, Kept
<1>5. CASE LookUp
  BY <1>0, <1>5 DEF LookUp, uartVars, histVars, Kept
<1>6. CASE Collected
  BY <1>0, <1>6 DEF Collected, uartVars, histVars, Kept
<1>7. CASE AskTimesOut
  BY <1>0, <1>7 DEF AskTimesOut, uartVars, Kept
<1>8. CASE UpdateFrames
  BY <1>0, <1>8 DEF UpdateFrames, uartVars, histVars, Kept
<1>9. CASE ReleaseApplied
  BY <1>0, <1>9 DEF ReleaseApplied, uartVars, histVars, Kept
<1>10. CASE AndNotify
  BY <1>0, <1>10 DEF AndNotify, uartVars, histVars, Kept
<1>11. CASE ApplyTimesOut
  BY <1>0, <1>11 DEF ApplyTimesOut, uartVars, Kept
<1>12. CASE LoopTop
  BY <1>0, <1>12 DEF LoopTop, uartVars, histVars, Kept
<1>13. ASSUME NEW n \in 1..BufSize, ReadUart(n)
      PROVE  CutInv'
  BY <1>13, CutRead
<1>14. CASE ExtractFrame
  BY <1>14, CutFrame
<1>15. CASE ExtractEnds
  BY <1>15, CutEnds
<1>16. CASE UpdateFrame
  BY <1>0, <1>16 DEF UpdateFrame, uartVars, histVars, Kept
<1>17. CASE WriteFrame
  BY <1>0, <1>17 DEF WriteFrame, histVars, Kept
<1>18. CASE UpdateTimesOut
  BY <1>0, <1>18 DEF UpdateTimesOut, storeVars, Kept
<1>19. CASE PassEnds
  BY <1>0, <1>19 DEF PassEnds, uartVars, histVars, Kept
<1>20. CASE Notified
  BY <1>0, <1>20 DEF Notified, uartVars, histVars, Kept
<1>21. CASE WaitStopped
  BY <1>0, <1>21 DEF WaitStopped, uartVars, histVars, Kept
<1>22. CASE WaitForFrames
  BY <1>0, <1>22 DEF WaitForFrames, uartVars, histVars, Kept
<1>23. CASE ReleaseFetched
  BY <1>0, <1>23 DEF ReleaseFetched, uartVars, histVars, Kept
<1>24. CASE FetchTimesOut
  BY <1>0, <1>24 DEF FetchTimesOut, uartVars, Kept
<1>25. CASE Transmit
  BY <1>0, <1>25 DEF Transmit, uartVars, histVars, Kept
<1>26. CASE Transmitted
  BY <1>0, <1>26 DEF Transmitted, uartVars, histVars, Kept
<1>27. CASE RequestStop
  BY <1>0, <1>27 DEF RequestStop, uartVars, histVars, Kept
<1>28. CASE UNCHANGED vars
  BY <1>0, <1>28 DEF vars, Kept
<1> QED
  BY <1>1, <1>2, <1>3, <1>4, <1>5, <1>6, <1>7, <1>8, <1>9, <1>10, <1>11, <1>12, <1>13,
     <1>14, <1>15, <1>16, <1>17, <1>18, <1>19, <1>20, <1>21, <1>22, <1>23, <1>24, <1>25,
     <1>26, <1>27, <1>28
  DEF Next, Begin, CallStep, UartStep, UartBase, UartRover

(* Rtcm3Parser::extractFrames: what the base finds in the receiver's stream *)
(* is what framing the whole stream at once would find, damaged frames and  *)
(* claimed lengths that never come included, however the stream is cut into *)
(* reads, as long as no read holds more frames than the table.              *)
THEOREM CutsAreHarmless == Spec => []CutsDoNotMatter
<1>1. Inv => Types
  BY DEF Inv, Types
<1>2. Init => CutInv
  BY CutStart
<1>3. Types /\ CutInv /\ [Next]_vars => CutInv'
  BY CutStep
<1>4. CutInv => CutsDoNotMatter
  BY CutsAgree
<1> QED
  BY Always, <1>1, <1>2, <1>3, <1>4, PTL DEF Spec
=============================================================================
