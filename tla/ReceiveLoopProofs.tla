------------------------ MODULE ReceiveLoopProofs --------------------------
(***************************************************************************)
(* Proofs about the receive paths of both HATs, for every set of frames,   *)
(* every buffer and batch size and every TX-READY threshold: the buffer is *)
(* never overrun, the ublox thread never goes to sleep on a backlog, the   *)
(* frames handed out in passes are those of the stream, and an epoch wakes *)
(* its subscribers once.                                                   *)
(***************************************************************************)
EXTENDS UartReceiveLoop, SequenceTheorems, WellFoundedInduction, TLAPS

(* The inductive strengthening: from the moment a pass has seen the module  *)
(* idle until it wakes again, a high line implies a pending wakeup.         *)
WakeupPending == ready \/ HasRise(edges) \/ missed

Resting ==
    \/ pc \in {"top", "wait"} /\ ~more
    \/ pc \in {"drain", "parse"} /\ drained

RestingIsSafe == Resting => (High(out) => WakeupPending)

IInv == TypeOK /\ RestingIsSafe

(* A frame put together by the receiver is a sequence of cells. *)
LEMMA FrameCellsType ==
    ASSUME NEW f \in Nat \ {0}, NEW sh \in Shapes
    PROVE  FrameCells(f, sh) \in Seq(Cell)
<1>1. sh.size \in Nat
  BY ShapesAssumption
<1>2. FrameCells(f, sh) \in [1..sh.size -> Cell]
  BY <1>1 DEF FrameCells, Cell
<1> QED
  BY <1>1, <1>2, SeqDef

(* What one SPI transaction hands over is a sequence of Batch cells. *)
LEMMA BatchType ==
    ASSUME NEW cells \in Seq(Cell)
    PROVE  BatchOf(cells) \in Seq(AnyCell) /\ Len(BatchOf(cells)) = Batch
<1>1. \A k \in 1..Batch : BatchOf(cells)[k] \in AnyCell
  BY SizesAssumption, ElementOfSeq DEF BatchOf, AnyCell
<1>2. BatchOf(cells) \in [1..Batch -> AnyCell]
  BY <1>1 DEF BatchOf
<1>3. BatchOf(cells) \in Seq(AnyCell)
  BY <1>2, SizesAssumption, SeqDef
<1>4. DOMAIN BatchOf(cells) = 1..Batch
  BY DEF BatchOf
<1> QED
  BY <1>3, <1>4, LenProperties, SizesAssumption

(* Only an empty module clocks out a whole batch of idle cells: the end of  *)
(* burst marker cannot be mistaken.                                         *)
LEMMA IdleBatchMeansEmpty ==
    ASSUME NEW cells \in Seq(Cell), \A k \in 1..Batch : BatchOf(cells)[k] = Idle
    PROVE  cells = <<>>
<1> SUFFICES ASSUME cells # <<>> PROVE FALSE
  OBVIOUS
<1>1. 1 \in 1..Len(cells) /\ 1 \in 1..Batch
  BY EmptySeq, SizesAssumption
<1>2. BatchOf(cells)[1] = cells[1]
  BY <1>1 DEF BatchOf
<1>3. cells[1] \in Cell
  BY <1>1, ElementOfSeq
<1>4. cells[1].part # 0
  BY <1>3 DEF Cell
<1> QED
  BY <1>1, <1>2, <1>4 DEF Idle

(* However the module's buffer changes, the line keeps its queue well-typed *)
(* and never loses the fact that a wakeup is pending for a high line.       *)
LEMMA LineType ==
    ASSUME TypeOK, LineFollows
    PROVE  /\ edges' \in Seq({"rise", "fall"}) /\ Len(edges') <= EdgeCap
           /\ missed' \in BOOLEAN
<1> USE DEF TypeOK, LineFollows, lineVars, Room
<1>1. edges \in Seq({"rise", "fall"}) /\ Len(edges) \in Nat /\ Len(edges) <= EdgeCap
  BY LenProperties
<1>2. \A e \in {"rise", "fall"} :
        /\ Append(edges, e) \in Seq({"rise", "fall"})
        /\ Len(Append(edges, e)) = Len(edges) + 1
  BY <1>1, AppendProperties
<1>6. missed' \in BOOLEAN
  OBVIOUS
<1>3. CASE edges' = edges
  BY <1>1, <1>6, <1>3
<1>4. CASE Room /\ \E e \in {"rise", "fall"} : edges' = Append(edges, e)
  <2>1. PICK e \in {"rise", "fall"} : edges' = Append(edges, e)
    BY <1>4
  <2>2. edges' \in Seq({"rise", "fall"}) /\ Len(edges') = Len(edges) + 1
    BY <1>2, <2>1
  <2> QED
    BY <1>1, <1>6, <1>4, <2>2, SizesAssumption
<1>5. edges' = edges \/ (Room /\ \E e \in {"rise", "fall"} : edges' = Append(edges, e))
  OBVIOUS
<1> QED
  BY <1>3, <1>4, <1>5

LEMMA LineKeepsWakeup ==
    ASSUME TypeOK, LineFollows, ready' = ready,
           High(out) => WakeupPending
    PROVE  High(out') => WakeupPending'
<1> SUFFICES ASSUME High(out') PROVE WakeupPending'
  OBVIOUS
<1>1. edges \in Seq({"rise", "fall"}) /\ Len(edges) \in Nat
  BY LenProperties DEF TypeOK
<1>2. CASE High(out)
  <2>1. edges' = edges /\ missed' = missed
    BY <1>2 DEF LineFollows, Rises, Falls, lineVars
  <2> QED
    BY <1>2, <2>1 DEF WakeupPending, HasRise
<1>3. CASE ~High(out) /\ Len(edges) < EdgeCap
  <2>1. edges' = Append(edges, "rise")
    BY <1>3 DEF LineFollows, Rises, Falls, Room
  <2>2. edges'[Len(edges) + 1] = "rise" /\ Len(edges') = Len(edges) + 1
    BY <1>1, <2>1, AppendProperties
  <2> QED
    BY <1>1, <2>2 DEF WakeupPending, HasRise
<1>4. CASE ~High(out) /\ ~(Len(edges) < EdgeCap)
  BY <1>4 DEF LineFollows, Rises, Falls, Room, WakeupPending
<1> QED
  BY <1>2, <1>3, <1>4

(* The loop starts in the inductive invariant. *)
LEMMA InitIInv == Init => IInv
<1> SUFFICES ASSUME Init PROVE IInv
  OBVIOUS
<1>1. out \in Seq(Cell) /\ sent \in Nat
  <2>1. CASE out = <<>> /\ sent = 0
    BY <2>1, EmptySeq
  <2>2. CASE sent = 1 /\ \E sh \in Shapes : out = FrameCells(1, sh)
    <3>1. PICK sh \in Shapes : out = FrameCells(1, sh)
      BY <2>2
    <3> QED
      BY <2>2, <3>1, FrameCellsType
  <2> QED
    BY <2>1, <2>2 DEF Init
<1>2. missed \in BOOLEAN /\ (High(out) => missed)
  <2>1. High(out) \in BOOLEAN
    BY DEF High
  <2>2. missed = High(out)
    BY DEF Init
  <2> QED
    BY <2>1, <2>2
<1>3. /\ edges = <<>> /\ buf = <<>> /\ delivered = <<>> /\ wire = <<>>
      /\ <<>> \in Seq({"rise", "fall"}) /\ <<>> \in Seq(AnyCell) /\ <<>> \in Seq(Nat)
      /\ Len(<<>>) = 0
  BY EmptySeq DEF Init
<1>4. TypeOK
  <2>1. /\ edges \in Seq({"rise", "fall"}) /\ Len(edges) <= EdgeCap
        /\ buf \in Seq(AnyCell) /\ Len(buf) <= BufSize
        /\ delivered \in Seq(Nat) /\ wire \in Seq(AnyCell)
    BY <1>3, SizesAssumption
  <2>2. /\ ready \in BOOLEAN /\ drained \in BOOLEAN /\ more \in BOOLEAN
        /\ epochSeen \in BOOLEAN /\ stop \in BOOLEAN /\ lossy \in BOOLEAN
    BY DEF Init
  <2>3. /\ txPc \in {"top", "wait", "check", "done"}
        /\ pc \in {"top", "wait", "drain", "parse", "done"}
        /\ pos \in Nat \ {0} /\ navGen \in Nat
    BY DEF Init
  <2>4. slots \in 0..FrameLimit
    BY SizesAssumption DEF Init
  <2> QED
    BY <1>1, <1>2, <2>1, <2>2, <2>3, <2>4 DEF TypeOK
<1>5. RestingIsSafe
  BY <1>2 DEF RestingIsSafe, WakeupPending
<1> QED
  BY <1>4, <1>5 DEF IInv

(* What the parser keeps and delivers is well-typed. *)
LEMMA ClaimType ==
    ASSUME TypeOK, NEW head \in pos..Len(buf), IsHeader(buf, head)
    PROVE  /\ head \in 1..Len(buf)
           /\ buf[head] \in Cell
           /\ LastCell(head) \in Nat /\ LastCell(head) >= head
<1>1. Len(buf) \in Nat /\ pos \in Nat \ {0}
  BY LenProperties DEF TypeOK
<1>2. head \in 1..Len(buf)
  BY <1>1
<1>3. buf[head] \in AnyCell
  BY <1>2, ElementOfSeq DEF TypeOK
<1>4. buf[head] \in Cell
  BY <1>3 DEF IsHeader, AnyCell, Idle
<1>5. buf[head].shape.claim \in Nat \ {0}
  BY <1>4, ShapesAssumption DEF Cell
<1> QED
  BY <1>2, <1>4, <1>5 DEF LastCell

(* The rest of the buffer that a pass carries over fits the buffer. *)
LEMMA CarryType ==
    ASSUME TypeOK, NEW head \in 1..Len(buf)
    PROVE  /\ SubSeq(buf, head, Len(buf)) \in Seq(AnyCell)
           /\ Len(SubSeq(buf, head, Len(buf))) <= BufSize
<1>1. buf \in Seq(AnyCell) /\ Len(buf) \in Nat /\ Len(buf) <= BufSize
  BY LenProperties DEF TypeOK
<1>2. \A i \in head..Len(buf) : buf[i] \in AnyCell
  BY <1>1, ElementOfSeq
<1>3. Len(SubSeq(buf, head, Len(buf))) = Len(buf) - head + 1
  BY <1>1, <1>2, SubSeqProperties
<1> QED
  BY <1>1, <1>2, <1>3, SubSeqProperties, SizesAssumption

(* The end of a pass, whatever frame it carries over. *)
LEMMA EndPassIInv ==
    ASSUME IInv, pc = "parse",
           NEW unfinished \in Seq(AnyCell), Len(unfinished) <= BufSize,
           EndPass(unfinished)
    PROVE  IInv'
<1>1. TypeOK'
  <2>1. navGen' \in Nat /\ more' \in BOOLEAN
    BY DEF IInv, TypeOK, EndPass, CarryOver, MoreDataPending, NewEpoch
  <2>7. lossy' \in BOOLEAN /\ slots' \in 0..FrameLimit
    <3>1. Discards(unfinished) \in BOOLEAN
      BY DEF Discards
    <3>2. lossy' = (lossy \/ Discards(unfinished)) /\ slots' = 0
      BY DEF EndPass
    <3> QED
      BY <3>1, <3>2, SizesAssumption DEF IInv, TypeOK
  <2>2. /\ buf' = unfinished /\ epochSeen' = FALSE /\ pc' = "top" /\ pos' = 1
        /\ UNCHANGED <<out, sent, edges, missed, ready, txPc, drained, delivered, stop, wire>>
    BY DEF EndPass, CarryOver, MoreDataPending, NewEpoch, moduleVars, lineVars
  <2>3. TypeOK
    BY DEF IInv
  <2>4. buf' \in Seq(AnyCell) /\ Len(buf') <= BufSize
    BY <2>2
  <2>5. epochSeen' \in BOOLEAN
    BY <2>2
  <2>6. pos' \in Nat \ {0}
    BY <2>2
  <2> QED
    BY <2>1, <2>2, <2>3, <2>4, <2>5, <2>6, <2>7 DEF TypeOK
<1>2. RestingIsSafe'
  <2> SUFFICES ASSUME ~more' PROVE High(out') => WakeupPending'
    BY DEF RestingIsSafe, Resting, EndPass, MoreDataPending
  <2>1. Resting
    BY DEF IInv, TypeOK, EndPass, CarryOver, MoreDataPending, NewEpoch, Resting
  <2> QED
    BY <2>1 DEF IInv, RestingIsSafe, WakeupPending, EndPass, CarryOver, MoreDataPending, NewEpoch, moduleVars, lineVars, High, HasRise
<1> QED
  BY <1>1, <1>2 DEF IInv

(* A step that leaves the module, its line and the wakeup flag alone keeps  *)
(* a resting loop safe.                                                     *)
LEMMA QuietStep ==
    ASSUME RestingIsSafe, UNCHANGED <<moduleVars, lineVars, ready>>,
           Resting' => Resting
    PROVE  RestingIsSafe'
BY DEF RestingIsSafe, WakeupPending, moduleVars, lineVars, High, HasRise

(* Every step keeps the inductive invariant. *)
LEMMA NextIInv == IInv /\ [Next]_vars => IInv'
<1> SUFFICES ASSUME IInv, [Next]_vars PROVE IInv'
  OBVIOUS
<1> USE DEF IInv
<1>1. ASSUME NEW sh \in Shapes, Produce(sh) PROVE IInv'
  <2>1. sent + 1 \in Nat \ {0}
    BY DEF TypeOK
  <2>2. out' \in Seq(Cell)
    BY <1>1, <2>1, FrameCellsType, ConcatProperties DEF Produce, TypeOK
  <2>3. TypeOK'
    BY <1>1, <2>1, <2>2, LineType DEF Produce, TypeOK, passVars, navVars
  <2>4. RestingIsSafe'
    BY <1>1, LineKeepsWakeup DEF Produce, RestingIsSafe, Resting, passVars, WakeupPending
  <2> QED
    BY <2>3, <2>4
<1>2. CASE TxTop
  <2>1. TypeOK'
    BY <1>2 DEF TxTop, TypeOK, moduleVars, lineVars, passVars, navVars
  <2>2. RestingIsSafe'
    BY <1>2, QuietStep DEF TxTop, Resting, passVars
  <2> QED
    BY <2>1, <2>2
<1>3. CASE TxEdge
  <2>1. /\ edges' \in Seq({"rise", "fall"}) /\ Len(edges') = Len(edges) - 1
        /\ \A i \in 1..Len(edges') : edges'[i] = edges[i + 1]
        /\ Len(edges) \in Nat
    BY <1>3, HeadTailProperties, LenProperties DEF TxEdge, TypeOK
  <2>2. Head(edges) = edges[1]
    BY DEF TypeOK
  <2>3. ready' \in BOOLEAN
    BY <1>3 DEF TxEdge
  <2>4. TypeOK'
    BY <1>3, <2>1, <2>3, SizesAssumption
    DEF TxEdge, TypeOK, moduleVars, passVars, navVars
  <2>5. WakeupPending => WakeupPending'
    <3>1. CASE ready
      BY <1>3, <3>1 DEF TxEdge, WakeupPending
    <3>2. CASE missed
      BY <1>3, <3>2 DEF TxEdge, WakeupPending
    <3>3. ASSUME NEW i \in 1..Len(edges), edges[i] = "rise" PROVE WakeupPending'
      <4>1. CASE i = 1
        BY <1>3, <2>2, <3>3, <4>1 DEF TxEdge, WakeupPending
      <4>2. CASE i # 1
        <5>1. i - 1 \in 1..Len(edges') /\ edges'[i - 1] = edges[i]
          BY <2>1, <4>2
        <5> QED
          BY <3>3, <5>1 DEF WakeupPending, HasRise
      <4> QED
        BY <4>1, <4>2
    <3> QED
      BY <3>1, <3>2, <3>3 DEF WakeupPending, HasRise
  <2>6. RestingIsSafe'
    BY <1>3, <2>5 DEF TxEdge, RestingIsSafe, Resting, passVars, moduleVars, High
  <2> QED
    BY <2>4, <2>6
<1>4. CASE TxTimeout
  <2>1. TypeOK'
    BY <1>4 DEF TxTimeout, TypeOK, moduleVars, lineVars, passVars, navVars
  <2>2. RestingIsSafe'
    BY <1>4, QuietStep DEF TxTimeout, Resting, passVars
  <2> QED
    BY <2>1, <2>2
<1>5. CASE TxCheck
  <2>1. ready' \in BOOLEAN /\ (ready => ready')
    BY <1>5 DEF TxCheck
  <2>2. TypeOK'
    BY <1>5, <2>1 DEF TxCheck, TypeOK, moduleVars, lineVars, passVars, navVars
  <2>3. RestingIsSafe'
    BY <1>5, <2>1 DEF TxCheck, RestingIsSafe, Resting, WakeupPending, HasRise, High,
                      moduleVars, lineVars, passVars
  <2> QED
    BY <2>2, <2>3
<1>6. CASE LoopTop
  <2>1. TypeOK'
    BY <1>6 DEF LoopTop, TypeOK, moduleVars, lineVars, passVars, navVars
  <2>2. RestingIsSafe'
    BY <1>6, QuietStep DEF LoopTop, Resting, passVars
  <2> QED
    BY <2>1, <2>2
<1>7. CASE SkipWait \/ Woken
  <2>1. TypeOK'
    BY <1>7 DEF SkipWait, Woken, TypeOK, moduleVars, lineVars, navVars
  <2>2. RestingIsSafe'
    BY <1>7 DEF SkipWait, Woken, RestingIsSafe, Resting
  <2> QED
    BY <2>1, <2>2
<1>8. CASE WaitStopped
  <2>1. TypeOK'
    BY <1>8 DEF WaitStopped, TypeOK, moduleVars, lineVars, passVars, navVars
  <2>2. RestingIsSafe'
    BY <1>8, QuietStep DEF WaitStopped, Resting, passVars
  <2> QED
    BY <2>1, <2>2
<1>9. CASE ReadBatch
  <2> DEFINE batch == BatchOf(out)
             idle  == \A k \in 1..Batch : batch[k] = Idle
  <2>1. batch \in Seq(AnyCell) /\ Len(batch) = Batch
    BY BatchType DEF TypeOK
  <2>2. Len(out) \in Nat /\ \A i \in (Batch + 1)..Len(out) : out[i] \in Cell
    BY LenProperties, ElementOfSeq, SizesAssumption DEF TypeOK
  <2>3. out' \in Seq(Cell)
    BY <1>9, <2>2, SubSeqProperties, SizesAssumption DEF ReadBatch, Fits
  <2>4. CASE idle
    <3>1. /\ pc = "drain" /\ drained' = TRUE /\ pc' = "parse"
          /\ UNCHANGED <<buf, wire>>
          /\ out' = SubSeq(out, Batch + 1, Len(out))
          /\ LineFollows
          /\ UNCHANGED <<sent, ready, txPc, pos, slots, more, epochSeen, delivered, navGen, stop,
                         lossy>>
      BY <1>9, <2>4 DEF ReadBatch, Fits
    <3>2. TypeOK'
      BY <2>3, <3>1, LineType DEF TypeOK
    <3>3. out = <<>>
      BY <2>4, IdleBatchMeansEmpty DEF TypeOK
    <3>4. out' = <<>> /\ Len(out') = 0
      BY <3>1, <3>3, SubSeqEmpty, EmptySeq, SizesAssumption
    <3>5. ~High(out')
      BY <3>4, SizesAssumption DEF High
    <3> QED
      BY <3>2, <3>5 DEF RestingIsSafe
  <2>5. CASE ~idle
    <3>1. /\ pc = "drain" /\ UNCHANGED <<drained, pc>>
          /\ Len(buf) + Batch <= BufSize
          /\ buf' = buf \o batch /\ wire' = wire \o batch
          /\ LineFollows
          /\ UNCHANGED <<sent, ready, txPc, pos, slots, more, epochSeen, delivered, navGen, stop,
                         lossy>>
      BY <1>9, <2>5 DEF ReadBatch, Fits
    <3>2. /\ buf' \in Seq(AnyCell) /\ Len(buf') <= BufSize
          /\ wire' \in Seq(AnyCell)
      BY <2>1, <3>1, ConcatProperties DEF TypeOK
    <3>3. TypeOK'
      BY <2>3, <3>1, <3>2, LineType DEF TypeOK
    <3>4. RestingIsSafe'
      BY <3>1, LineKeepsWakeup DEF RestingIsSafe, Resting
    <3> QED
      BY <3>3, <3>4
  <2> QED
    BY <2>4, <2>5
<1>10. CASE BufferLimit
  <2>1. TypeOK'
    BY <1>10 DEF BufferLimit, TypeOK, moduleVars, lineVars, passVars, navVars
  <2>2. RestingIsSafe'
    BY <1>10, QuietStep DEF BufferLimit, Resting, passVars
  <2> QED
    BY <2>1, <2>2
<1>11. CASE ExtractFrame
  <2>1. PICK head \in pos..Len(buf) :
          LET intact == Intact(SubSeq(buf, head, LastCell(head)))
          IN  /\ NextHeader(head)
              /\ delivered' = IF intact THEN Append(delivered, buf[head].frame)
                                        ELSE delivered
              /\ epochSeen' = (epochSeen \/ (intact /\ buf[head].shape.pvt))
              /\ pos' = LastCell(head) + 1
    BY <1>11 DEF ExtractFrame
  <2>2. buf[head] \in Cell /\ pos' \in Nat \ {0}
    BY <2>1, ClaimType, LenProperties DEF NextHeader, TypeOK
  <2>3. buf[head].frame \in Nat
    BY <2>2 DEF Cell
  <2>4. delivered' \in Seq(Nat)
    BY <2>1, <2>3, AppendProperties DEF TypeOK
  <2>5. epochSeen' \in BOOLEAN
    BY <2>1
  <2>8. slots' \in 0..FrameLimit
    BY <1>11, SizesAssumption DEF ExtractFrame, TypeOK
  <2>6. TypeOK'
    BY <1>11, <2>2, <2>4, <2>5, <2>8 DEF ExtractFrame, TypeOK, moduleVars, lineVars
  <2>7. RestingIsSafe'
    BY <1>11, QuietStep DEF ExtractFrame, Resting
  <2> QED
    BY <2>6, <2>7
<1>12. CASE NoMoreFrames \/ NoMoreSlots
  <2>1. <<>> \in Seq(AnyCell) /\ Len(<<>>) <= BufSize
    BY EmptySeq, SizesAssumption
  <2> QED
    BY <1>12, <2>1, EndPassIInv DEF NoMoreFrames, NoMoreSlots
<1>13. CASE UnfinishedFrame
  <2>1. PICK head \in pos..Len(buf) :
             NextHeader(head) /\ EndPass(SubSeq(buf, head, Len(buf)))
    BY <1>13 DEF UnfinishedFrame
  <2>2. head \in 1..Len(buf)
    BY <2>1, ClaimType DEF NextHeader
  <2> QED
    BY <1>13, <2>1, <2>2, CarryType, EndPassIInv DEF UnfinishedFrame
<1>14. CASE RequestStop
  <2>1. TypeOK'
    BY <1>14 DEF RequestStop, TypeOK, moduleVars, lineVars, passVars, navVars
  <2>2. RestingIsSafe'
    BY <1>14, QuietStep DEF RequestStop, Resting, passVars
  <2> QED
    BY <2>1, <2>2
<1>15. CASE UNCHANGED vars
  BY <1>15 DEF vars, TypeOK, RestingIsSafe, Resting, WakeupPending, HasRise, High
<1> QED
  BY <1>1, <1>2, <1>3, <1>4, <1>5, <1>6, <1>7, <1>8, <1>9, <1>10, <1>11, <1>12,
     <1>13, <1>14, <1>15
  DEF Next, UbloxStep, TxStep, Terminated

(* The receive loop's state is well-typed and its buffer is never overrun,  *)
(* whatever lengths the frames claim.                                       *)
THEOREM TypeCorrect == Spec => []TypeOK
<1>1. IInv => TypeOK
  BY DEF IInv
<1> QED
  BY InitIInv, NextIInv, <1>1, PTL DEF Spec

(* The ublox thread never goes to sleep on a backlog without a wakeup under *)
(* way: M9NRun drains until the idle padding, and the edge that follows     *)
(* reaches the notifier.                                                    *)
THEOREM NoSleepOnBacklog == Spec => []NeverSleepsOnBacklog
<1>1. IInv => NeverSleepsOnBacklog
  BY DEF IInv, RestingIsSafe, Resting, WakeupPending, NeverSleepsOnBacklog
<1> QED
  BY InitIInv, NextIInv, <1>1, PTL DEF Spec
-----------------------------------------------------------------------------
(* Framing a whole stream at once, from cell i on and for at most `left`   *)
(* frames: what Scan computes, and the equation it satisfies.              *)
Heads(cells, i) == {j \in i..Len(cells) : IsHeader(cells, j)}
FirstHead(cells, i) == CHOOSE j \in Heads(cells, i) : \A k \in Heads(cells, i) : j <= k
LastOf(cells, h) == h + cells[h].shape.claim - 1
Nothing == [frames |-> <<>>, rest |-> <<>>]
IntactFrame(cells, h) ==
    IF Intact(SubSeq(cells, h, LastOf(cells, h))) THEN <<cells[h]>> ELSE <<>>
FromBody(g, cells, i, left) ==
    IF left = 0 \/ Heads(cells, i) = {} THEN Nothing
    ELSE LET h == FirstHead(cells, i) next == LastOf(cells, h) + 1
         IN  IF LastOf(cells, h) > Len(cells)
             THEN [frames |-> <<>>, rest |-> SubSeq(cells, h, Len(cells))]
             ELSE [frames |-> IntactFrame(cells, h) \o g[left - 1][next].frames,
                   rest   |-> g[left - 1][next].rest]
From(cells, n) ==
    CHOOSE g : g = [left \in 0..n |-> [i \in 1..Len(cells) + 1 |-> FromBody(g, cells, i, left)]]

LEMMA ScanIsFrom ==
    ASSUME NEW cells, NEW n
    PROVE  Scan(cells, n) = From(cells, n)[n][1]
BY DEF Scan, From, FromBody, Heads, FirstHead, LastOf, Nothing, IntactFrame

(* A set of numbers that is not empty has a least one.                     *)
LEMMA LeastExists ==
    ASSUME NEW S, S \subseteq Nat, S # {}
    PROVE  \E k \in S : \A j \in S : k <= j
<1> DEFINE Less == {ss \in Nat \X Nat : ss[1] < ss[2]}
<1>1. IsWellFoundedOn(Less, Nat)
  BY NatLessThanWellFounded DEF OpToRel
<1>2. \A j, k \in Nat : <<j, k>> \in Less <=> j < k
  OBVIOUS
<1> HIDE DEF Less
<1>3. PICK k \in S : \A j \in S : <<j, k>> \notin Less
  BY <1>1, WFMin
<1>4. \A j \in S : ~(j < k)
  BY <1>2, <1>3
<1> QED
  BY <1>4

LEMMA HeadType ==
    ASSUME NEW cells \in Seq(AnyCell), NEW i \in Nat \ {0}, NEW h \in Heads(cells, i)
    PROVE  /\ h \in 1..Len(cells) /\ h >= i /\ h + 1 <= Len(cells) /\ cells[h] \in Cell
           /\ LastOf(cells, h) \in Nat /\ LastOf(cells, h) >= h + 1
<1>1. Len(cells) \in Nat
  BY LenProperties
<1>2. h \in i..Len(cells) /\ IsHeader(cells, h)
  BY DEF Heads
<1>3. h \in 1..Len(cells) /\ h >= i
  BY <1>1, <1>2
<1>4. cells[h] \in AnyCell /\ cells[h].part = 1 /\ h < Len(cells)
  BY <1>2, <1>3, ElementOfSeq DEF IsHeader
<1>5. cells[h] \in Cell
  BY <1>4 DEF AnyCell, Idle
<1>6. cells[h].shape.claim \in Nat \ {0, 1}
  BY <1>5, ShapesAssumption DEF Cell
<1> QED
  BY <1>1, <1>3, <1>4, <1>5, <1>6 DEF LastOf

LEMMA FirstHeadType ==
    ASSUME NEW cells \in Seq(AnyCell), NEW i \in Nat \ {0}, Heads(cells, i) # {}
    PROVE  /\ FirstHead(cells, i) \in Heads(cells, i)
           /\ \A k \in Heads(cells, i) : FirstHead(cells, i) <= k
<1>1. Heads(cells, i) \subseteq Nat
  BY HeadType
<1>2. \E j \in Heads(cells, i) : \A k \in Heads(cells, i) : j <= k
  BY <1>1, LeastExists
<1> QED
  BY <1>2 DEF FirstHead

LEMMA FirstHeadIs ==
    ASSUME NEW cells \in Seq(AnyCell), NEW i \in Nat \ {0}, NEW h \in Heads(cells, i),
           \A k \in Heads(cells, i) : h <= k
    PROVE  FirstHead(cells, i) = h
<1>1. FirstHead(cells, i) \in Heads(cells, i) /\ FirstHead(cells, i) <= h
  BY FirstHeadType
<1>2. h <= FirstHead(cells, i)
  BY <1>1
<1>3. h \in Nat /\ FirstHead(cells, i) \in Nat
  BY <1>1, HeadType
<1> QED
  BY <1>1, <1>2, <1>3

(* What is framed from a cell on with one frame more only depends on what  *)
(* is framed behind its first frame.                                       *)
LEMMA BodyAgrees ==
    ASSUME NEW cells \in Seq(AnyCell), NEW i \in 1..Len(cells) + 1, NEW left \in Nat,
           NEW g, NEW f,
           left > 0 => \A j \in 1..Len(cells) + 1 : f[left - 1][j] = g[left - 1][j]
    PROVE  FromBody(f, cells, i, left) = FromBody(g, cells, i, left)
<1>1. CASE left = 0 \/ Heads(cells, i) = {}
  BY <1>1 DEF FromBody
<1>2. CASE ~(left = 0 \/ Heads(cells, i) = {})
  <2> DEFINE h == FirstHead(cells, i)
  <2>1. h \in Heads(cells, i) /\ Len(cells) \in Nat
    BY <1>2, FirstHeadType, LenProperties
  <2>2. LastOf(cells, h) \in Nat /\ LastOf(cells, h) >= 1
    BY <2>1, HeadType
  <2>3. CASE LastOf(cells, h) > Len(cells)
    BY <1>2, <2>3 DEF FromBody
  <2>4. CASE ~(LastOf(cells, h) > Len(cells))
    <3>1. LastOf(cells, h) + 1 \in 1..Len(cells) + 1
      BY <2>1, <2>2, <2>4
    <3>2. f[left - 1][LastOf(cells, h) + 1] = g[left - 1][LastOf(cells, h) + 1]
      BY <1>2, <3>1
    <3> QED
      BY <1>2, <2>4, <3>2 DEF FromBody
  <2> QED
    BY <2>3, <2>4
<1> QED
  BY <1>1, <1>2

(* The recursion is well-founded in the number of frames.                  *)
LEMMA FromExists ==
    ASSUME NEW cells \in Seq(AnyCell)
    PROVE  \A n \in Nat :
               \E g : g = [left \in 0..n |-> [i \in 1..Len(cells) + 1 |-> FromBody(g, cells, i, left)]]
<1> DEFINE Fun(n, g) ==
              g = [left \in 0..n |-> [i \in 1..Len(cells) + 1 |-> FromBody(g, cells, i, left)]]
           Ok(n) == \E g : Fun(n, g)
           Bad == {n \in Nat : ~Ok(n)}
<1>1. SUFFICES ASSUME Bad # {} PROVE FALSE
  OBVIOUS
<1>2. PICK n \in Bad : \A k \in Bad : n <= k
  <2>1. Bad \subseteq Nat
    OBVIOUS
  <2> HIDE DEF Bad
  <2> QED
    BY <1>1, <2>1, LeastExists
<1>3. CASE n = 0
  <2> DEFINE h == [left \in 0..0 |-> [i \in 1..Len(cells) + 1 |-> Nothing]]
  <2>1. \A i \in 1..Len(cells) + 1, left \in 0..0 : FromBody(h, cells, i, left) = Nothing
    BY DEF FromBody, Nothing
  <2>2. h = [left \in 0..0 |-> [i \in 1..Len(cells) + 1 |-> FromBody(h, cells, i, left)]]
    <3> HIDE DEF h
    <3>1. h = [left \in 0..0 |-> [i \in 1..Len(cells) + 1 |-> Nothing]]
      BY DEF h
    <3> QED
      BY <2>1, <3>1
  <2> QED
    BY <1>2, <1>3, <2>2
<1>4. CASE n # 0
  <2>1. n - 1 \in Nat /\ n \in Nat /\ Ok(n - 1)
    <3> HIDE DEF Ok
    <3>1. n \in Nat /\ n - 1 \in Nat
      BY <1>4
    <3>2. ~(n <= n - 1)
      BY <3>1
    <3> QED
      BY <1>2, <3>1, <3>2
  <2>2. PICK g : Fun(n - 1, g)
    BY <2>1
  <2> DEFINE h == [left \in 0..n |-> [i \in 1..Len(cells) + 1 |-> FromBody(g, cells, i, left)]]
  <2>3. \A i \in 1..Len(cells) + 1, left \in 0..n : h[left][i] = FromBody(g, cells, i, left)
    OBVIOUS
  <2>4. \A i \in 1..Len(cells) + 1, left \in 0..n - 1 : g[left][i] = FromBody(g, cells, i, left)
    <3>1. g = [left \in 0..n - 1 |-> [i \in 1..Len(cells) + 1 |-> FromBody(g, cells, i, left)]]
      BY <2>2
    <3> HIDE DEF Fun
    <3>2. \A left \in 0..n - 1 : g[left] = [i \in 1..Len(cells) + 1 |-> FromBody(g, cells, i, left)]
      BY <3>1
    <3> QED
      BY <3>2
  <2>5. h = [left \in 0..n |-> [i \in 1..Len(cells) + 1 |-> FromBody(g, cells, i, left)]]
    OBVIOUS
  <2> HIDE DEF h
  <2>6. \A i \in 1..Len(cells) + 1, left \in 0..n :
            FromBody(h, cells, i, left) = FromBody(g, cells, i, left)
    <3> TAKE i \in 1..Len(cells) + 1, left \in 0..n
    <3>1. left > 0 => left - 1 \in 0..n /\ left - 1 \in 0..n - 1
      BY <2>1
    <3>2. left > 0 => \A j \in 1..Len(cells) + 1 : h[left - 1][j] = g[left - 1][j]
      BY <2>3, <2>4, <3>1
    <3>3. left \in Nat
      BY <2>1
    <3> QED
      BY <3>2, <3>3, BodyAgrees
  <2>7. Fun(n, h)
    BY <2>5, <2>6
  <2> QED
    BY <1>2, <2>7
<1> QED
  BY <1>3, <1>4

LEMMA FromUnfolds ==
    ASSUME NEW cells \in Seq(AnyCell), NEW n \in Nat,
           NEW i \in 1..Len(cells) + 1, NEW left \in 0..n
    PROVE  From(cells, n)[left][i] = FromBody(From(cells, n), cells, i, left)
<1>1. From(cells, n) =
          [l \in 0..n |-> [j \in 1..Len(cells) + 1 |-> FromBody(From(cells, n), cells, j, l)]]
  BY FromExists DEF From
<1>2. From(cells, n)[left] = [j \in 1..Len(cells) + 1 |-> FromBody(From(cells, n), cells, j, left)]
  BY <1>1
<1> QED
  BY <1>2

LEMMA FramesType ==
    ASSUME NEW cells \in Seq(AnyCell), NEW n \in Nat
    PROVE  \A left \in 0..n : \A i \in 1..Len(cells) + 1 :
               From(cells, n)[left][i].frames \in Seq(AnyCell)
<1> DEFINE F == From(cells, n)
           Ok(left) == \A i \in 1..Len(cells) + 1 : F[left][i].frames \in Seq(AnyCell)
           Bad == {left \in 0..n : ~Ok(left)}
<1> HIDE DEF F
<1>1. \A left \in 0..n : \A i \in 1..Len(cells) + 1 : F[left][i] = FromBody(F, cells, i, left)
  BY FromUnfolds DEF F
<1>2. SUFFICES ASSUME Bad # {} PROVE FALSE
  BY DEF F
<1>3. PICK left \in Bad : \A k \in Bad : left <= k
  <2>1. Bad \subseteq Nat
    OBVIOUS
  <2> HIDE DEF Bad
  <2> QED
    BY <1>2, <2>1, LeastExists
<1>4. left \in 0..n /\ left \in Nat
  OBVIOUS
<1>5. ASSUME NEW i \in 1..Len(cells) + 1 PROVE F[left][i].frames \in Seq(AnyCell)
  <2> DEFINE h == FirstHead(cells, i)
  <2>1. F[left][i] = FromBody(F, cells, i, left)
    BY <1>1, <1>4
  <2>2. CASE left = 0 \/ Heads(cells, i) = {}
    BY <2>1, <2>2, EmptySeq DEF FromBody, Nothing
  <2>3. CASE ~(left = 0 \/ Heads(cells, i) = {})
    <3>1. h \in Heads(cells, i) /\ Len(cells) \in Nat
      BY <2>3, FirstHeadType, LenProperties
    <3>2. h \in 1..Len(cells) /\ LastOf(cells, h) \in Nat /\ LastOf(cells, h) >= 1
      BY <3>1, HeadType
    <3>3. CASE LastOf(cells, h) > Len(cells)
      BY <2>1, <2>3, <3>3, EmptySeq DEF FromBody
    <3>4. CASE ~(LastOf(cells, h) > Len(cells))
      <4>1. LastOf(cells, h) + 1 \in 1..Len(cells) + 1
        BY <3>1, <3>2, <3>4
      <4>2. Ok(left - 1)
        <5> HIDE DEF Ok
        <5>1. left - 1 \in 0..n /\ ~(left <= left - 1)
          BY <1>4, <2>3
        <5> QED
          BY <1>3, <5>1
      <4>3. F[left - 1][LastOf(cells, h) + 1].frames \in Seq(AnyCell)
        BY <4>1, <4>2
      <4>4. IntactFrame(cells, h) \in Seq(AnyCell)
        <5>1. cells[h] \in AnyCell
          BY <3>2, ElementOfSeq
        <5>2. <<cells[h]>> \in Seq(AnyCell) /\ <<>> \in Seq(AnyCell)
          BY <5>1, EmptySeq
        <5> QED
          BY <5>2 DEF IntactFrame
      <4>5. F[left][i].frames = IntactFrame(cells, h) \o F[left - 1][LastOf(cells, h) + 1].frames
        BY <2>1, <2>3, <3>4 DEF FromBody
      <4> QED
        BY <4>3, <4>4, <4>5, ConcatProperties
    <3> QED
      BY <3>3, <3>4
  <2> QED
    BY <2>2, <2>3
<1> QED
  BY <1>3, <1>5

LEMMA FrameIdsType ==
    ASSUME NEW s \in Seq(AnyCell)
    PROVE  FrameIds(s) \in Seq(Nat) /\ Len(FrameIds(s)) = Len(s)
<1>1. Len(s) \in Nat
  BY LenProperties
<1>2. \A i \in 1..Len(s) : s[i].frame \in Nat
  <2> TAKE i \in 1..Len(s)
  <2>1. s[i] \in AnyCell
    BY ElementOfSeq
  <2> QED
    BY <2>1 DEF AnyCell, Cell, Idle
<1>3. FrameIds(s) \in [1..Len(s) -> Nat]
  BY <1>2 DEF FrameIds
<1>4. FrameIds(s) \in Seq(Nat)
  BY <1>1, <1>3, SeqDef
<1> QED
  BY <1>1, <1>3, <1>4, LenProperties

LEMMA FrameIdsConcat ==
    ASSUME NEW c \in AnyCell, NEW s \in Seq(AnyCell)
    PROVE  FrameIds(<<c>> \o s) = <<c.frame>> \o FrameIds(s)
<1>1. <<c>> \in Seq(AnyCell) /\ Len(<<c>>) = 1 /\ c.frame \in Nat
  BY DEF AnyCell, Cell, Idle
<1>2. /\ <<c>> \o s \in Seq(AnyCell) /\ Len(<<c>> \o s) = 1 + Len(s) /\ Len(s) \in Nat
      /\ \A i \in 1..1 + Len(s) : (<<c>> \o s)[i] = IF i <= 1 THEN <<c>>[i] ELSE s[i - 1]
  BY <1>1, ConcatProperties, LenProperties
<1>3. FrameIds(s) \in Seq(Nat) /\ Len(FrameIds(s)) = Len(s)
  BY FrameIdsType
<1>4. <<c.frame>> \in Seq(Nat) /\ Len(<<c.frame>>) = 1
  BY <1>1
<1>5. /\ <<c.frame>> \o FrameIds(s) \in Seq(Nat)
      /\ Len(<<c.frame>> \o FrameIds(s)) = 1 + Len(s)
      /\ \A i \in 1..1 + Len(s) :
            (<<c.frame>> \o FrameIds(s))[i] = IF i <= 1 THEN <<c.frame>>[i] ELSE FrameIds(s)[i - 1]
  BY <1>3, <1>4, ConcatProperties
<1>6. FrameIds(<<c>> \o s) \in Seq(Nat) /\ Len(FrameIds(<<c>> \o s)) = 1 + Len(s)
  BY <1>2, FrameIdsType
<1>7. ASSUME NEW i \in 1..1 + Len(s)
      PROVE  FrameIds(<<c>> \o s)[i] = (<<c.frame>> \o FrameIds(s))[i]
  <2>1. FrameIds(<<c>> \o s)[i] = (<<c>> \o s)[i].frame
    BY <1>2 DEF FrameIds
  <2>2. CASE i = 1
    BY <1>2, <1>5, <2>1, <2>2
  <2>3. CASE i # 1
    <3>1. i - 1 \in 1..Len(s) /\ ~(i <= 1)
      BY <1>2, <2>3
    <3>2. (<<c>> \o s)[i] = s[i - 1]
      BY <1>2, <3>1
    <3>3. FrameIds(s)[i - 1] = s[i - 1].frame
      BY <3>1 DEF FrameIds
    <3>4. (<<c.frame>> \o FrameIds(s))[i] = FrameIds(s)[i - 1]
      BY <1>5, <3>1
    <3> QED
      BY <2>1, <3>2, <3>3, <3>4
  <2> QED
    BY <2>2, <2>3
<1> QED
  BY <1>5, <1>6, <1>7, SeqEqual

-----------------------------------------------------------------------------
(* Where framing in passes stands in the stream. `From` on a stream that   *)
(* goes on in any way is at cell p when it has taken m frames and handed   *)
(* out d; buf begins at cell q, and between p and the place where the      *)
(* parser searches no frame begins.                                        *)
Continues(w, p, m, d) ==
    \A x \in Seq(AnyCell) : \A n \in Nat :
        n >= m =>
            /\ FrameIds(From(w \o x, n)[n][1].frames) =
                   d \o FrameIds(From(w \o x, n)[n - m][p].frames)
            /\ From(w \o x, n)[n][1].rest = From(w \o x, n)[n - m][p].rest

NoFrameIn(w, p, q) == \A k \in p..q : ~IsHeader(w, k) /\ (k = Len(w) => w[k].part # 1)

Stands(q, p, m) ==
    /\ q \in 1..Len(wire) + 1 /\ p \in 1..Len(wire) + 1 /\ 2 * m < p
    /\ Len(buf) = Len(wire) - q + 1
    /\ \A i \in 1..Len(buf) : buf[i] = wire[q + i - 1]
    /\ p <= q + pos - 1
    /\ NoFrameIn(wire, p, q + pos - 2)
    /\ Continues(wire, p, m, delivered)

StreamTypes ==
    /\ out \in Seq(Cell) /\ sent \in Nat
    /\ buf \in Seq(AnyCell) /\ wire \in Seq(AnyCell) /\ delivered \in Seq(Nat)
    /\ pos \in 1..Len(buf) + 1
    /\ pc # "parse" => pos = 1

InStream == lossy \/ \E q, p, m \in Nat : Stands(q, p, m)

(* Between passes only an unfinished frame is left.                        *)
OnlyUnfinished ==
    BetweenPasses => buf = <<>> \/ (IsHeader(buf, 1) /\ LastCell(1) > Len(buf))

StreamInv == StreamTypes /\ InStream /\ OnlyUnfinished

LEMMA SameStream ==
    ASSUME InStream, UNCHANGED <<buf, pos, delivered, wire, lossy>>
    PROVE  InStream'
BY DEF InStream, Stands

(* More cells behind what the buffer holds.                                *)
LEMMA ReadsOn ==
    ASSUME StreamTypes, InStream, NEW b \in Seq(AnyCell),
           buf' = buf \o b, wire' = wire \o b, UNCHANGED <<pos, delivered, lossy>>
    PROVE  InStream'
<1> SUFFICES ASSUME ~lossy PROVE \E q, p, m \in Nat : Stands(q, p, m)'
  BY DEF InStream
<1>1. PICK q \in Nat, p \in Nat, m \in Nat : Stands(q, p, m)
  BY DEF InStream
<1>2. /\ wire \in Seq(AnyCell) /\ buf \in Seq(AnyCell) /\ pos \in 1..Len(buf) + 1
      /\ Len(wire) \in Nat /\ Len(buf) \in Nat /\ Len(b) \in Nat
  BY LenProperties DEF StreamTypes
<1>3. /\ wire' \in Seq(AnyCell) /\ Len(wire') = Len(wire) + Len(b)
      /\ \A i \in 1..Len(wire') : wire'[i] = IF i <= Len(wire) THEN wire[i] ELSE b[i - Len(wire)]
  BY <1>2, ConcatProperties
<1>4. /\ Len(buf') = Len(buf) + Len(b)
      /\ \A i \in 1..Len(buf') : buf'[i] = IF i <= Len(buf) THEN buf[i] ELSE b[i - Len(buf)]
  BY <1>2, ConcatProperties
<1>5. Len(buf') = Len(wire') - q + 1
  BY <1>1, <1>2, <1>3, <1>4 DEF Stands
<1>6. ASSUME NEW i \in 1..Len(buf') PROVE buf'[i] = wire'[q + i - 1]
  <2>1. q + i - 1 \in 1..Len(wire') /\ Len(wire) = Len(buf) + q - 1
    BY <1>1, <1>2, <1>3, <1>5 DEF Stands
  <2>2. CASE i <= Len(buf)
    <3>1. i \in 1..Len(buf) /\ q + i - 1 <= Len(wire)
      BY <2>1, <2>2, <1>2
    <3> QED
      BY <1>1, <1>3, <1>4, <2>1, <3>1 DEF Stands
  <2>3. CASE ~(i <= Len(buf))
    <3>1. ~(q + i - 1 <= Len(wire)) /\ (q + i - 1) - Len(wire) = i - Len(buf)
      BY <2>1, <2>3, <1>2
    <3> QED
      BY <1>3, <1>4, <2>1, <2>3, <3>1
  <2> QED
    BY <2>2, <2>3
<1>7. NoFrameIn(wire', p, q + pos' - 2)
  <2> SUFFICES ASSUME NEW k \in p..q + pos - 2
               PROVE  ~IsHeader(wire', k) /\ (k = Len(wire') => wire'[k].part # 1)
    BY DEF NoFrameIn
  <2>1. k \in 1..Len(wire) /\ ~IsHeader(wire, k) /\ (k = Len(wire) => wire[k].part # 1)
    <3>1. /\ NoFrameIn(wire, p, q + pos - 2) /\ p \in 1..Len(wire) + 1
          /\ Len(buf) = Len(wire) - q + 1
      BY <1>1 DEF Stands
    <3>2. k \in 1..Len(wire)
      BY <1>2, <3>1
    <3> QED
      BY <3>1, <3>2 DEF NoFrameIn
  <2>2. wire'[k] = wire[k] /\ (k < Len(wire) => wire'[k + 1] = wire[k + 1])
    BY <1>2, <1>3, <2>1
  <2> QED
    BY <1>2, <1>3, <2>1, <2>2 DEF IsHeader
<1>8. Continues(wire', p, m, delivered')
  <2> SUFFICES ASSUME NEW x \in Seq(AnyCell), NEW n \in Nat, n >= m
               PROVE  /\ FrameIds(From(wire' \o x, n)[n][1].frames) =
                             delivered \o FrameIds(From(wire' \o x, n)[n - m][p].frames)
                      /\ From(wire' \o x, n)[n][1].rest = From(wire' \o x, n)[n - m][p].rest
    BY DEF Continues
  <2>1. wire' \o x = wire \o (b \o x) /\ b \o x \in Seq(AnyCell)
    <3>1. (wire \o b) \o x = wire \o (b \o x)
      BY <1>2, ConcatAssociative
    <3>2. b \o x \in Seq(AnyCell)
      BY ConcatProperties
    <3> QED
      BY <3>1, <3>2
  <2>2. Continues(wire, p, m, delivered)
    BY <1>1 DEF Stands
  <2> QED
    BY <2>1, <2>2 DEF Continues
<1>9. /\ q \in 1..Len(wire') + 1 /\ p \in 1..Len(wire') + 1 /\ 2 * m < p
      /\ p <= q + pos' - 1
  BY <1>1, <1>2, <1>3 DEF Stands
<1> QED
  BY <1>5, <1>6, <1>7, <1>8, <1>9 DEF Stands

(* A frame that begins in the buffer is the next one of the stream.        *)
LEMMA NextInStream ==
    ASSUME StreamTypes, NEW q \in Nat, NEW p \in Nat, NEW m \in Nat, Stands(q, p, m),
           NEW head \in pos..Len(buf), NextHeader(head), NEW x \in Seq(AnyCell)
    PROVE  /\ wire \o x \in Seq(AnyCell) /\ p \in 1..Len(wire \o x) + 1
           /\ Len(wire \o x) = Len(wire) + Len(x)
           /\ q + head - 1 \in Heads(wire \o x, p)
           /\ FirstHead(wire \o x, p) = q + head - 1
           /\ (wire \o x)[q + head - 1] = buf[head]
           /\ LastOf(wire \o x, q + head - 1) = q + LastCell(head) - 1
           /\ buf[head] \in Cell /\ LastCell(head) \in Nat /\ LastCell(head) >= head + 1
<1> DEFINE W == wire \o x
           h == q + head - 1
<1>1. /\ wire \in Seq(AnyCell) /\ buf \in Seq(AnyCell) /\ pos \in 1..Len(buf) + 1
      /\ Len(wire) \in Nat /\ Len(buf) \in Nat /\ Len(x) \in Nat
  BY LenProperties DEF StreamTypes
<1>2. /\ W \in Seq(AnyCell) /\ Len(W) = Len(wire) + Len(x)
      /\ \A i \in 1..Len(W) : i <= Len(wire) => W[i] = wire[i]
  BY <1>1, ConcatProperties
<1>3. /\ q \in 1..Len(wire) + 1 /\ p \in 1..Len(wire) + 1 /\ p <= q + pos - 1
      /\ Len(buf) = Len(wire) - q + 1
      /\ \A i \in 1..Len(buf) : buf[i] = wire[q + i - 1]
      /\ NoFrameIn(wire, p, q + pos - 2)
  BY DEF Stands
<1>4. head \in 1..Len(buf) /\ head < Len(buf) /\ IsHeader(buf, head)
      /\ \A k \in pos..head - 1 : ~IsHeader(buf, k)
  BY <1>1 DEF NextHeader, IsHeader
<1> HIDE DEF W, h
<1>5. \A i \in 1..Len(buf) : W[q + i - 1] = buf[i]
  <2> TAKE i \in 1..Len(buf)
  <2>1. q + i - 1 \in 1..Len(W) /\ q + i - 1 <= Len(wire)
    BY <1>1, <1>2, <1>3
  <2> QED
    BY <1>2, <1>3, <2>1
<1>6. \A k \in 1..Len(buf) - 1 : IsHeader(W, q + k - 1) <=> IsHeader(buf, k)
  <2> TAKE k \in 1..Len(buf) - 1
  <2>1. k \in 1..Len(buf) /\ k + 1 \in 1..Len(buf) /\ k < Len(buf)
        /\ q + k - 1 < Len(W) /\ (q + k - 1) + 1 = q + (k + 1) - 1
    BY <1>1, <1>2, <1>3
  <2>2. W[q + k - 1] = buf[k] /\ W[(q + k - 1) + 1] = buf[k + 1]
    BY <1>5, <2>1
  <2> QED
    BY <2>1, <2>2 DEF IsHeader
<1>7. h \in Heads(W, p)
  <2>1. IsHeader(W, h)
    BY <1>1, <1>4, <1>6 DEF h
  <2>2. h \in p..Len(W)
    <3>1. q + head - 1 >= p /\ q + head - 1 <= Len(wire) /\ q + head - 1 \in Int
      BY <1>1, <1>3, <1>4
    <3>2. Len(wire) <= Len(W) /\ Len(W) \in Nat
      BY <1>1, <1>2
    <3> QED
      BY <1>1, <3>1, <3>2 DEF h
  <2> QED
    BY <2>1, <2>2 DEF Heads
<1>8. ASSUME NEW k \in Heads(W, p) PROVE h <= k
  <2> SUFFICES ASSUME k < h PROVE FALSE
    <3>1. k \in Nat /\ h \in Nat
      BY <1>1, <1>3, <1>7 DEF Heads
    <3> QED
      BY <3>1
  <2>1. k \in p..Len(W) /\ IsHeader(W, k) /\ k < h
    BY DEF Heads
  <2>2. CASE k <= q + pos - 2
    <3>1. k \in p..q + pos - 2
      BY <1>1, <1>3, <2>1, <2>2
    <3>2. ~IsHeader(wire, k)
      BY <1>3, <3>1 DEF NoFrameIn
    <3>3. k \in 1..Len(wire) /\ k + 1 <= Len(wire) /\ k + 1 \in 1..Len(W)
      BY <1>1, <1>2, <1>3, <1>4, <2>1 DEF h
    <3>4. W[k] = wire[k] /\ W[k + 1] = wire[k + 1]
      BY <1>1, <1>2, <3>3
    <3> QED
      BY <2>1, <3>2, <3>3, <3>4 DEF IsHeader
  <2>3. CASE ~(k <= q + pos - 2)
    <3>1. k - q + 1 \in pos..head - 1 /\ k - q + 1 \in 1..Len(buf) - 1
          /\ q + (k - q + 1) - 1 = k
      BY <1>1, <1>3, <1>4, <2>1, <2>3 DEF h
    <3> QED
      BY <1>4, <1>6, <2>1, <3>1
  <2> QED
    BY <2>2, <2>3
<1>9. p \in Nat \ {0} /\ p \in 1..Len(W) + 1
  <2>1. Len(wire) <= Len(W) /\ Len(W) \in Nat
    BY <1>1, <1>2
  <2> QED
    BY <1>1, <1>3, <2>1
<1>10. FirstHead(W, p) = h
  BY <1>2, <1>7, <1>8, <1>9, FirstHeadIs
<1>11. W[h] = buf[head]
  BY <1>4, <1>5 DEF h
<1>12. /\ W[h] \in Cell /\ LastOf(W, h) \in Nat /\ LastOf(W, h) >= h + 1
  BY <1>2, <1>7, <1>9, HeadType
<1>13. LastOf(W, h) = q + LastCell(head) - 1
       /\ LastCell(head) \in Nat /\ LastCell(head) >= head + 1
  <2> DEFINE c == buf[head].shape.claim
  <2>1. c \in Nat \ {0, 1}
    BY <1>11, <1>12, ShapesAssumption DEF Cell
  <2>2. LastOf(W, h) = h + c - 1 /\ LastCell(head) = head + c - 1
    BY <1>11 DEF LastOf, LastCell
  <2>3. head \in Nat /\ h = q + head - 1
    BY <1>4 DEF h
  <2> HIDE DEF c
  <2> QED
    BY <2>1, <2>2, <2>3
<1> QED
  BY <1>2, <1>7, <1>9, <1>10, <1>11, <1>12, <1>13 DEF W, h

LEMMA IdsAssociate ==
    \A a, b, c \in Seq(Nat) : (a \o b) \o c = a \o (b \o c)
<1> TAKE a, b, c \in Seq(Nat)
<1>1. PICK S : S = Nat
  OBVIOUS
<1>2. a \in Seq(S) /\ b \in Seq(S) /\ c \in Seq(S)
  BY <1>1
<1> QED
  BY <1>2, ConcatAssociative

LEMMA OneAssociates ==
    \A a, c \in Seq(Nat) : \A e \in Nat : (a \o <<e>>) \o c = a \o (<<e>> \o c)
<1> TAKE a, c \in Seq(Nat)
<1> TAKE e \in Nat
<1>1. PICK one : one = <<e>>
  OBVIOUS
<1>2. one \in Seq(Nat)
  BY <1>1
<1>3. (a \o one) \o c = a \o (one \o c)
  BY <1>2, IdsAssociate, Zenon
<1> QED
  BY <1>1, <1>3, Zenon

(* The frame the parser extracts is the one framing the stream would.      *)
LEMMA ExtractsNext ==
    ASSUME StreamTypes, NEW q \in Nat, NEW p \in Nat, NEW m \in Nat, Stands(q, p, m),
           NEW head \in pos..Len(buf), NextHeader(head), LastCell(head) <= Len(buf),
           NEW d \in Seq(Nat),
           d = IF Intact(SubSeq(buf, head, LastCell(head))) THEN Append(delivered, buf[head].frame)
                                                            ELSE delivered
    PROVE  Continues(wire, q + LastCell(head), m + 1, d)
<1> DEFINE h == q + head - 1
           last == LastCell(head)
<1> SUFFICES ASSUME NEW x \in Seq(AnyCell), NEW n \in Nat, n >= m + 1
             PROVE  /\ FrameIds(From(wire \o x, n)[n][1].frames) =
                           d \o FrameIds(From(wire \o x, n)[n - (m + 1)][q + last].frames)
                    /\ From(wire \o x, n)[n][1].rest = From(wire \o x, n)[n - (m + 1)][q + last].rest
  BY DEF Continues
<1> DEFINE W == wire \o x
           F == From(W, n)
<1>1. /\ wire \in Seq(AnyCell) /\ buf \in Seq(AnyCell) /\ pos \in 1..Len(buf) + 1
      /\ delivered \in Seq(Nat)
      /\ Len(wire) \in Nat /\ Len(buf) \in Nat /\ Len(x) \in Nat
  BY LenProperties DEF StreamTypes
<1>2. /\ W \in Seq(AnyCell) /\ p \in 1..Len(W) + 1 /\ Len(W) = Len(wire) + Len(x)
      /\ h \in Heads(W, p) /\ FirstHead(W, p) = h /\ W[h] = buf[head]
      /\ LastOf(W, h) = q + last - 1
      /\ buf[head] \in Cell /\ last \in Nat /\ last >= head + 1
  <2>1. /\ wire \o x \in Seq(AnyCell) /\ p \in 1..Len(wire \o x) + 1
        /\ Len(wire \o x) = Len(wire) + Len(x)
        /\ q + head - 1 \in Heads(wire \o x, p)
        /\ FirstHead(wire \o x, p) = q + head - 1
        /\ (wire \o x)[q + head - 1] = buf[head]
        /\ LastOf(wire \o x, q + head - 1) = q + LastCell(head) - 1
        /\ buf[head] \in Cell /\ LastCell(head) \in Nat /\ LastCell(head) >= head + 1
    BY NextInStream
  <2> QED
    BY <2>1
<1>3. /\ q \in 1..Len(wire) + 1 /\ Len(buf) = Len(wire) - q + 1
      /\ \A i \in 1..Len(buf) : buf[i] = wire[q + i - 1]
      /\ Continues(wire, p, m, delivered)
  BY DEF Stands
<1>4. /\ FrameIds(F[n][1].frames) = delivered \o FrameIds(F[n - m][p].frames)
      /\ F[n][1].rest = F[n - m][p].rest
  <2>1. n >= m
    OBVIOUS
  <2> QED
    BY <1>3, <2>1 DEF Continues
<1> HIDE DEF W, h, last
<1>5. n - m \in 0..n /\ n - m # 0 /\ (n - m) - 1 = n - (m + 1) /\ n - (m + 1) \in 0..n
  OBVIOUS
<1>6. last <= Len(buf)
  BY DEF last
<1>7. q + last \in 1..Len(W) + 1 /\ ~(q + last - 1 > Len(W)) /\ (q + last - 1) + 1 = q + last
  <2>1. Len(wire) <= Len(W) /\ Len(W) \in Nat
    BY <1>1, <1>2
  <2>2. last \in Nat /\ last >= 1 /\ last <= Len(wire) - q + 1 /\ q \in Nat /\ Len(wire) \in Nat
    <3>1. head \in Nat /\ head >= 1
      BY <1>1
    <3> QED
      BY <1>1, <1>2, <1>3, <1>6, <3>1
  <2> QED
    BY <2>1, <2>2
<1>8. F[n - m][p] = FromBody(F, W, p, n - m)
  BY <1>2, <1>5, FromUnfolds
<1> HIDE DEF F
<1>9. F[n - m][p] = [frames |-> IntactFrame(W, h) \o F[n - (m + 1)][q + last].frames,
                     rest   |-> F[n - (m + 1)][q + last].rest]
  <2>1. ~(n - m = 0 \/ Heads(W, p) = {})
    BY <1>2, <1>5
  <2>2. FromBody(F, W, p, n - m) =
            [frames |-> IntactFrame(W, h) \o F[(n - m) - 1][LastOf(W, h) + 1].frames,
             rest   |-> F[(n - m) - 1][LastOf(W, h) + 1].rest]
    BY <1>2, <1>7, <2>1 DEF FromBody
  <2>3. LastOf(W, h) + 1 = q + last
    BY <1>2, <1>7
  <2> QED
    BY <1>5, <1>8, <2>2, <2>3
<1>10. F[n - (m + 1)][q + last].frames \in Seq(AnyCell)
  <2>1. W \in Seq(AnyCell) /\ n \in Nat /\ n - (m + 1) \in 0..n /\ q + last \in 1..Len(W) + 1
    BY <1>2, <1>5, <1>7
  <2> QED
    BY <2>1, FramesType DEF F
<1>11. SubSeq(W, h, LastOf(W, h)) = SubSeq(buf, head, last)
  <2>1. head \in 1..Len(buf) /\ h = q + head - 1 /\ LastOf(W, h) = q + last - 1
    <3>1. head \in 1..Len(buf)
      BY <1>1
    <3> QED
      BY <1>2, <3>1 DEF h
  <2>2. \A i \in head..last : buf[i] \in AnyCell
    <3> TAKE i \in head..last
    <3>1. i \in 1..Len(buf)
      BY <1>1, <1>2, <1>6, <2>1
    <3> QED
      BY <1>1, <3>1, ElementOfSeq
  <2>3. \A i \in 1..Len(buf) : W[q + i - 1] = buf[i]
    <3> TAKE i \in 1..Len(buf)
    <3>1. q + i - 1 \in 1..Len(wire)
      BY <1>1, <1>3
    <3>2. W[q + i - 1] = wire[q + i - 1]
      BY <1>1, <3>1, ConcatProperties DEF W
    <3> QED
      BY <1>3, <3>2
  <2>4. /\ SubSeq(buf, head, last) \in Seq(AnyCell)
        /\ Len(SubSeq(buf, head, last)) = last - head + 1
        /\ \A i \in 1..last - head + 1 : SubSeq(buf, head, last)[i] = buf[head + i - 1]
    <3>1. head \in Int /\ last \in Int /\ head <= last
      BY <1>2, <2>1
    <3> QED
      BY <2>2, <3>1, SubSeqProperties
  <2>5. /\ SubSeq(W, h, LastOf(W, h)) \in Seq(AnyCell)
        /\ Len(SubSeq(W, h, LastOf(W, h))) = last - head + 1
        /\ \A i \in 1..last - head + 1 : SubSeq(W, h, LastOf(W, h))[i] = W[h + i - 1]
    <3>1. h \in Int /\ LastOf(W, h) \in Int /\ h <= LastOf(W, h) /\ h \in 1..Len(W)
          /\ LastOf(W, h) <= Len(W) /\ LastOf(W, h) - h + 1 = last - head + 1
      BY <1>1, <1>2, <1>3, <1>7, <2>1
    <3>2. \A i \in h..LastOf(W, h) : W[i] \in AnyCell
      <4> TAKE i \in h..LastOf(W, h)
      <4>1. i \in 1..Len(W)
        BY <3>1, <1>1, <1>2
      <4> QED
        BY <1>2, <4>1, ElementOfSeq
    <3>3. /\ SubSeq(W, h, LastOf(W, h)) \in Seq(AnyCell)
          /\ Len(SubSeq(W, h, LastOf(W, h))) =
                IF h <= LastOf(W, h) THEN LastOf(W, h) - h + 1 ELSE 0
          /\ \A i \in 1..LastOf(W, h) - h + 1 : SubSeq(W, h, LastOf(W, h))[i] = W[h + i - 1]
      BY <3>1, <3>2, SubSeqProperties
    <3> QED
      BY <3>1, <3>3
  <2>6. \A i \in 1..last - head + 1 : W[h + i - 1] = buf[head + i - 1]
    <3> TAKE i \in 1..last - head + 1
    <3>1. head + i - 1 \in 1..Len(buf) /\ h + i - 1 = q + (head + i - 1) - 1
      BY <1>1, <1>2, <1>3, <1>6, <2>1
    <3> QED
      BY <2>3, <3>1
  <2>7. \A i \in 1..last - head + 1 : SubSeq(W, h, LastOf(W, h))[i] = SubSeq(buf, head, last)[i]
    BY <2>4, <2>5, <2>6
  <2> QED
    BY <2>4, <2>5, <2>7, SeqEqual
<1>12. IntactFrame(W, h) = IF Intact(SubSeq(buf, head, last)) THEN <<buf[head]>> ELSE <<>>
  BY <1>2, <1>11 DEF IntactFrame
<1> DEFINE fr == F[n - (m + 1)][q + last].frames
<1>13. FrameIds(F[n - m][p].frames) = FrameIds(IntactFrame(W, h) \o fr)
  BY <1>9
<1>14. FrameIds(fr) \in Seq(Nat) /\ fr \in Seq(AnyCell)
  BY <1>10, FrameIdsType
<1> HIDE DEF fr
<1>15. delivered \o FrameIds(IntactFrame(W, h) \o fr) = d \o FrameIds(fr)
  <2>1. CASE Intact(SubSeq(buf, head, last))
    <3>1. d = Append(delivered, buf[head].frame) /\ IntactFrame(W, h) = <<buf[head]>>
      BY <1>12, <2>1 DEF last
    <3>2. buf[head] \in AnyCell /\ buf[head].frame \in Nat
      BY <1>2 DEF AnyCell, Cell
    <3>3. FrameIds(<<buf[head]>> \o fr) = <<buf[head].frame>> \o FrameIds(fr)
      BY <1>14, <3>2, FrameIdsConcat
    <3>4. d = delivered \o <<buf[head].frame>>
      BY <1>1, <3>1, <3>2, AppendIsConcat
    <3>5. <<buf[head].frame>> \in Seq(Nat)
      BY <3>2
    <3>6. (delivered \o <<buf[head].frame>>) \o FrameIds(fr) =
              delivered \o (<<buf[head].frame>> \o FrameIds(fr))
      <4>1. PICK ids : ids = FrameIds(fr)
        OBVIOUS
      <4>2. PICK id : id = buf[head].frame
        OBVIOUS
      <4>3. delivered \in Seq(Nat) /\ ids \in Seq(Nat) /\ id \in Nat
        BY <1>1, <1>14, <3>2, <4>1, <4>2
      <4>4. (delivered \o <<id>>) \o ids = delivered \o (<<id>> \o ids)
        BY <4>3, OneAssociates, Zenon
      <4> QED
        BY <4>1, <4>2, <4>4
    <3> QED
      BY <3>1, <3>3, <3>4, <3>6
  <2>2. CASE ~Intact(SubSeq(buf, head, last))
    <3>1. d = delivered /\ IntactFrame(W, h) = <<>>
      BY <1>12, <2>2 DEF last
    <3>2. <<>> \o fr = fr
      BY <1>14, ConcatEmptySeq
    <3> QED
      BY <3>1, <3>2
  <2> QED
    BY <2>1, <2>2
<1>16. F[n - m][p].rest = F[n - (m + 1)][q + last].rest
  BY <1>9
<1> QED
  BY <1>4, <1>13, <1>15, <1>16 DEF fr, F, W, last

LEMMA ExtractStream ==
    ASSUME StreamInv, ExtractFrame
    PROVE  StreamInv'
<1> USE DEF StreamInv
<1>1. PICK head \in pos..Len(buf) :
          /\ NextHeader(head) /\ LastCell(head) <= Len(buf)
          /\ delivered' = IF Intact(SubSeq(buf, head, LastCell(head)))
                          THEN Append(delivered, buf[head].frame) ELSE delivered
          /\ pos' = LastCell(head) + 1
  BY DEF ExtractFrame
<1>2. UNCHANGED <<out, sent, pc, buf, wire, lossy>> /\ pc = "parse"
  BY DEF ExtractFrame, moduleVars
<1>3. /\ wire \in Seq(AnyCell) /\ buf \in Seq(AnyCell) /\ pos \in 1..Len(buf) + 1
      /\ Len(wire) \in Nat /\ Len(buf) \in Nat /\ delivered \in Seq(Nat)
  BY LenProperties DEF StreamTypes
<1>4. buf[head] \in Cell /\ LastCell(head) \in Nat /\ LastCell(head) >= head + 1
  <2>1. head \in Heads(buf, 1) /\ 1 \in Nat \ {0}
    BY <1>1, <1>3 DEF NextHeader, Heads
  <2>2. buf[head] \in Cell /\ LastOf(buf, head) \in Nat /\ LastOf(buf, head) >= head + 1
    BY <1>3, <2>1, HeadType
  <2> QED
    BY <2>2 DEF LastOf, LastCell
<1>5. delivered' \in Seq(Nat)
  <2>1. buf[head].frame \in Nat
    BY <1>4 DEF Cell
  <2> QED
    BY <1>1, <1>3, <2>1, AppendProperties
<1>6. pos' \in 1..Len(buf) + 1
  BY <1>1, <1>3, <1>4
<1>7. StreamTypes'
  BY <1>2, <1>5, <1>6 DEF StreamTypes
<1>8. OnlyUnfinished'
  BY <1>2 DEF OnlyUnfinished, BetweenPasses
<1>9. ASSUME ~lossy PROVE \E q, p, m \in Nat : Stands(q, p, m)'
  <2>1. PICK q \in Nat, p \in Nat, m \in Nat : Stands(q, p, m)
    BY <1>9 DEF InStream
  <2>11. PICK last : last = LastCell(head)
    OBVIOUS
  <2> DEFINE r == q + last
  <2>2. Continues(wire, r, m + 1, delivered')
    BY <1>1, <1>5, <2>1, <2>11, ExtractsNext
  <2>3. /\ q \in 1..Len(wire) + 1 /\ Len(buf) = Len(wire) - q + 1 /\ p <= q + pos - 1
        /\ 2 * m < p /\ \A i \in 1..Len(buf) : buf[i] = wire[q + i - 1]
    BY <2>1 DEF Stands
  <2>4. /\ last \in Nat /\ last >= head + 1 /\ last <= Len(buf) /\ pos' = last + 1
        /\ head \in Nat /\ head >= pos /\ pos \in Nat /\ pos >= 1
    BY <1>1, <1>3, <1>4, <2>11
  <2>5. r \in 1..Len(wire) + 1 /\ r \in Nat
    BY <1>3, <2>3, <2>4
  <2>6. 2 * (m + 1) < r /\ m + 1 \in Nat
    <3>1. p + 2 <= r
      BY <2>3, <2>4
    <3>2. 2 * (m + 1) = 2 * m + 2 /\ 2 * m \in Nat
      OBVIOUS
    <3> QED
      BY <2>3, <2>5, <3>1, <3>2
  <2>7. q + pos' - 1 = r /\ q + pos' - 2 = r - 1
    BY <2>4
  <2>8. NoFrameIn(wire, r, q + pos' - 2)
    <3>1. r..r - 1 = {}
      BY <2>5
    <3> QED
      BY <2>7, <3>1 DEF NoFrameIn
  <2> HIDE DEF r
  <2>9. r <= q + pos' - 1
    BY <2>5, <2>7
  <2>10. Stands(q, r, m + 1)'
    BY <1>2, <2>2, <2>3, <2>5, <2>6, <2>8, <2>9 DEF Stands
  <2> QED
    BY <2>5, <2>6, <2>10
<1> QED
  BY <1>2, <1>7, <1>8, <1>9 DEF InStream

(* The rest of the buffer is dropped; no frame begins in it, or the pass is *)
(* marked as lossy.                                                        *)
LEMMA DropsRest ==
    ASSUME StreamInv, EndPass(<<>>), pc = "parse"
    PROVE  StreamInv'
<1> USE DEF StreamInv
<1>1. /\ UNCHANGED <<out, sent, wire, delivered>> /\ buf' = <<>> /\ pos' = 1
      /\ lossy' = (lossy \/ Discards(<<>>)) /\ pc' = "top"
  BY DEF EndPass, CarryOver, moduleVars
<1>2. /\ wire \in Seq(AnyCell) /\ buf \in Seq(AnyCell) /\ pos \in 1..Len(buf) + 1
      /\ Len(wire) \in Nat /\ Len(buf) \in Nat
  BY LenProperties DEF StreamTypes
<1>3. buf' \in Seq(AnyCell) /\ Len(buf') = 0
  BY <1>1, EmptySeq
<1>4. StreamTypes' /\ OnlyUnfinished'
  BY <1>1, <1>3 DEF StreamTypes, OnlyUnfinished
<1>5. ASSUME ~lossy' PROVE \E q, p, m \in Nat : Stands(q, p, m)'
  <2>1. ~lossy /\ \A k \in pos..Len(buf) : buf[k].part # 1
    BY <1>1, <1>5 DEF Discards
  <2>2. PICK q \in Nat, p \in Nat, m \in Nat : Stands(q, p, m)
    BY <2>1 DEF InStream
  <2>3. /\ q \in 1..Len(wire) + 1 /\ Len(buf) = Len(wire) - q + 1 /\ p <= q + pos - 1
        /\ p \in 1..Len(wire) + 1 /\ 2 * m < p /\ \A i \in 1..Len(buf) : buf[i] = wire[q + i - 1]
        /\ NoFrameIn(wire, p, q + pos - 2) /\ Continues(wire, p, m, delivered)
    BY <2>2 DEF Stands
  <2>4. NoFrameIn(wire, p, Len(wire))
    <3> SUFFICES ASSUME NEW k \in p..Len(wire)
                 PROVE  ~IsHeader(wire, k) /\ (k = Len(wire) => wire[k].part # 1)
      BY DEF NoFrameIn
    <3>1. CASE k <= q + pos - 2
      <4>1. k \in p..q + pos - 2
        BY <1>2, <2>3, <3>1
      <4> QED
        BY <2>3, <4>1 DEF NoFrameIn
    <3>2. CASE ~(k <= q + pos - 2)
      <4>1. k - q + 1 \in pos..Len(buf) /\ k - q + 1 \in 1..Len(buf) /\ q + (k - q + 1) - 1 = k
        BY <1>2, <2>3, <3>2
      <4>2. wire[k] = buf[k - q + 1] /\ buf[k - q + 1].part # 1
        BY <2>1, <2>3, <4>1
      <4> QED
        BY <4>2 DEF IsHeader
    <3> QED
      BY <3>1, <3>2
  <2>5. Len(wire) + 1 \in Nat /\ (Len(wire) + 1) + 1 - 2 = Len(wire)
        /\ Len(wire) + 1 \in 1..Len(wire) + 1 /\ p <= (Len(wire) + 1) + 1 - 1
        /\ 0 = Len(wire) - (Len(wire) + 1) + 1
    BY <1>2, <2>3
  <2>6. Stands(Len(wire) + 1, p, m)'
    BY <1>1, <1>3, <2>3, <2>4, <2>5 DEF Stands
  <2> QED
    BY <2>5, <2>6
<1> QED
  BY <1>4, <1>5 DEF InStream

(* The unfinished frame moves to the front.                                *)
LEMMA CarriesOver ==
    ASSUME StreamInv, UnfinishedFrame
    PROVE  StreamInv'
<1> USE DEF StreamInv
<1>1. PICK head \in pos..Len(buf) :
          /\ NextHeader(head) /\ LastCell(head) > Len(buf)
          /\ EndPass(SubSeq(buf, head, Len(buf)))
  BY DEF UnfinishedFrame
<1>2. /\ UNCHANGED <<out, sent, wire, delivered>>
      /\ buf' = SubSeq(buf, head, Len(buf)) /\ pos' = 1 /\ pc' = "top"
      /\ lossy' => lossy \/ Discards(SubSeq(buf, head, Len(buf)))
      /\ lossy => lossy'
  BY <1>1 DEF EndPass, CarryOver, moduleVars
<1>3. /\ wire \in Seq(AnyCell) /\ buf \in Seq(AnyCell) /\ pos \in 1..Len(buf) + 1
      /\ Len(wire) \in Nat /\ Len(buf) \in Nat
  BY LenProperties DEF StreamTypes
<1>4. head \in 1..Len(buf) /\ head < Len(buf) /\ IsHeader(buf, head)
      /\ \A k \in pos..head - 1 : ~IsHeader(buf, k)
  BY <1>1, <1>3 DEF NextHeader, IsHeader
<1>5. /\ buf' \in Seq(AnyCell) /\ Len(buf') = Len(buf) - head + 1
      /\ \A i \in 1..Len(buf') : buf'[i] = buf[head + i - 1]
  <2>1. \A i \in head..Len(buf) : buf[i] \in AnyCell
    BY <1>3, <1>4, ElementOfSeq
  <2>2. head \in Int /\ Len(buf) \in Int /\ head <= Len(buf)
    BY <1>3, <1>4
  <2>3. /\ buf' \in Seq(AnyCell)
        /\ Len(buf') = IF head <= Len(buf) THEN Len(buf) - head + 1 ELSE 0
        /\ \A i \in 1..Len(buf) - head + 1 : buf'[i] = buf[head + i - 1]
    BY <1>2, <2>1, <2>2, SubSeqProperties
  <2> QED
    BY <2>2, <2>3
<1>6. StreamTypes'
  <2>1. Len(buf') \in Nat /\ pos' \in 1..Len(buf') + 1
    BY <1>2, <1>3, <1>4, <1>5
  <2> QED
    BY <1>2, <1>5, <2>1 DEF StreamTypes
<1>7. buf'[1] = buf[head] /\ buf'[2] = buf[head + 1] /\ Len(buf') >= 2
  <2>1. 1 \in 1..Len(buf') /\ 2 \in 1..Len(buf') /\ head + 1 - 1 = head /\ head + 2 - 1 = head + 1
    BY <1>3, <1>4, <1>5
  <2> QED
    BY <1>5, <2>1
<1>8. OnlyUnfinished'
  <2>1. IsHeader(buf', 1)
    BY <1>3, <1>4, <1>5, <1>7 DEF IsHeader
  <2>2. LastCell(1)' > Len(buf')
    <3>1. LastCell(1)' = 1 + buf[head].shape.claim - 1 /\ LastCell(head) = head + buf[head].shape.claim - 1
      BY <1>7 DEF LastCell
    <3>2. buf[head].shape.claim \in Nat
      <4>1. head \in Heads(buf, 1) /\ 1 \in Nat \ {0}
        BY <1>3, <1>4 DEF Heads
      <4>2. buf[head] \in Cell
        BY <1>3, <4>1, HeadType
      <4> QED
        BY <4>2, ShapesAssumption DEF Cell
    <3> QED
      BY <1>1, <1>3, <1>4, <1>5, <3>1, <3>2
  <2> QED
    BY <2>1, <2>2 DEF OnlyUnfinished
<1>9. ASSUME ~lossy' PROVE \E q, p, m \in Nat : Stands(q, p, m)'
  <2>1. PICK q \in Nat, p \in Nat, m \in Nat : Stands(q, p, m)
    BY <1>2, <1>9 DEF InStream
  <2>2. /\ q \in 1..Len(wire) + 1 /\ Len(buf) = Len(wire) - q + 1 /\ p <= q + pos - 1
        /\ p \in 1..Len(wire) + 1 /\ 2 * m < p /\ \A i \in 1..Len(buf) : buf[i] = wire[q + i - 1]
        /\ NoFrameIn(wire, p, q + pos - 2) /\ Continues(wire, p, m, delivered)
    BY <2>1 DEF Stands
  <2> DEFINE r == q + head - 1
  <2>3. /\ r \in 1..Len(wire) + 1 /\ r \in Nat /\ p <= r + 1 - 1 /\ r + 1 - 2 = r - 1
        /\ Len(buf') = Len(wire) - r + 1
    BY <1>3, <1>4, <1>5, <2>2
  <2>4. \A i \in 1..Len(buf') : buf'[i] = wire[r + i - 1]
    <3> TAKE i \in 1..Len(buf')
    <3>1. head + i - 1 \in 1..Len(buf) /\ q + (head + i - 1) - 1 = r + i - 1
      BY <1>3, <1>4, <1>5, <2>2
    <3> QED
      BY <1>5, <2>2, <3>1
  <2>5. NoFrameIn(wire, p, r - 1)
    <3> SUFFICES ASSUME NEW k \in p..r - 1
                 PROVE  ~IsHeader(wire, k) /\ (k = Len(wire) => wire[k].part # 1)
      BY DEF NoFrameIn
    <3>1. CASE k <= q + pos - 2
      <4>1. k \in p..q + pos - 2
        BY <1>3, <2>2, <3>1
      <4> QED
        BY <2>2, <4>1 DEF NoFrameIn
    <3>2. CASE ~(k <= q + pos - 2)
      <4>1. k - q + 1 \in pos..head - 1 /\ k - q + 1 \in 1..Len(buf) /\ q + (k - q + 1) - 1 = k
            /\ (k - q + 1) + 1 \in 1..Len(buf) /\ q + ((k - q + 1) + 1) - 1 = k + 1
            /\ k < Len(wire)
        <5>1. k <= q + head - 2 /\ k >= q + pos - 1 /\ k \in Int /\ q \in Int
          BY <1>3, <1>4, <2>2, <2>3, <3>2
        <5>2. /\ head \in Int /\ head < Len(buf) /\ pos \in Int /\ pos >= 1
              /\ Len(buf) \in Int /\ Len(wire) \in Int /\ Len(buf) = Len(wire) - q + 1
          BY <1>3, <1>4, <2>2
        <5> QED
          BY <5>1, <5>2
      <4>2. wire[k] = buf[k - q + 1] /\ wire[k + 1] = buf[(k - q + 1) + 1]
        <5>1. \A i \in 1..Len(buf) : buf[i] = wire[q + i - 1]
          BY <2>2
        <5>2. wire[q + (k - q + 1) - 1] = buf[k - q + 1]
          BY <4>1, <5>1
        <5>3. wire[q + ((k - q + 1) + 1) - 1] = buf[(k - q + 1) + 1]
          BY <4>1, <5>1
        <5> QED
          BY <4>1, <5>2, <5>3
      <4>3. ~IsHeader(buf, k - q + 1) /\ k - q + 1 < Len(buf)
        BY <1>3, <1>4, <4>1
      <4> QED
        BY <4>1, <4>2, <4>3 DEF IsHeader
    <3> QED
      BY <3>1, <3>2
  <2> HIDE DEF r
  <2>6. Stands(r, p, m)'
    BY <1>2, <2>2, <2>3, <2>4, <2>5 DEF Stands
  <2> QED
    BY <2>3, <2>6
<1> QED
  BY <1>6, <1>8, <1>9 DEF InStream

(* On either HAT the stream begins empty.                                  *)
LEMMA StreamBegins == ASSUME Init \/ UartInit PROVE StreamInv
<1>1. /\ buf = <<>> /\ wire = <<>> /\ delivered = <<>> /\ pos = 1 /\ pc = "top"
      /\ \/ out = <<>> /\ sent = 0
         \/ sent = 1 /\ \E sh \in Shapes : out = FrameCells(1, sh)
  BY DEF Init, UartInit
<1>2. /\ <<>> \in Seq(AnyCell) /\ <<>> \in Seq(Nat) /\ <<>> \in Seq(Cell) /\ Len(<<>>) = 0
      /\ Len(buf) = 0 /\ Len(wire) = 0
  BY <1>1, EmptySeq
<1>3. out \in Seq(Cell) /\ sent \in Nat
  <2>1. CASE out = <<>> /\ sent = 0
    BY <1>2, <2>1
  <2>2. ASSUME sent = 1, NEW sh \in Shapes, out = FrameCells(1, sh) PROVE out \in Seq(Cell) /\ sent \in Nat
    <3>1. 1 \in Nat \ {0}
      OBVIOUS
    <3> QED
      BY <2>2, <3>1, FrameCellsType
  <2> QED
    BY <1>1, <2>1, <2>2
<1>4. StreamTypes /\ OnlyUnfinished
  BY <1>1, <1>2, <1>3 DEF StreamTypes, OnlyUnfinished
<1>5. Continues(wire, 1, 0, delivered)
  <2> SUFFICES ASSUME NEW x \in Seq(AnyCell), NEW n \in Nat, n >= 0
               PROVE  /\ FrameIds(From(wire \o x, n)[n][1].frames) =
                             delivered \o FrameIds(From(wire \o x, n)[n - 0][1].frames)
                      /\ From(wire \o x, n)[n][1].rest = From(wire \o x, n)[n - 0][1].rest
    BY DEF Continues
  <2>1. wire \o x = x /\ n - 0 = n /\ n \in 0..n /\ Len(x) \in Nat
    BY <1>1, ConcatEmptySeq, LenProperties
  <2>2. From(x, n)[n][1].frames \in Seq(AnyCell)
    BY <2>1, FramesType
  <2> DEFINE ids == FrameIds(From(x, n)[n][1].frames)
  <2>3. ids \in Seq(Nat)
    BY <2>2, FrameIdsType
  <2> HIDE DEF ids
  <2>4. <<>> \o ids = ids
    BY <2>3, ConcatEmptySeq
  <2> QED
    BY <1>1, <2>1, <2>4 DEF ids
<1>6. Stands(1, 1, 0)
  <2>1. NoFrameIn(wire, 1, 1 + pos - 2)
    BY <1>1 DEF NoFrameIn
  <2> QED
    BY <1>1, <1>2, <1>5, <2>1 DEF Stands
<1> QED
  BY <1>4, <1>6 DEF StreamInv, InStream

(* The receiver only adds to its own buffer.                               *)
LEMMA SendsOn ==
    ASSUME StreamInv, NEW sh \in Shapes, sent' = sent + 1,
           out' = out \o FrameCells(sent + 1, sh),
           UNCHANGED <<pc, buf, pos, delivered, wire, lossy>>
    PROVE  StreamInv'
<1>1. out \in Seq(Cell) /\ sent \in Nat /\ StreamTypes /\ InStream /\ OnlyUnfinished
  BY DEF StreamInv, StreamTypes
<1>2. sent + 1 \in Nat \ {0}
  BY <1>1
<1>3. out' \in Seq(Cell) /\ sent' \in Nat
  BY <1>1, <1>2, FrameCellsType, ConcatProperties
<1>4. StreamTypes'
  BY <1>1, <1>3 DEF StreamTypes
<1>5. OnlyUnfinished'
  BY <1>1 DEF OnlyUnfinished, BetweenPasses, LastCell
<1> QED
  BY <1>1, <1>4, <1>5, SameStream DEF StreamInv

(* Steps that only move the threads' program counters.                     *)
LEMMA MovesOn ==
    ASSUME StreamInv, UNCHANGED <<out, sent, buf, pos, delivered, wire, lossy>>,
           pc' # pc => pc # "parse",
           BetweenPasses' => BetweenPasses \/ buf = <<>>
    PROVE  StreamInv'
<1>1. StreamTypes /\ InStream /\ OnlyUnfinished
  BY DEF StreamInv
<1>2. StreamTypes'
  BY <1>1 DEF StreamTypes
<1>3. OnlyUnfinished'
  BY <1>1 DEF OnlyUnfinished, LastCell
<1> QED
  BY <1>1, <1>2, <1>3, SameStream DEF StreamInv

(* Cells of the module's buffer arrive behind what the host has.           *)
LEMMA CellsArrive ==
    ASSUME StreamInv, NEW b \in Seq(AnyCell), NEW k \in Nat \ {0},
           buf' = buf \o b, wire' = wire \o b, out' = SubSeq(out, k, Len(out)),
           UNCHANGED <<sent, pos, delivered, lossy>>,
           pc # "parse", pc' \notin {"top", "wait", "done"}
    PROVE  StreamInv'
<1>1. StreamTypes /\ InStream /\ OnlyUnfinished
  BY DEF StreamInv
<1>2. /\ out \in Seq(Cell) /\ buf \in Seq(AnyCell) /\ wire \in Seq(AnyCell) /\ pos = 1
      /\ Len(out) \in Nat /\ Len(buf) \in Nat /\ Len(b) \in Nat
  BY <1>1, LenProperties DEF StreamTypes
<1>3. out' \in Seq(Cell)
  <2>1. \A i \in k..Len(out) : out[i] \in Cell
    <3> TAKE i \in k..Len(out)
    <3>1. i \in 1..Len(out)
      BY <1>2
    <3> QED
      BY <1>2, <3>1, ElementOfSeq
  <2>2. k \in Int /\ Len(out) \in Int
    BY <1>2
  <2> QED
    BY <2>1, <2>2, SubSeqProperties
<1>4. /\ buf' \in Seq(AnyCell) /\ wire' \in Seq(AnyCell) /\ Len(buf') = Len(buf) + Len(b)
  BY <1>2, ConcatProperties
<1>5. pos' \in 1..Len(buf') + 1
  BY <1>2, <1>4
<1>6. StreamTypes'
  BY <1>1, <1>2, <1>3, <1>4, <1>5 DEF StreamTypes
<1>7. OnlyUnfinished'
  BY DEF OnlyUnfinished, BetweenPasses
<1>8. InStream'
  BY <1>1, ReadsOn
<1> QED
  BY <1>6, <1>7, <1>8 DEF StreamInv

(* One pass of the parser, the same on either HAT.                         *)
LEMMA ParsesOn ==
    ASSUME StreamInv, ExtractFrame \/ NoMoreFrames \/ NoMoreSlots \/ UnfinishedFrame
    PROVE  StreamInv'
<1>1. CASE ExtractFrame
  BY <1>1, ExtractStream
<1>2. CASE NoMoreFrames
  BY <1>2, DropsRest DEF NoMoreFrames
<1>3. CASE NoMoreSlots
  BY <1>3, DropsRest DEF NoMoreSlots
<1>4. CASE UnfinishedFrame
  BY <1>4, CarriesOver
<1> QED
  BY <1>1, <1>2, <1>3, <1>4

LEMMA SpiStaysInStream == StreamInv /\ [Next]_vars => StreamInv'
<1> SUFFICES ASSUME StreamInv, [Next]_vars PROVE StreamInv'
  OBVIOUS
<1>1. ASSUME NEW sh \in Shapes, Produce(sh) PROVE StreamInv'
  BY <1>1, SendsOn DEF Produce, passVars, navVars
<1>2. CASE TxStep \/ RequestStop
  <2>1. UNCHANGED <<moduleVars, passVars, navVars, pc>>
    BY <1>2 DEF TxStep, RequestStop, TxTop, TxEdge, TxTimeout, TxCheck
  <2> QED
    BY <2>1, MovesOn DEF moduleVars, passVars, navVars, BetweenPasses
<1>3. CASE LoopTop \/ SkipWait \/ Woken \/ WaitStopped
  <2>1. /\ UNCHANGED <<moduleVars, buf, pos, navVars>> /\ pc \in {"top", "wait"}
    BY <1>3 DEF LoopTop, SkipWait, Woken, WaitStopped, passVars
  <2> QED
    BY <2>1, MovesOn DEF moduleVars, navVars, BetweenPasses
<1>4. CASE BufferLimit
  BY <1>4, MovesOn DEF BufferLimit, moduleVars, passVars, navVars, BetweenPasses
<1>5. CASE ReadBatch
  <2> DEFINE batch == BatchOf(out)
             idle  == \A k \in 1..Batch : batch[k] = Idle
             b     == IF idle THEN <<>> ELSE batch
  <2>1. batch \in Seq(AnyCell)
    BY BatchType DEF StreamInv, StreamTypes
  <2>2. buf \in Seq(AnyCell) /\ wire \in Seq(AnyCell) /\ <<>> \in Seq(AnyCell)
    BY EmptySeq DEF StreamInv, StreamTypes
  <2>3. b \in Seq(AnyCell)
    BY <2>1, <2>2
  <2>4. buf' = buf \o b /\ wire' = wire \o b
    <3>1. CASE idle
      <4>1. buf' = buf /\ wire' = wire
        BY <1>5, <3>1 DEF ReadBatch
      <4>2. buf \o <<>> = buf /\ wire \o <<>> = wire
        BY <2>2, ConcatEmptySeq
      <4> QED
        BY <3>1, <4>1, <4>2
    <3>2. CASE ~idle
      BY <1>5, <3>2 DEF ReadBatch
    <3> QED
      BY <3>1, <3>2
  <2>5. /\ UNCHANGED <<sent, pos, delivered, lossy>> /\ pc = "drain" /\ pc' \in {"drain", "parse"}
        /\ out' = SubSeq(out, Batch + 1, Len(out)) /\ Batch + 1 \in Nat \ {0}
    BY <1>5, SizesAssumption DEF ReadBatch
  <2> HIDE DEF b
  <2> QED
    BY <2>3, <2>4, <2>5, CellsArrive
<1>6. CASE ExtractFrame \/ NoMoreFrames \/ NoMoreSlots \/ UnfinishedFrame
  BY <1>6, ParsesOn
<1>7. CASE UNCHANGED vars
  BY <1>7, MovesOn DEF vars, BetweenPasses
<1> QED
  BY <1>1, <1>2, <1>3, <1>4, <1>5, <1>6, <1>7 DEF Next, UbloxStep, Terminated

LEMMA UartStaysInStream == StreamInv /\ UartNext => StreamInv'
<1> SUFFICES ASSUME StreamInv, UartNext PROVE StreamInv'
  OBVIOUS
<1>1. ASSUME NEW sh \in Shapes, SendMessage(sh) PROVE StreamInv'
  BY <1>1, SendsOn DEF SendMessage, passVars, navVars
<1>2. CASE PollTop \/ PollTimesOut
  <2>1. /\ UNCHANGED <<moduleVars, passVars, navVars>> /\ pc # "parse"
        /\ pc' \in {"top", "wait", "done"} => buf = <<>>
    BY <1>2 DEF PollTop, PollTimesOut
  <2> QED
    BY <2>1, MovesOn DEF moduleVars, passVars, navVars, BetweenPasses
<1>3. ASSUME NEW n \in 1..BufSize, PollReads(n) PROVE StreamInv'
  <2>1. out \in Seq(Cell) /\ Len(out) \in Nat /\ n \in Nat /\ n <= Len(out)
    BY <1>3, LenProperties DEF PollReads, StreamInv, StreamTypes
  <2>2. SubSeq(out, 1, n) \in Seq(AnyCell)
    <3>1. \A i \in 1..n : out[i] \in AnyCell
      <4> TAKE i \in 1..n
      <4>1. i \in 1..Len(out)
        BY <2>1
      <4> QED
        BY <2>1, <4>1, ElementOfSeq DEF AnyCell
    <3>2. 1 \in Int /\ n \in Int
      BY <2>1
    <3> QED
      BY <3>1, <3>2, SubSeqProperties
  <2>3. /\ buf' = buf \o SubSeq(out, 1, n) /\ wire' = wire \o SubSeq(out, 1, n)
        /\ out' = SubSeq(out, n + 1, Len(out)) /\ n + 1 \in Nat \ {0}
        /\ UNCHANGED <<sent, pos, delivered, lossy>> /\ pc = "poll" /\ pc' \in {"parse", "short"}
    BY <1>3, <2>1 DEF PollReads
  <2> QED
    BY <2>2, <2>3, CellsArrive
<1>4. CASE ParsePass
  BY <1>4, ParsesOn DEF ParsePass
<1>5. CASE StopRequest \/ Ended
  BY <1>5, MovesOn
  DEF StopRequest, RequestStop, Ended, allVars, vars, moduleVars, passVars, navVars, BetweenPasses
<1> QED
  BY <1>1, <1>2, <1>3, <1>4, <1>5 DEF UartNext, PollStep

(* Between passes, what the stream's framing leaves is what the buffer has. *)
LEMMA InStreamIsFramed == StreamInv => PassesFrameTheStream
<1> SUFFICES ASSUME StreamInv, BetweenPasses, ~lossy PROVE Framed
  BY DEF PassesFrameTheStream
<1> DEFINE n == Len(wire)
           F == From(wire, n)
<1>1. /\ wire \in Seq(AnyCell) /\ buf \in Seq(AnyCell) /\ delivered \in Seq(Nat) /\ pos = 1
      /\ n \in Nat /\ Len(buf) \in Nat
      /\ buf = <<>> \/ (IsHeader(buf, 1) /\ LastCell(1) > Len(buf))
  BY LenProperties DEF StreamInv, StreamTypes, OnlyUnfinished, BetweenPasses
<1>2. PICK q \in Nat, p \in Nat, m \in Nat : Stands(q, p, m)
  BY DEF StreamInv, InStream
<1>3. /\ q \in 1..n + 1 /\ p \in 1..n + 1 /\ 2 * m < p /\ p <= q /\ Len(buf) = n - q + 1
      /\ \A i \in 1..Len(buf) : buf[i] = wire[q + i - 1]
      /\ NoFrameIn(wire, p, q - 1) /\ Continues(wire, p, m, delivered)
  BY <1>1, <1>2 DEF Stands
<1>4. m <= n /\ n - m \in 0..n
  BY <1>1, <1>3
<1>5. <<>> \in Seq(AnyCell) /\ wire \o <<>> = wire
  BY <1>1, EmptySeq, ConcatEmptySeq
<1>6. /\ FrameIds(F[n][1].frames) = delivered \o FrameIds(F[n - m][p].frames)
      /\ F[n][1].rest = F[n - m][p].rest
  <2>1. /\ FrameIds(From(wire \o <<>>, n)[n][1].frames) =
               delivered \o FrameIds(From(wire \o <<>>, n)[n - m][p].frames)
        /\ From(wire \o <<>>, n)[n][1].rest = From(wire \o <<>>, n)[n - m][p].rest
    BY <1>1, <1>3, <1>4, <1>5 DEF Continues
  <2> QED
    BY <1>5, <2>1
<1>7. F[n - m][p] = FromBody(F, wire, p, n - m)
  BY <1>1, <1>3, <1>4, FromUnfolds
<1>8. F[n - m][p].frames = <<>> /\ F[n - m][p].rest = buf
  <2>1. CASE buf = <<>>
    <3>1. q = n + 1
      BY <1>1, <1>3, <2>1, EmptySeq
    <3>2. Heads(wire, p) = {}
      <4> SUFFICES ASSUME NEW k \in Heads(wire, p) PROVE FALSE
        OBVIOUS
      <4>1. k \in p..q - 1 /\ IsHeader(wire, k)
        BY <1>1, <1>3, <3>1 DEF Heads
      <4> QED
        BY <1>3, <4>1 DEF NoFrameIn
    <3> QED
      BY <1>7, <2>1, <3>2 DEF FromBody, Nothing
  <2>2. CASE IsHeader(buf, 1) /\ LastCell(1) > Len(buf)
    <3>1. 1 \in pos..Len(buf) /\ NextHeader(1) /\ Len(buf) >= 2
      BY <1>1, <2>2 DEF IsHeader, NextHeader
    <3>2. /\ q + 1 - 1 \in Heads(wire \o <<>>, p)
          /\ FirstHead(wire \o <<>>, p) = q + 1 - 1
          /\ LastOf(wire \o <<>>, q + 1 - 1) = q + LastCell(1) - 1
          /\ LastCell(1) \in Nat
      <4>1. PICK head \in pos..Len(buf), x \in Seq(AnyCell) :
                head = 1 /\ x = <<>> /\ NextHeader(head)
        BY <1>5, <3>1
      <4>2. StreamTypes
        BY DEF StreamInv
      <4>3. NextHeader(head)
        BY <4>1
      <4> HIDE DEF n, F
      <4>4. /\ wire \o x \in Seq(AnyCell) /\ p \in 1..Len(wire \o x) + 1
            /\ Len(wire \o x) = Len(wire) + Len(x)
            /\ q + head - 1 \in Heads(wire \o x, p)
            /\ FirstHead(wire \o x, p) = q + head - 1
            /\ (wire \o x)[q + head - 1] = buf[head]
            /\ LastOf(wire \o x, q + head - 1) = q + LastCell(head) - 1
            /\ buf[head] \in Cell /\ LastCell(head) \in Nat /\ LastCell(head) >= head + 1
        BY <1>2, <4>2, <4>3, NextInStream
      <4> QED
        BY <4>1, <4>4
    <3>3. q + 1 - 1 = q
      OBVIOUS
    <3>4. /\ q \in Heads(wire, p) /\ FirstHead(wire, p) = q
          /\ LastOf(wire, q) = q + LastCell(1) - 1
      BY <1>5, <3>2, <3>3
    <3>5. q + LastCell(1) - 1 > n /\ q < n
      BY <1>1, <1>3, <2>2, <3>1, <3>2
    <3>6. n - m # 0
      BY <1>1, <1>3, <3>5
    <3>7. F[n - m][p] = [frames |-> <<>>, rest |-> SubSeq(wire, q, n)]
      BY <1>7, <3>4, <3>5, <3>6 DEF FromBody
    <3>8. SubSeq(wire, q, n) = buf
      <4>1. \A i \in q..n : wire[i] \in AnyCell
        <5> TAKE i \in q..n
        <5>1. i \in 1..n
          BY <1>1, <1>3
        <5> QED
          BY <1>1, <5>1, ElementOfSeq
      <4>2. q \in Int /\ n \in Int /\ q <= n
        BY <1>1, <3>5
      <4>3. /\ SubSeq(wire, q, n) \in Seq(AnyCell)
            /\ Len(SubSeq(wire, q, n)) = IF q <= n THEN n - q + 1 ELSE 0
            /\ \A i \in 1..n - q + 1 : SubSeq(wire, q, n)[i] = wire[q + i - 1]
        BY <4>1, <4>2, SubSeqProperties
      <4> HIDE DEF n
      <4>4. Len(SubSeq(wire, q, n)) = Len(buf)
        BY <1>3, <4>2, <4>3
      <4>5. \A i \in 1..Len(buf) : SubSeq(wire, q, n)[i] = buf[i]
        BY <1>3, <4>3
      <4> QED
        BY <1>1, <4>3, <4>4, <4>5, SeqEqual
    <3> QED
      BY <3>7, <3>8
  <2> QED
    BY <1>1, <2>1, <2>2
<1>9. delivered = FrameIds(F[n][1].frames)
  <2>1. FrameIds(<<>>) = <<>>
    <3>1. FrameIds(<<>>) \in Seq(Nat) /\ Len(FrameIds(<<>>)) = 0
      BY <1>5, EmptySeq, FrameIdsType
    <3> QED
      BY <3>1, EmptySeq
  <2>2. delivered \o <<>> = delivered
    BY <1>1, ConcatEmptySeq
  <2> QED
    BY <1>6, <1>8, <2>1, <2>2
<1>10. buf = F[n][1].rest
  BY <1>6, <1>8
<1> QED
  BY <1>9, <1>10, ScanIsFrom DEF Framed

LEMMA ReceiveStaysInStream == StreamInv /\ [ReceiveNext]_allVars => StreamInv'
<1> SUFFICES ASSUME StreamInv, [ReceiveNext]_allVars PROVE StreamInv'
  OBVIOUS
<1>1. CASE UartNext
  BY <1>1, UartStaysInStream
<1>2. CASE [Next]_vars
  BY <1>2, SpiStaysInStream
<1> QED
  BY <1>1, <1>2 DEF ReceiveNext, SpiNext, allVars

(* M9NRun::execute alone: framing in drain passes is framing the stream.    *)
THEOREM DrainPassesFrame == Spec => []PassesFrameTheStream
<1>1. Init => StreamInv
  BY StreamBegins
<1> QED
  BY <1>1, SpiStaysInStream, InStreamIsFramed, PTL DEF Spec

(* On either HAT, wherever a pass ends - buffer limit, idle module, poll    *)
(* timeout or enough to parse - no frame is lost, duplicated or reordered,  *)
(* and exactly the unfinished tail is carried over, unless a pass threw the *)
(* beginning of a frame away (M9NRun::execute, F10TRun::execute).           *)
THEOREM PassesFrame == ReceiveSpec => []PassesFrameTheStream
<1>1. ReceiveInit => StreamInv
  BY StreamBegins DEF ReceiveInit
<1>2. StreamInv /\ [ReceiveNext]_allVars => StreamInv'
  BY ReceiveStaysInStream
<1> QED
  BY <1>1, <1>2, InStreamIsFramed, PTL DEF ReceiveSpec

-----------------------------------------------------------------------------
(* One wakeup per epoch. In a pass, what remains to be framed is what Scan *)
(* would frame behind pos with the slots that are left; a NAV-PVT is there *)
(* or was already marked.                                                  *)
Remaining == From(buf, FrameLimit)[FrameLimit - slots][pos].frames
PassHasPvt == HasPvt(Scan(buf, FrameLimit).frames)

EpochInv ==
    /\ StreamTypes /\ slots \in 0..FrameLimit
    /\ pc # "parse" => slots = 0 /\ ~(epochSeen /\ navGen > 0)
    /\ pc = "parse" =>
          /\ PassHasPvt => epochSeen \/ HasPvt(Remaining)
          /\ epochSeen /\ navGen > 0 => PassHasPvt
          /\ HasPvt(Remaining) => PassHasPvt

Wakes ==
    /\ PassEnds /\ PassHasPvt => navGen' = navGen + 1
    /\ navGen' # navGen /\ navGen > 0 => PassEnds /\ PassHasPvt

LEMMA PvtConcat ==
    ASSUME NEW s \in Seq(AnyCell), NEW t \in Seq(AnyCell)
    PROVE  HasPvt(s \o t) <=> HasPvt(s) \/ HasPvt(t)
<1>1. /\ Len(s) \in Nat /\ Len(t) \in Nat /\ Len(s \o t) = Len(s) + Len(t)
      /\ \A i \in 1..Len(s) + Len(t) : (s \o t)[i] = IF i <= Len(s) THEN s[i] ELSE t[i - Len(s)]
  BY LenProperties, ConcatProperties
<1>2. ASSUME NEW i \in 1..Len(s) PROVE (s \o t)[i] = s[i] /\ i \in 1..Len(s \o t)
  BY <1>1
<1>3. ASSUME NEW i \in 1..Len(t)
      PROVE  (s \o t)[Len(s) + i] = t[i] /\ Len(s) + i \in 1..Len(s \o t)
  <2>1. Len(s) + i \in 1..Len(s) + Len(t) /\ ~(Len(s) + i <= Len(s)) /\ (Len(s) + i) - Len(s) = i
    BY <1>1
  <2> QED
    BY <1>1, <2>1
<1>4. ASSUME NEW i \in 1..Len(s \o t)
      PROVE  (i \in 1..Len(s) /\ (s \o t)[i] = s[i])
                \/ (i - Len(s) \in 1..Len(t) /\ (s \o t)[i] = t[i - Len(s)])
  BY <1>1
<1> QED
  BY <1>2, <1>3, <1>4 DEF HasPvt

LEMMA NothingHasPvt == ~HasPvt(<<>>)
<1>1. Len(<<>>) = 0
  BY EmptySeq
<1>2. 1..0 = {}
  OBVIOUS
<1> QED
  BY <1>1, <1>2 DEF HasPvt

(* A pass begins with everything still to be framed.                       *)
LEMMA PassBegins ==
    ASSUME slots = 0, pos = 1
    PROVE  HasPvt(Remaining) = PassHasPvt
<1>1. FrameLimit - slots = FrameLimit
  BY SizesAssumption
<1> QED
  BY <1>1, ScanIsFrom DEF Remaining, PassHasPvt

(* The frame that is extracted carries the NAV-PVT, or what follows does.  *)
LEMMA ExtractedPvt ==
    ASSUME StreamTypes, slots \in 0..FrameLimit, slots < FrameLimit,
           NEW head \in pos..Len(buf), NextHeader(head), LastCell(head) <= Len(buf)
    PROVE  /\ LastCell(head) + 1 \in 1..Len(buf) + 1
           /\ HasPvt(Remaining) <=>
                  \/ Intact(SubSeq(buf, head, LastCell(head))) /\ buf[head].shape.pvt
                  \/ HasPvt(From(buf, FrameLimit)[FrameLimit - (slots + 1)][LastCell(head) + 1].frames)
<1> DEFINE F == From(buf, FrameLimit)
           left == FrameLimit - slots
           next == LastCell(head) + 1
<1>1. /\ buf \in Seq(AnyCell) /\ pos \in 1..Len(buf) + 1 /\ Len(buf) \in Nat
      /\ pos \in Nat \ {0} /\ FrameLimit \in Nat
  BY LenProperties, SizesAssumption DEF StreamTypes
<1>2. head \in Heads(buf, pos)
  BY DEF NextHeader, Heads
<1>3. \A k \in Heads(buf, pos) : head <= k
  <2> SUFFICES ASSUME NEW k \in Heads(buf, pos) PROVE head <= k
    OBVIOUS
  <2>1. k \in pos..Len(buf) /\ IsHeader(buf, k) /\ head \in Int
    BY <1>1 DEF Heads
  <2>2. k \notin pos..head - 1
    BY <2>1 DEF NextHeader
  <2> QED
    BY <1>1, <2>1, <2>2
<1>4. FirstHead(buf, pos) = head
  BY <1>1, <1>2, <1>3, FirstHeadIs
<1>5. /\ head \in 1..Len(buf) /\ buf[head] \in Cell
      /\ LastOf(buf, head) \in Nat /\ LastOf(buf, head) >= head + 1
  BY <1>1, <1>2, HeadType
<1>6. LastOf(buf, head) = LastCell(head)
  BY DEF LastOf, LastCell
<1>7. next \in 1..Len(buf) + 1 /\ left \in 0..FrameLimit /\ left # 0
      /\ left - 1 = FrameLimit - (slots + 1) /\ left - 1 \in 0..FrameLimit
  BY <1>1, <1>5, <1>6
<1>8. F[left][pos] = FromBody(F, buf, pos, left)
  BY <1>1, <1>7, FromUnfolds
<1>9. F[left][pos].frames = IntactFrame(buf, head) \o F[left - 1][next].frames
  <2> HIDE DEF F, left
  <2>1. ~(left = 0 \/ Heads(buf, pos) = {}) /\ ~(LastOf(buf, head) > Len(buf))
    BY <1>1, <1>2, <1>5, <1>6, <1>7
  <2> QED
    BY <1>4, <1>6, <1>8, <2>1 DEF FromBody
<1>10. F[left - 1][next].frames \in Seq(AnyCell)
  BY <1>1, <1>7, FramesType
<1>11. /\ IntactFrame(buf, head) \in Seq(AnyCell)
       /\ HasPvt(IntactFrame(buf, head)) <=>
              Intact(SubSeq(buf, head, LastCell(head))) /\ buf[head].shape.pvt
  <2>1. CASE Intact(SubSeq(buf, head, LastCell(head)))
    <3>1. IntactFrame(buf, head) = <<buf[head]>>
      BY <1>6, <2>1 DEF IntactFrame
    <3>2. <<buf[head]>> \in Seq(AnyCell) /\ Len(<<buf[head]>>) = 1 /\ <<buf[head]>>[1] = buf[head]
      BY <1>5 DEF AnyCell
    <3>3. HasPvt(<<buf[head]>>) <=> buf[head].shape.pvt
      BY <3>2 DEF HasPvt
    <3> QED
      BY <2>1, <3>1, <3>2, <3>3
  <2>2. CASE ~Intact(SubSeq(buf, head, LastCell(head)))
    <3>1. IntactFrame(buf, head) = <<>>
      BY <1>6, <2>2 DEF IntactFrame
    <3> QED
      BY <2>2, <3>1, NothingHasPvt, EmptySeq
  <2> QED
    BY <2>1, <2>2
<1>12. HasPvt(F[left][pos].frames) <=>
           HasPvt(IntactFrame(buf, head)) \/ HasPvt(F[left - 1][next].frames)
  BY <1>9, <1>10, <1>11, PvtConcat
<1> QED
  BY <1>7, <1>11, <1>12 DEF Remaining

LEMMA ExtractKeepsEpoch ==
    ASSUME EpochInv, ExtractFrame
    PROVE  EpochInv'
<1>1. PICK head \in pos..Len(buf) :
          /\ NextHeader(head) /\ LastCell(head) <= Len(buf)
          /\ delivered' = IF Intact(SubSeq(buf, head, LastCell(head)))
                          THEN Append(delivered, buf[head].frame) ELSE delivered
          /\ epochSeen' = (epochSeen \/ (Intact(SubSeq(buf, head, LastCell(head)))
                                            /\ buf[head].shape.pvt))
          /\ pos' = LastCell(head) + 1
  BY DEF ExtractFrame
<1>2. /\ UNCHANGED <<out, sent, pc, buf, wire, navGen>> /\ pc = "parse"
      /\ slots < FrameLimit /\ slots' = slots + 1
  BY DEF ExtractFrame, moduleVars
<1>3. StreamTypes /\ slots \in 0..FrameLimit
  BY DEF EpochInv
<1>4. /\ LastCell(head) + 1 \in 1..Len(buf) + 1
      /\ HasPvt(Remaining) <=>
             \/ Intact(SubSeq(buf, head, LastCell(head))) /\ buf[head].shape.pvt
             \/ HasPvt(From(buf, FrameLimit)[FrameLimit - (slots + 1)][LastCell(head) + 1].frames)
  BY <1>1, <1>2, <1>3, ExtractedPvt
<1>5. HasPvt(Remaining)' <=>
          HasPvt(From(buf, FrameLimit)[FrameLimit - (slots + 1)][LastCell(head) + 1].frames)
  BY <1>1, <1>2 DEF Remaining
<1>6. StreamTypes'
  <2>1. buf[head] \in Cell
    <3>1. head \in Heads(buf, 1) /\ buf \in Seq(AnyCell) /\ 1 \in Nat \ {0}
      <4>1. pos \in 1..Len(buf) + 1 /\ Len(buf) \in Nat /\ buf \in Seq(AnyCell)
        BY <1>3, LenProperties DEF StreamTypes
      <4>2. head \in 1..Len(buf) /\ IsHeader(buf, head)
        BY <1>1, <4>1 DEF NextHeader
      <4> QED
        BY <4>1, <4>2 DEF Heads
    <3> QED
      BY <3>1, HeadType
  <2>2. delivered' \in Seq(Nat)
    <3>1. buf[head].frame \in Nat /\ delivered \in Seq(Nat)
      BY <1>3, <2>1 DEF Cell, StreamTypes
    <3> QED
      BY <1>1, <3>1, AppendProperties
  <2> QED
    BY <1>1, <1>2, <1>3, <1>4, <2>2 DEF StreamTypes
<1>7. slots' \in 0..FrameLimit
  BY <1>2, <1>3, SizesAssumption
<1>8. PassHasPvt' = PassHasPvt
  BY <1>2 DEF PassHasPvt
<1> DEFINE pvt == Intact(SubSeq(buf, head, LastCell(head))) /\ buf[head].shape.pvt
<1>9. epochSeen' <=> epochSeen \/ pvt
  BY <1>1
<1>10. HasPvt(Remaining) <=> pvt \/ HasPvt(Remaining)'
  BY <1>4, <1>5
<1> HIDE DEF pvt
<1>11. /\ PassHasPvt => epochSeen \/ HasPvt(Remaining)
       /\ epochSeen /\ navGen > 0 => PassHasPvt
       /\ HasPvt(Remaining) => PassHasPvt
  BY <1>2 DEF EpochInv
<1>12. /\ PassHasPvt' => epochSeen' \/ HasPvt(Remaining)'
       /\ epochSeen' /\ navGen > 0 => PassHasPvt'
       /\ HasPvt(Remaining)' => PassHasPvt'
  BY <1>8, <1>9, <1>10, <1>11
<1> QED
  BY <1>2, <1>6, <1>7, <1>12 DEF EpochInv

(* When a pass ends, nothing with a NAV-PVT remains to be framed.          *)
LEMMA NothingRemains ==
    ASSUME EpochInv, NoMoreFrames \/ NoMoreSlots \/ UnfinishedFrame
    PROVE  ~HasPvt(Remaining)
<1> DEFINE F == From(buf, FrameLimit)
           left == FrameLimit - slots
<1>1. /\ buf \in Seq(AnyCell) /\ pos \in 1..Len(buf) + 1 /\ Len(buf) \in Nat
      /\ pos \in Nat \ {0} /\ FrameLimit \in Nat /\ left \in 0..FrameLimit
  BY LenProperties, SizesAssumption DEF EpochInv, StreamTypes
<1>2. F[left][pos] = FromBody(F, buf, pos, left)
  BY <1>1, FromUnfolds
<1> SUFFICES F[left][pos].frames = <<>>
  BY NothingHasPvt DEF Remaining
<1>3. CASE NoMoreSlots
  BY <1>1, <1>2, <1>3 DEF NoMoreSlots, FromBody, Nothing
<1>4. CASE NoMoreFrames
  <2>1. Heads(buf, pos) = {}
    BY <1>4 DEF NoMoreFrames, Heads
  <2> QED
    BY <1>2, <2>1 DEF FromBody, Nothing
<1>5. CASE UnfinishedFrame
  <2>1. PICK head \in pos..Len(buf) : NextHeader(head) /\ LastCell(head) > Len(buf)
    BY <1>5 DEF UnfinishedFrame
  <2>2. head \in Heads(buf, pos)
    BY <2>1 DEF NextHeader, Heads
  <2>3. \A k \in Heads(buf, pos) : head <= k
    <3> SUFFICES ASSUME NEW k \in Heads(buf, pos) PROVE head <= k
      OBVIOUS
    <3>1. k \in pos..Len(buf) /\ IsHeader(buf, k) /\ head \in Int
      BY <1>1 DEF Heads
    <3>2. k \notin pos..head - 1
      BY <2>1, <3>1 DEF NextHeader
    <3> QED
      BY <1>1, <3>1, <3>2
  <2>4. FirstHead(buf, pos) = head
    BY <1>1, <2>2, <2>3, FirstHeadIs
  <2>5. LastOf(buf, head) > Len(buf)
    BY <2>1 DEF LastOf, LastCell
  <2> HIDE DEF F, left
  <2> QED
    BY <1>2, <2>4, <2>5 DEF FromBody, Nothing
<1> QED
  BY <1>3, <1>4, <1>5

(* The end of a pass notifies exactly when a NAV-PVT was framed.           *)
LEMMA PassEndWakes ==
    ASSUME EpochInv, NoMoreFrames \/ NoMoreSlots \/ UnfinishedFrame
    PROVE  /\ Wakes
           /\ slots' = 0 /\ ~epochSeen' /\ pc' = "top"
<1>1. /\ pc = "parse"
      /\ navGen' = IF NewEpoch THEN navGen + 1 ELSE navGen
      /\ slots' = 0 /\ ~epochSeen' /\ pc' = "top"
  BY DEF NoMoreFrames, NoMoreSlots, UnfinishedFrame, EndPass
<1>2. ~HasPvt(Remaining)
  BY NothingRemains
<1>3. /\ PassHasPvt => epochSeen
      /\ epochSeen /\ navGen > 0 => PassHasPvt
  BY <1>1, <1>2 DEF EpochInv
<1> QED
  BY <1>1, <1>3 DEF Wakes, PassEnds, NewEpoch

(* No other step notifies or marks an epoch.                               *)
LEMMA OthersKeepEpoch ==
    ASSUME EpochInv, StreamTypes', UNCHANGED <<slots, epochSeen, navGen>>,
           pos' = pos, pc # "parse" \/ (pc' = pc /\ buf' = buf)
    PROVE  EpochInv' /\ Wakes
<1>1. Wakes
  BY DEF Wakes, PassEnds
<1>2. CASE pc # "parse"
  <2>1. slots = 0 /\ pos = 1 /\ ~(epochSeen /\ navGen > 0)
    BY <1>2 DEF EpochInv, StreamTypes
  <2>2. slots' = 0 /\ pos' = 1 /\ ~(epochSeen' /\ navGen' > 0)
    BY <2>1
  <2>3. HasPvt(Remaining)' = PassHasPvt'
    BY <2>2, SizesAssumption, ScanIsFrom DEF Remaining, PassHasPvt
  <2> QED
    BY <1>1, <2>2, <2>3, SizesAssumption DEF EpochInv
<1>3. CASE pc = "parse"
  BY <1>1, <1>3 DEF EpochInv, Remaining, PassHasPvt
<1> QED
  BY <1>2, <1>3

LEMMA ParseKeepsEpoch ==
    ASSUME EpochInv, StreamTypes',
           ExtractFrame \/ NoMoreFrames \/ NoMoreSlots \/ UnfinishedFrame
    PROVE  EpochInv' /\ Wakes
<1>1. CASE ExtractFrame
  <2>1. pc' = pc /\ pc = "parse" /\ navGen' = navGen
    BY <1>1 DEF ExtractFrame
  <2> QED
    BY <1>1, <2>1, ExtractKeepsEpoch DEF Wakes, PassEnds
<1>2. CASE NoMoreFrames \/ NoMoreSlots \/ UnfinishedFrame
  <2>1. Wakes /\ slots' = 0 /\ ~epochSeen' /\ pc' = "top"
    BY <1>2, PassEndWakes
  <2> QED
    BY <2>1, SizesAssumption DEF EpochInv
<1> QED
  BY <1>1, <1>2

LEMMA EpochBegins == ASSUME Init \/ UartInit PROVE EpochInv
<1>1. StreamTypes
  BY StreamBegins DEF StreamInv
<1>2. pc = "top" /\ slots = 0 /\ navGen = 0
  BY DEF Init, UartInit
<1> QED
  BY <1>1, <1>2, SizesAssumption DEF EpochInv

LEMMA SpiKeepsEpoch == EpochInv /\ StreamTypes' /\ [Next]_vars => EpochInv' /\ Wakes
<1> SUFFICES ASSUME EpochInv, StreamTypes', [Next]_vars PROVE EpochInv' /\ Wakes
  OBVIOUS
<1>1. CASE \E sh \in Shapes : Produce(sh)
  BY <1>1, OthersKeepEpoch DEF Produce, passVars, navVars
<1>2. CASE TxStep \/ RequestStop
  <2>1. UNCHANGED <<pc, passVars, navVars>>
    BY <1>2 DEF TxStep, RequestStop, TxTop, TxEdge, TxTimeout, TxCheck
  <2> QED
    BY <2>1, OthersKeepEpoch DEF passVars, navVars
<1>3. CASE LoopTop \/ SkipWait \/ Woken \/ WaitStopped \/ BufferLimit
  <2>1. UNCHANGED <<slots, pos, navVars>> /\ pc # "parse"
    BY <1>3 DEF LoopTop, SkipWait, Woken, WaitStopped, BufferLimit, passVars
  <2> QED
    BY <2>1, OthersKeepEpoch DEF navVars
<1>4. CASE ReadBatch
  BY <1>4, OthersKeepEpoch DEF ReadBatch
<1>5. CASE ExtractFrame \/ NoMoreFrames \/ NoMoreSlots \/ UnfinishedFrame
  BY <1>5, ParseKeepsEpoch
<1>6. CASE UNCHANGED vars
  BY <1>6, OthersKeepEpoch DEF vars
<1> QED
  BY <1>1, <1>2, <1>3, <1>4, <1>5, <1>6 DEF Next, UbloxStep, Terminated

LEMMA UartKeepsEpoch == EpochInv /\ StreamTypes' /\ UartNext => EpochInv' /\ Wakes
<1> SUFFICES ASSUME EpochInv, StreamTypes', UartNext PROVE EpochInv' /\ Wakes
  OBVIOUS
<1>1. CASE \E sh \in Shapes : SendMessage(sh)
  BY <1>1, OthersKeepEpoch DEF SendMessage, passVars, navVars
<1>2. CASE PollTop \/ PollTimesOut
  <2>1. UNCHANGED <<passVars, navVars>> /\ pc # "parse"
    BY <1>2 DEF PollTop, PollTimesOut
  <2> QED
    BY <2>1, OthersKeepEpoch DEF passVars, navVars
<1>3. CASE \E n \in 1..BufSize : PollReads(n)
  BY <1>3, OthersKeepEpoch DEF PollReads
<1>4. CASE ParsePass
  BY <1>4, ParseKeepsEpoch DEF ParsePass
<1>5. CASE StopRequest \/ Ended
  <2>1. UNCHANGED <<pc, passVars, navVars>>
    BY <1>5 DEF StopRequest, RequestStop, Ended, allVars, vars, passVars, navVars
  <2> QED
    BY <2>1, OthersKeepEpoch DEF passVars, navVars
<1> QED
  BY <1>1, <1>2, <1>3, <1>4, <1>5 DEF UartNext, PollStep

(* On either HAT a pass that frames a NAV-PVT wakes the navigation          *)
(* subscribers once, when it ends, and after the first wakeup nothing else  *)
(* does (navigationEpochSeen_, the notification at the end of execute()).   *)
THEOREM WakesOncePerEpoch == ReceiveSpec => OneWakeupPerEpoch
<1>1. ReceiveInit => StreamInv /\ EpochInv
  BY StreamBegins, EpochBegins DEF ReceiveInit
<1>2. StreamInv /\ [ReceiveNext]_allVars => StreamInv'
  BY ReceiveStaysInStream
<1>3. StreamInv' => StreamTypes'
  BY DEF StreamInv
<1>4. StreamInv /\ EpochInv /\ StreamInv' /\ [ReceiveNext]_allVars => EpochInv' /\ Wakes
  <2> SUFFICES ASSUME EpochInv, StreamTypes', [ReceiveNext]_allVars PROVE EpochInv' /\ Wakes
    BY <1>3
  <2>1. CASE UartNext
    BY <2>1, UartKeepsEpoch
  <2>2. CASE [Next]_vars
    BY <2>2, SpiKeepsEpoch
  <2> QED
    BY <2>1, <2>2 DEF ReceiveNext, SpiNext, allVars
<1>5. Wakes => [/\ PassEnds /\ HasPvt(Scan(buf, FrameLimit).frames) => navGen' = navGen + 1
                /\ navGen' # navGen /\ navGen > 0 =>
                       PassEnds /\ HasPvt(Scan(buf, FrameLimit).frames)]_vars
  BY DEF Wakes, PassHasPvt
<1> QED
  BY <1>1, <1>2, <1>4, <1>5, PTL DEF ReceiveSpec, OneWakeupPerEpoch
=============================================================================
