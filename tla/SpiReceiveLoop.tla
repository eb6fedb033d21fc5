--------------------------- MODULE SpiReceiveLoop ---------------------------
(***************************************************************************)
(* The receive path of the SPI HATs (NEO-M9N, NEO-F9P): the receiver's     *)
(* output buffer and its TX-READY line, the interrupt thread that turns    *)
(* edges into notifications (TxReady.hpp), and the ublox thread that waits,*)
(* drains the module in batches, frames what it read and announces a new   *)
(* navigation epoch (M9NRun::execute, UbxParser::extractFrames).           *)
(*                                                                         *)
(* Bytes are abstracted to cells. A frame is a run of cells that starts    *)
(* with its two sync cells; the second one stands for the rest of the      *)
(* header too, which says how many cells the frame claims to have (more    *)
(* than it has, if the header is corrupted).                               *)
(***************************************************************************)
EXTENDS Integers, Sequences, FiniteSets

CONSTANTS
    Shapes,        \* the frames the receiver may send (see ShapesAssumption)
    MaxFrames,     \* bound: how many frames it sends in a behaviour
    Batch,         \* rxBatchSize, in cells
    BufSize,       \* runRxBuffSize, in cells
    FrameLimit,    \* maxNumberOfFrames_
    Threshold,     \* cells waiting in the module that raise TX-READY
    EdgeCap        \* edge events the kernel queues for the line

ASSUME ShapesAssumption ==
    Shapes \subseteq [size : Nat \ {0, 1}, claim : Nat \ {0, 1}, ok : BOOLEAN, pvt : BOOLEAN]
ASSUME SizesAssumption ==
    /\ MaxFrames \in Nat
    /\ Batch \in Nat \ {0}
    /\ BufSize \in Nat /\ Batch <= BufSize
    /\ FrameLimit \in Nat \ {0}
    /\ Threshold \in Nat \ {0}
    /\ EdgeCap \in Nat

VARIABLES
    out,         \* cells waiting in the module's output buffer
    sent,        \* number of frames the module has produced
    edges,       \* edge events queued for the TX-READY line
    missed,      \* history: the line is high and its rising edge was never queued
    ready,       \* txReadyNotifier_.ready
    txPc,        \* the interrupt thread
    pc,          \* the ublox thread
    buf,         \* runRxBuff_[0 .. counter), or the carried frame between passes
    pos,         \* where extractFrames goes on searching (bufferBegin)
    slots,       \* its frameIndex
    drained,     \* the local `drained` of the pass
    more,        \* moreDataPending_
    epochSeen,   \* navigationEpochSeen_
    delivered,   \* the frames handed to the callbacks, in order
    navGen,      \* navigationNotifier_.generation
    stop,        \* stop requested on ubloxThread_
    wire,        \* history: every batch appended to the buffer so far
    lossy        \* history: a pass threw away the beginning of a frame

moduleVars == <<out, sent>>
lineVars   == <<edges, missed>>
passVars   == <<buf, pos, slots, drained, more>>
navVars    == <<epochSeen, delivered, navGen, wire, lossy>>
vars == <<out, sent, edges, missed, ready, txPc, pc, buf, pos, slots, drained, more,
          epochSeen, delivered, navGen, stop, wire, lossy>>

-----------------------------------------------------------------------------
(* Cells and frames *)

Idle == [frame |-> 0, part |-> 0]      \* an 0xFF clocked out by an empty module

FrameCells(f, sh) ==
    [k \in 1..sh.size |-> [frame |-> f, part |-> k, shape |-> sh]]

(* Both sync cells are there; the first one alone is not recognised. *)
IsHeader(cells, k) ==
    /\ k < Len(cells)
    /\ cells[k].part = 1 /\ cells[k + 1].part = 2

(* The checksum matches: the claimed cells are exactly one undamaged frame. *)
Intact(cells) ==
    /\ cells[1].shape.ok
    /\ Len(cells) = cells[1].shape.size
    /\ \A k \in 1..Len(cells) :
          cells[k].frame = cells[1].frame /\ cells[k].part = k

-----------------------------------------------------------------------------
(* The TX-READY line *)

High(cells) == Len(cells) >= Threshold

HasRise(es) == \E i \in 1..Len(es) : es[i] = "rise"

(* The line follows the module's buffer; the kernel queues the edge if it   *)
(* has room. `missed` records a high line whose rising edge was dropped.    *)
Rises == ~High(out) /\ High(out')
Falls == High(out) /\ ~High(out')
Room  == Len(edges) < EdgeCap

LineFollows ==
    \/ ~Rises /\ ~Falls /\ UNCHANGED lineVars
    \/ Rises /\ Room /\ edges' = Append(edges, "rise") /\ missed' = FALSE
    \/ Rises /\ ~Room /\ UNCHANGED edges /\ missed' = TRUE
    \/ Falls /\ Room /\ edges' = Append(edges, "fall") /\ missed' = FALSE
    \/ Falls /\ ~Room /\ UNCHANGED edges /\ missed' = FALSE

(* The receiver appends a whole message to its output buffer. *)
Produce(sh) ==
    /\ sent < MaxFrames
    /\ sent' = sent + 1
    /\ out' = out \o FrameCells(sent + 1, sh)
    /\ LineFollows
    /\ UNCHANGED <<ready, txPc, pc, passVars, navVars, stop>>

-----------------------------------------------------------------------------
(* The interrupt thread: TxReadyInterrupt::interruptHandler *)

(* The loop condition: txReady_ is destroyed once ubloxThread_ is joined. *)
TxTop ==
    /\ txPc = "top"
    /\ txPc' = IF pc = "done" THEN "done" ELSE "wait"
    /\ UNCHANGED <<moduleVars, lineVars, ready, pc, passVars, navVars, stop>>

(* waitEvent returned an edge; only a rising one notifies. *)
TxEdge ==
    /\ txPc = "wait"
    /\ edges # <<>>
    /\ edges' = Tail(edges)
    /\ ready' = (ready \/ Head(edges) = "rise")
    /\ txPc' = "top"
    /\ UNCHANGED <<moduleVars, missed, pc, passVars, navVars, stop>>

(* waitEvent timed out with no edge queued. *)
TxTimeout ==
    /\ txPc = "wait"
    /\ edges = <<>>
    /\ txPc' = "check"
    /\ UNCHANGED <<moduleVars, lineVars, ready, pc, passVars, navVars, stop>>

(* mutant: a timeout only goes round the loop. *)
TxCheckNothing ==
    /\ txPc = "check"
    /\ txPc' = "top"
    /\ UNCHANGED <<moduleVars, lineVars, ready, pc, passVars, navVars, stop>>

(* After a timeout the level is read: a high line notifies. *)
TxCheck ==
    /\ txPc = "check"
    /\ ready' = (ready \/ High(out))
    /\ txPc' = "top"
    /\ UNCHANGED <<moduleVars, lineVars, pc, passVars, navVars, stop>>

-----------------------------------------------------------------------------
(* The ublox thread: while (!stop_requested()) M9NRun::execute(stoken) *)

LoopTop ==
    /\ pc = "top"
    /\ pc' = IF stop THEN "done" ELSE "wait"
    /\ UNCHANGED <<moduleVars, lineVars, ready, txPc, passVars, navVars, stop>>

(* moreDataPending_ skips the wait. *)
SkipWait ==
    /\ pc = "wait"
    /\ more
    /\ pc' = "drain"
    /\ drained' = FALSE
    /\ UNCHANGED <<moduleVars, lineVars, ready, txPc, buf, pos, slots, more, navVars, stop>>

(* wait(stoken) saw `ready`, even when the stop was requested meanwhile. *)
Woken ==
    /\ pc = "wait"
    /\ ~more
    /\ ready
    /\ ready' = FALSE
    /\ pc' = "drain"
    /\ drained' = FALSE
    /\ UNCHANGED <<moduleVars, lineVars, txPc, buf, pos, slots, more, navVars, stop>>

(* wait(stoken) returned false; the loop re-reads the stop request. *)
WaitStopped ==
    /\ pc = "wait"
    /\ ~more
    /\ ~ready
    /\ stop
    /\ pc' = "top"
    /\ UNCHANGED <<moduleVars, lineVars, ready, txPc, passVars, navVars, stop>>

(* Another batch fits behind what the buffer holds. *)
Fits == Len(buf) + Batch <= BufSize

(* One SPI transaction: the module clocks out what it has, then idle cells. *)
BatchOf(cells) ==
    [k \in 1..Batch |-> IF k <= Len(cells) THEN cells[k] ELSE Idle]

ReadBatch ==
    /\ pc = "drain"
    /\ Fits
    /\ LET batch == BatchOf(out)
           idle  == \A k \in 1..Batch : batch[k] = Idle
       IN  IF idle
           THEN /\ drained' = TRUE
                /\ pc' = "parse"
                /\ UNCHANGED <<buf, wire>>
           ELSE /\ buf' = buf \o batch
                /\ wire' = wire \o batch
                /\ UNCHANGED <<drained, pc>>
    /\ out' = SubSeq(out, Batch + 1, Len(out))
    /\ LineFollows
    /\ UNCHANGED <<sent, ready, txPc, pos, slots, more, epochSeen, delivered, navGen, stop,
                   lossy>>

(* The batch loop ends because another batch no longer fits. *)
BufferLimit ==
    /\ pc = "drain"
    /\ ~Fits
    /\ pc' = "parse"
    /\ UNCHANGED <<moduleVars, lineVars, ready, txPc, passVars, navVars, stop>>

(* UbxParser::extractFrames searches the next header from pos. *)
NextHeader(head) ==
    /\ IsHeader(buf, head)
    /\ \A k \in pos..head - 1 : ~IsHeader(buf, k)

LastCell(head) == head + buf[head].shape.claim - 1

(* The claimed cells are all there: deliver them if the checksum matches,   *)
(* and go on behind them either way. Each takes one of frames_.             *)
ExtractFrame ==
    /\ pc = "parse"
    /\ slots < FrameLimit
    /\ slots' = slots + 1
    /\ \E head \in pos..Len(buf) :
          /\ NextHeader(head)
          /\ LastCell(head) <= Len(buf)
          /\ LET intact == Intact(SubSeq(buf, head, LastCell(head)))
             IN  /\ delivered' = IF intact THEN Append(delivered, buf[head].frame)
                                           ELSE delivered
                 /\ epochSeen' = (epochSeen \/ (intact /\ buf[head].shape.pvt))
          /\ pos' = LastCell(head) + 1
    /\ UNCHANGED <<moduleVars, lineVars, ready, txPc, pc, buf, drained, more, navGen, stop,
                   wire, lossy>>

(* The unfinished frame moves to the front of the buffer. *)
CarryNothing(unfinished) == buf' = <<>> /\ pos' = 1      \* mutant: discards it
CarryOver(unfinished) == buf' = unfinished /\ pos' = 1

(* A pass that stopped on a full buffer must not wait for an edge. *)
NeverPending == FALSE      \* mutant: always wait for TX-READY
MoreDataPending == ~drained

(* The navigation subscribers are woken when a NAV-PVT was parsed. *)
EveryPass == TRUE      \* mutant: every drain pass is an epoch
NewEpoch == epochSeen

(* What is not carried over is gone; a frame may have begun in it. *)
Discards(unfinished) ==
    unfinished = <<>> /\ \E k \in pos..Len(buf) : buf[k].part = 1

(* The end of execute(). *)
EndPass(unfinished) ==
    /\ lossy' = (lossy \/ Discards(unfinished))
    /\ CarryOver(unfinished)
    /\ slots' = 0
    /\ more' = MoreDataPending
    /\ navGen' = IF NewEpoch THEN navGen + 1 ELSE navGen
    /\ epochSeen' = FALSE
    /\ pc' = "top"
    /\ UNCHANGED <<moduleVars, lineVars, ready, txPc, drained, delivered, stop, wire>>

NoMoreFrames ==
    /\ pc = "parse"
    /\ slots < FrameLimit
    /\ \A k \in pos..Len(buf) : ~IsHeader(buf, k)
    /\ EndPass(<<>>)

(* frames_ is full: the rest of the buffer is not looked at. *)
NoMoreSlots ==
    /\ pc = "parse"
    /\ slots = FrameLimit
    /\ EndPass(<<>>)

UnfinishedFrame ==
    /\ pc = "parse"
    /\ slots < FrameLimit
    /\ \E head \in pos..Len(buf) :
          /\ NextHeader(head)
          /\ LastCell(head) > Len(buf)
          /\ EndPass(SubSeq(buf, head, Len(buf)))

(* ~GnssHat and stopUbloxThread request the stop. *)
RequestStop ==
    /\ ~stop
    /\ stop' = TRUE
    /\ UNCHANGED <<moduleVars, lineVars, ready, txPc, pc, passVars, navVars>>

(* Everything was joined. *)
Terminated ==
    /\ txPc = "done"
    /\ UNCHANGED vars

-----------------------------------------------------------------------------
(* The loop starts after the startup dialogue: the module may already hold  *)
(* a frame (its edge came before the line was requested), and the shared    *)
(* parser may still carry a NAV-PVT mark from the startup's own parsing.    *)
Init ==
    /\ \/ out = <<>> /\ sent = 0
       \/ sent = 1 /\ \E sh \in Shapes : out = FrameCells(1, sh)
    /\ edges = <<>>
    /\ missed = High(out)
    /\ ready = FALSE
    /\ txPc = "top"
    /\ pc = "top"
    /\ buf = <<>>
    /\ pos = 1
    /\ slots = 0
    /\ drained = FALSE
    /\ more = FALSE
    /\ epochSeen \in BOOLEAN
    /\ delivered = <<>>
    /\ navGen = 0
    /\ stop = FALSE
    /\ wire = <<>>
    /\ lossy = FALSE

UbloxStep == LoopTop \/ SkipWait \/ Woken \/ WaitStopped \/ ReadBatch \/ BufferLimit
              \/ ExtractFrame \/ NoMoreFrames \/ NoMoreSlots \/ UnfinishedFrame
TxStep == TxTop \/ TxEdge \/ TxTimeout \/ TxCheck

Next ==
    \/ \E sh \in Shapes : Produce(sh)
    \/ UbloxStep
    \/ TxStep
    \/ RequestStop
    \/ Terminated

Spec == Init /\ [][Next]_vars

-----------------------------------------------------------------------------
(* Type invariant: the buffer's bounds included *)

Cell == [frame : Nat \ {0}, part : Nat \ {0}, shape : Shapes]
AnyCell == Cell \cup {Idle}

TypeOK ==
    /\ out \in Seq(Cell)
    /\ sent \in Nat
    /\ edges \in Seq({"rise", "fall"}) /\ Len(edges) <= EdgeCap
    /\ missed \in BOOLEAN
    /\ ready \in BOOLEAN
    /\ txPc \in {"top", "wait", "check", "done"}
    /\ pc \in {"top", "wait", "drain", "parse", "done"}
    /\ buf \in Seq(AnyCell) /\ Len(buf) <= BufSize
    /\ pos \in Nat \ {0}
    /\ slots \in 0..FrameLimit
    /\ drained \in BOOLEAN
    /\ more \in BOOLEAN
    /\ epochSeen \in BOOLEAN
    /\ delivered \in Seq(Nat)
    /\ navGen \in Nat
    /\ stop \in BOOLEAN
    /\ wire \in Seq(AnyCell)
    /\ lossy \in BOOLEAN

(* The reference: framing a whole stream at once, for at most n frames.     *)
Scan(cells, n) ==
    LET from[left \in 0..n] ==
          [i \in 1..Len(cells) + 1 |->
             LET heads == {j \in i..Len(cells) : IsHeader(cells, j)}
                 head  == CHOOSE j \in heads : \A k \in heads : j <= k
                 last  == head + cells[head].shape.claim - 1
             IN  IF left = 0 \/ heads = {} THEN [frames |-> <<>>, rest |-> <<>>]
                 ELSE IF last > Len(cells)
                      THEN [frames |-> <<>>, rest |-> SubSeq(cells, head, Len(cells))]
                      ELSE [frames |-> (IF Intact(SubSeq(cells, head, last))
                                        THEN <<cells[head]>> ELSE <<>>)
                                       \o from[left - 1][last + 1].frames,
                            rest   |-> from[left - 1][last + 1].rest]]
    IN  from[n][1]

FrameIds(headers) == [i \in 1..Len(headers) |-> headers[i].frame]
HasPvt(headers) == \E i \in 1..Len(headers) : headers[i].shape.pvt

(* Framing in passes gives what framing the whole stream at once would:     *)
(* wherever a pass ended (buffer limit or idle module), no frame is lost,   *)
(* duplicated or reordered, and what is carried over is exactly the         *)
(* unfinished tail (M9NRun::execute, the copy to the front of runRxBuff_),  *)
(* as long as no pass threw the beginning of a frame away.                  *)
Framed ==
    /\ delivered = FrameIds(Scan(wire, Len(wire)).frames)
    /\ buf = Scan(wire, Len(wire)).rest
BetweenPasses == pc \in {"top", "wait", "done"}
PassesFrameTheStream == (BetweenPasses /\ ~lossy) => Framed

(* The loop never goes to sleep on a backlog: when it is about to block in  *)
(* wait() while TX-READY is high, a wakeup is on its way - `ready` is set,  *)
(* a rising edge is queued, or the edge never existed for it (then only the *)
(* interrupt thread's timeout can help).                                    *)
NeverSleepsOnBacklog ==
    (pc \in {"top", "wait"} /\ ~more /\ High(out)) =>
        (ready \/ HasRise(edges) \/ missed)

(* One navigation wakeup per epoch: a pass that frames a NAV-PVT notifies   *)
(* once when it ends, and after the first wakeup no other pass does (the    *)
(* first may be due to a NAV-PVT that the startup dialogue parsed).         *)
PassEnds == pc = "parse" /\ pc' = "top"

OneWakeupPerEpoch ==
    [][/\ PassEnds /\ HasPvt(Scan(buf, FrameLimit).frames) => navGen' = navGen + 1
       /\ navGen' # navGen /\ navGen > 0 =>
              PassEnds /\ HasPvt(Scan(buf, FrameLimit).frames)]_vars

(* The carried frame claims so many cells that the buffer may fill up, to   *)
(* less than a batch, before they are there.                                *)
ClaimsTooMuch == buf # <<>> /\ buf[1].shape.claim > BufSize - Batch + 1

(* A backlog that raised TX-READY is served although its edge was missed,   *)
(* unless the HAT is being stopped or a damaged length has the loop wait    *)
(* for more than its buffer can hold (then see NoBusyWait).                 *)
BacklogIsServed == High(out) ~> (~High(out) \/ stop \/ ClaimsTooMuch)
=============================================================================
