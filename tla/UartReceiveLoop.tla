-------------------------- MODULE UartReceiveLoop --------------------------
(***************************************************************************)
(* The receive path of the TIME HAT (NEO-F10T), which has a UART and no    *)
(* TX-READY line: the ublox thread polls the port with a timeout           *)
(* (F10TRun::execute, UartDriver::epoll) and parses what it has when that  *)
(* is enough or when the line goes quiet. Parser, buffer and notification  *)
(* are those of SpiReceiveLoop; the HAT is found when the program starts.  *)
(***************************************************************************)
EXTENDS SpiReceiveLoop

CONSTANT ParseAt      \* parseThreshold, in cells

ASSUME ParseAtAssumption == ParseAt \in Nat \ {0} /\ ParseAt < BufSize

VARIABLE link         \* "spi" or "uart": the HAT

allVars == <<link, vars>>

tx == <<lineVars, ready, txPc>>      \* what only the SPI HATs have

(* The receiver sends a whole message; it waits at the port for the host.   *)
SendMessage(sh) ==
    /\ sent < MaxFrames
    /\ sent' = sent + 1
    /\ out' = out \o FrameCells(sent + 1, sh)
    /\ UNCHANGED <<link, tx, pc, passVars, navVars, stop>>

(* The loop around execute(); "short": the last one only read.              *)
PollTop ==
    /\ pc \in {"top", "short"}
    /\ pc' = IF stop THEN "ended" ELSE "poll"
    /\ UNCHANGED <<link, moduleVars, tx, passVars, navVars, stop>>

(* epoll() finds data and reads n cells behind what the buffer holds: all   *)
(* that has arrived, or as much as there is room for. It is parsed when it  *)
(* is enough.                                                               *)
PollReads(n) ==
    /\ pc = "poll"
    /\ n <= Len(out) /\ n <= BufSize - Len(buf)
    /\ out' = SubSeq(out, n + 1, Len(out))
    /\ buf' = buf \o SubSeq(out, 1, n)
    /\ wire' = wire \o SubSeq(out, 1, n)
    /\ pc' = IF Len(buf) + n >= ParseAt THEN "parse" ELSE "short"
    /\ UNCHANGED <<link, sent, tx, pos, slots, drained, more, epochSeen, delivered, navGen, stop,
                   lossy>>

(* The timeout: nothing has arrived, or nothing fits. Whatever is in the    *)
(* buffer is parsed now.                                                    *)
PollTimesOut ==
    /\ pc = "poll"
    /\ pc' = IF buf # <<>> THEN "parse" ELSE "top"
    /\ UNCHANGED <<link, moduleVars, tx, passVars, navVars, stop>>

(* parse(), the copy of the unfinished frame to the front, the notification *)
ParsePass ==
    /\ ExtractFrame \/ NoMoreFrames \/ NoMoreSlots \/ UnfinishedFrame
    /\ UNCHANGED link

StopRequest == RequestStop /\ UNCHANGED link

Ended == pc = "ended" /\ UNCHANGED allVars

(* `more` stands for "does not wait for TX-READY": always, on this HAT.     *)
UartInit ==
    /\ link = "uart"
    /\ \/ out = <<>> /\ sent = 0
       \/ sent = 1 /\ \E sh \in Shapes : out = FrameCells(1, sh)
    /\ edges = <<>> /\ missed = FALSE /\ ready = FALSE /\ txPc = "done"
    /\ pc = "top" /\ buf = <<>> /\ pos = 1 /\ slots = 0
    /\ drained = FALSE /\ more = TRUE
    /\ epochSeen \in BOOLEAN
    /\ delivered = <<>> /\ navGen = 0 /\ stop = FALSE /\ wire = <<>> /\ lossy = FALSE

PollStep == PollTop \/ (\E n \in 1..BufSize : PollReads(n)) \/ PollTimesOut \/ ParsePass

UartNext ==
    \/ \E sh \in Shapes : SendMessage(sh)
    \/ PollStep \/ StopRequest \/ Ended

-----------------------------------------------------------------------------
(* The program on either HAT *)

SpiNext == Next /\ UNCHANGED link

ReceiveInit == UartInit \/ (link = "spi" /\ Init)
ReceiveNext == (link = "uart" /\ UartNext) \/ (link = "spi" /\ SpiNext)

(* The threads are scheduled; a timed wait ends, and the receiver need not  *)
(* send. What waits at the UART is read in the end: a poll times out only   *)
(* while the next cell is still on the line. Nobody has to stop the loop.   *)
ReceiveSpec ==
    /\ ReceiveInit /\ [][ReceiveNext]_allVars
    /\ WF_allVars(link = "spi" /\ UbloxStep /\ UNCHANGED link)
    /\ WF_allVars(link = "spi" /\ TxStep /\ UNCHANGED link)
    /\ WF_allVars(link = "uart" /\ PollStep)
    /\ SF_allVars(link = "uart" /\ \E n \in 1..BufSize : PollReads(n))

-----------------------------------------------------------------------------
(* README.md says of the data flow: event-driven, "with no busy-wait        *)
(* loops". A pass that leaves no room to read into cannot wait for          *)
(* anything: the SPI loop skips its wait (moreDataPending_), the poll of    *)
(* the UART loop returns at once while there is something to read. So no    *)
(* loop may stay without room.                                              *)
RoomLeft == IF link = "spi" THEN Fits ELSE Len(buf) < BufSize \/ out = <<>>
=============================================================================
