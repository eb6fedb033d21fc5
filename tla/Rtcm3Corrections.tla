-------------------------- MODULE Rtcm3Corrections --------------------------
(***************************************************************************)
(* RTK corrections on the F9P HAT. A base reads the receiver's RTCM3       *)
(* stream on its UART thread (F9PRun::executeUartBase), frames it          *)
(* (Rtcm3Parser) and keeps the last frame of each message type in          *)
(* Rtcm3Store, from which the application takes sets of corrections. A     *)
(* rover hands sets of frames to the same store, and its UART thread sends *)
(* them to the receiver (F9PRun::executeUartRover).                        *)
(*                                                                         *)
(* A cell stands for a few bytes: a frame begins with a preamble cell and  *)
(* the cell with its length. claims[k] is the length a frame would have if *)
(* cell k were its preamble, 0 if the cell does not look like one.         *)
(***************************************************************************)
EXTENDS Integers, Sequences, FiniteSets

CONSTANTS
    Ids,            \* the message types of a burst of the receiver: 1..n, sent in order
    Shapes,         \* the frames on the wire (see ShapesAssumption)
    MaxMessages,    \* bound: messages the receiver sends
    Backlog,        \* bound: cells waiting at the UART before it sends another
    BufSize,        \* uartBuffSize, in cells
    FieldLimit,     \* the longest frame its 10-bit length can claim
    FrameLimit,     \* maxNumberOfFrames_
    Requests,       \* the lists of message types the application asks a base for
    MaxCalls,       \* bound: calls of the application
    SetSizes        \* frames in a set of corrections a rover is given

ASSUME ShapesAssumption ==
    Shapes \subseteq [claims : Seq(Nat \ {1}), ok : BOOLEAN]
ASSUME IdsAssumption == IsFiniteSet(Ids) /\ Ids # {} /\ Ids = 1..Cardinality(Ids)
ASSUME RequestsAssumption == Requests \subseteq Seq(Ids)
ASSUME BoundsAssumption ==
    /\ MaxMessages \in Nat /\ Backlog \in Nat /\ MaxCalls \in Nat
    /\ FrameLimit \in Nat /\ BufSize \in Nat \ {0, 1}
    /\ FieldLimit \in Nat \ {0} /\ FieldLimit <= BufSize
    /\ SetSizes \subseteq Nat

VARIABLES
    mode,         \* "base" or "rover": config.rtk->mode
    uartPc,       \* the UART thread
    appPc,        \* the application thread
    stop,         \* stop requested on uart_
    guard,        \* xSemaphore_: who holds it
    out,          \* cells of the receiver waiting at the UART
    sent,         \* messages the receiver has sent
    buf,          \* uartBuff_[0 .. uartBuffOffset_)
    slots,        \* frameIndex of extractFrames
    pending,      \* frames_ that updateFrame has still to store
    frames,       \* Rtcm3Store::frames_: the burst each type was last stored from
    asked,        \* the types the running call has still to look up
    result,       \* what it has found: <<type, burst>>
    calls,        \* calls made so far
    incoming,     \* incomingFrames_
    ready,        \* roverNotifier_.ready
    sending,      \* the copy executeUartRover is transmitting
    applied,      \* the frames of the set being applied: <<set, frame, of how many>>
    received,     \* history: the frames the receiver got
    unwritten,    \* history: the frames cut short or lost by a failed write
    wire,         \* history: the cells read from the UART
    framed,       \* history: the frames the parser has accepted
    overflowed,   \* history: a pass found more than FrameLimit frames
    lost          \* history: a wait for the guard timed out

uartVars  == <<out, buf, slots, pending>>
storeVars == <<frames, incoming, ready>>
callVars  == <<appPc, asked, result, calls, applied>>
histVars  == <<wire, framed, overflowed, lost>>
vars == <<mode, uartPc, appPc, stop, guard, out, sent, buf, slots, pending, frames, asked, result,
          calls, incoming, ready, sending, applied, received, unwritten, wire, framed, overflowed,
          lost>>

-----------------------------------------------------------------------------
(* Frames *)

Burst(m) == ((m - 1) \div Cardinality(Ids)) + 1
Type(m)  == ((m - 1) % Cardinality(Ids)) + 1

Cells(m, sh) ==
    [k \in 1..Len(sh.claims) |-> [msg |-> m, part |-> k, claim |-> sh.claims[k], shape |-> sh]]

(* mutant: the length is taken from all sixteen bits. *)
ClaimedWide(cell) == cell.claim

(* The length field has ten bits whatever the bytes are. *)
Claimed(cell) == IF cell.claim > FieldLimit THEN FieldLimit ELSE cell.claim

(* checkFrame: the CRC matches over exactly one undamaged frame. *)
CheckFrame(cells) ==
    /\ cells[1].shape.ok
    /\ Len(cells) = Len(cells[1].shape.claims)
    /\ \A k \in 1..Len(cells) : cells[k].msg = cells[1].msg /\ cells[k].part = k

(* Where the next 0xD3 is; 0 if there is none. *)
Preamble(cells) ==
    LET at == {k \in 1..Len(cells) : cells[k].claim > 0}
    IN IF at = {} THEN 0 ELSE CHOOSE k \in at : \A j \in at : k <= j

(* One round of extractFrames. A frame that is not all there is carried to  *)
(* the next pass; a damaged one is skipped with the length it claims.       *)
ExtractOne(s) ==
    LET k == Preamble(s.rest)
        n == Claimed(s.rest[k])
        remaining == Len(s.rest) - k + 1
        frame == SubSeq(s.rest, k, k + n - 1)
    IN CASE s.over -> s
         [] ~s.over /\ k = 0 -> [s EXCEPT !.over = TRUE, !.rest = <<>>]
         [] ~s.over /\ k > 0 /\ (remaining < 2 \/ remaining < n) ->
                [s EXCEPT !.over = TRUE, !.rest = <<>>,
                          !.carry = SubSeq(s.rest, k, Len(s.rest))]
         [] OTHER ->
                [s EXCEPT !.rest = SubSeq(s.rest, k + n, Len(s.rest)),
                          !.got  = IF CheckFrame(frame) THEN Append(s.got, frame[1].msg)
                                   ELSE s.got]

Start(cells) == [rest |-> cells, got |-> <<>>, carry |-> <<>>, over |-> FALSE]

(* extractFrames with a table of `limit` frames; got is in stream order. *)
ExtractFrames(cells, limit) ==
    LET round[n \in 0..limit] ==
            IF n = 0 THEN Start(cells) ELSE ExtractOne(round[n - 1])
    IN round[limit]

-----------------------------------------------------------------------------
(* The guard of Rtcm3Store: takeResource(100 ms) and releaseResource *)

Take(p) == guard = "free" /\ guard' = p
Release == guard' = "free"
TimesOut(p) == guard \notin {"free", p} /\ lost' = TRUE /\ UNCHANGED guard

-----------------------------------------------------------------------------
(* A base *)

(* The receiver puts its next message on the line, perhaps damaged. *)
Emit(sh) ==
    /\ mode = "base" /\ sent < MaxMessages /\ Len(out) < Backlog
    /\ sent' = sent + 1
    /\ out' = out \o Cells(sent + 1, sh)
    /\ UNCHANGED <<mode, uartPc, stop, guard, buf, slots, pending, storeVars, callVars,
                   sending, received, unwritten, histVars>>

(* epoll() with room for the rest of the buffer, behind the carried frame. *)
ReadUart(n) ==
    /\ mode = "base" /\ uartPc = "top" /\ ~stop
    /\ n <= Len(out) /\ n <= BufSize - Len(buf)
    /\ out' = SubSeq(out, n + 1, Len(out))
    /\ buf' = buf \o SubSeq(out, 1, n)
    /\ wire' = wire \o SubSeq(out, 1, n)
    /\ slots' = 0
    /\ uartPc' = "extract"
    /\ UNCHANGED <<mode, stop, guard, sent, pending, storeVars, callVars, sending, received,
                   unwritten, framed, overflowed, lost>>

(* A round of extractFrames that finds a frame, intact or not. *)
ExtractFrame ==
    /\ uartPc = "extract" /\ slots < FrameLimit
    /\ \E round \in {ExtractOne(Start(buf))} :
       /\ ~round.over
       /\ buf' = round.rest
       /\ pending' = pending \o round.got
       /\ framed' = framed \o round.got
       /\ slots' = slots + 1
       /\ UNCHANGED <<mode, uartPc, stop, guard, sent, out, storeVars, callVars, sending,
                      received, unwritten, wire, overflowed, lost>>

(* mutant: a preamble whose length has not arrived is not carried. *)
ExtractEndsForgetful ==
    /\ uartPc = "extract"
    /\ \E round \in {ExtractOne(Start(buf))} :
       /\ slots < FrameLimit /\ round.over
       /\ buf' = IF Len(round.carry) < 2 THEN <<>> ELSE round.carry
       /\ uartPc' = "store"
       /\ UNCHANGED <<mode, stop, guard, sent, out, pending, slots, storeVars, callVars,
                      sending, received, unwritten, wire, framed, overflowed, lost>>

(* The last round: what may become a frame is carried. When the table is    *)
(* full the rest of the buffer is dropped.                                  *)
ExtractEnds ==
    /\ uartPc = "extract"
    /\ \E round \in {ExtractOne(Start(buf))} :
       /\ \/ slots < FrameLimit /\ round.over /\ buf' = round.carry /\ UNCHANGED overflowed
          \/ slots = FrameLimit /\ buf' = <<>> /\ overflowed' = (overflowed \/ buf # <<>>)
       /\ uartPc' = "store"
       /\ UNCHANGED <<mode, stop, guard, sent, out, pending, slots, storeVars, callVars,
                      sending, received, unwritten, wire, framed, lost>>

(* updateFrame of the next extracted frame: take, write, release. *)
UpdateFrame ==
    /\ uartPc = "store" /\ pending # <<>>
    /\ Take("uart")
    /\ uartPc' = "write"
    /\ UNCHANGED <<mode, stop, sent, uartVars, storeVars, callVars, sending, received,
                   unwritten, histVars>>

WriteFrame ==
    /\ uartPc = "write"
    /\ frames' = [frames EXCEPT ![Type(Head(pending))] = Burst(Head(pending))]
    /\ pending' = Tail(pending)
    /\ Release
    /\ uartPc' = "store"
    /\ UNCHANGED <<mode, stop, sent, out, buf, slots, incoming, ready, callVars, sending,
                   received, unwritten, histVars>>

UpdateTimesOut ==
    /\ uartPc = "store" /\ pending # <<>>
    /\ TimesOut("uart")
    /\ pending' = Tail(pending)
    /\ UNCHANGED <<mode, uartPc, stop, sent, out, buf, slots, storeVars, callVars, sending,
                   received, unwritten, wire, framed, overflowed>>

PassEnds ==
    /\ uartPc = "store" /\ pending = <<>>
    /\ uartPc' = "top"
    /\ UNCHANGED <<mode, stop, guard, sent, uartVars, storeVars, callVars, sending,
                   received, unwritten, histVars>>

(* getFullCorrections, getTinyCorrections, getRtcm3Frame: a list of types,  *)
(* looked up one after the other under the guard.                           *)
Ask(ids) ==
    /\ mode = "base" /\ appPc = "idle" /\ calls < MaxCalls
    /\ appPc' = "ask"
    /\ asked' = ids /\ result' = <<>>
    /\ calls' = calls + 1
    /\ UNCHANGED <<mode, uartPc, stop, guard, sent, uartVars, storeVars, applied, sending,
                   received, unwritten, histVars>>

(* mutant: every type is looked up under an acquisition of its own. *)
GetFramesUnguarded ==
    /\ appPc = "ask"
    /\ appPc' = "collect"
    /\ UNCHANGED <<mode, uartPc, stop, guard, sent, uartVars, storeVars, asked, result,
                   calls, applied, sending, received, unwritten, histVars>>

GetFrames ==
    /\ appPc = "ask"
    /\ Take("app")
    /\ appPc' = "collect"
    /\ UNCHANGED <<mode, uartPc, stop, sent, uartVars, storeVars, asked, result, calls,
                   applied, sending, received, unwritten, histVars>>

LookUp ==
    /\ appPc = "collect" /\ asked # <<>>
    /\ result' = IF frames[Head(asked)] = 0 THEN result
                 ELSE Append(result, <<Head(asked), frames[Head(asked)]>>)
    /\ asked' = Tail(asked)
    /\ UNCHANGED <<mode, uartPc, appPc, stop, guard, sent, uartVars, storeVars, calls,
                   applied, sending, received, unwritten, histVars>>

Collected ==
    /\ appPc = "collect" /\ asked = <<>>
    /\ Release
    /\ appPc' = "idle"
    /\ UNCHANGED <<mode, uartPc, stop, sent, uartVars, storeVars, asked, result, calls,
                   applied, sending, received, unwritten, histVars>>

AskTimesOut ==
    /\ appPc = "ask"
    /\ TimesOut("app")
    /\ appPc' = "idle"
    /\ UNCHANGED <<mode, uartPc, stop, sent, uartVars, storeVars, asked, result, calls,
                   applied, sending, received, unwritten, wire, framed, overflowed>>

-----------------------------------------------------------------------------
(* A rover *)

(* applyCorrections with a set of n frames: the call waits for the guard... *)
Apply(n) ==
    /\ mode = "rover" /\ appPc = "idle" /\ calls < MaxCalls
    /\ calls' = calls + 1
    /\ applied' = [k \in 1..n |-> <<calls + 1, k, n>>]
    /\ appPc' = "apply"
    /\ UNCHANGED <<mode, uartPc, stop, guard, sent, uartVars, storeVars, asked, result,
                   sending, received, unwritten, histVars>>

(* ... replaces the set that is waiting ...                                 *)
UpdateFrames ==
    /\ appPc = "apply"
    /\ Take("app")
    /\ incoming' = applied
    /\ appPc' = "applied"
    /\ UNCHANGED <<mode, uartPc, stop, sent, uartVars, frames, ready, asked, result, calls,
                   applied, sending, received, unwritten, histVars>>

ReleaseApplied ==
    /\ appPc = "applied"
    /\ Release
    /\ appPc' = "notify"
    /\ UNCHANGED <<mode, uartPc, stop, sent, uartVars, storeVars, asked, result, calls,
                   applied, sending, received, unwritten, histVars>>

(* mutant: and is not notified afterwards. *)
AndForget ==
    /\ appPc = "notify"
    /\ appPc' = "idle"
    /\ UNCHANGED <<mode, uartPc, stop, guard, sent, uartVars, storeVars, asked, result,
                   calls, applied, sending, received, unwritten, histVars>>

(* ... and notifies when it no longer holds the guard.                      *)
AndNotify ==
    /\ appPc = "notify"
    /\ ready' = TRUE
    /\ appPc' = "idle"
    /\ UNCHANGED <<mode, uartPc, stop, guard, sent, uartVars, frames, incoming, asked,
                   result, calls, applied, sending, received, unwritten, histVars>>

ApplyTimesOut ==
    /\ appPc = "apply"
    /\ TimesOut("app")
    /\ appPc' = "idle"
    /\ UNCHANGED <<mode, uartPc, stop, sent, uartVars, storeVars, asked, result, calls,
                   applied, sending, received, unwritten, wire, framed, overflowed>>

(* waitForFrames: roverNotifier_.wait(stoken) returned true. *)
Notified ==
    /\ mode = "rover" /\ uartPc = "wait" /\ ready
    /\ ready' = FALSE
    /\ uartPc' = "fetch"
    /\ UNCHANGED <<mode, stop, guard, sent, uartVars, frames, incoming, callVars, sending,
                   received, unwritten, histVars>>

WaitStopped ==
    /\ mode = "rover" /\ uartPc = "wait" /\ ~ready /\ stop
    /\ uartPc' = "top"
    /\ UNCHANGED <<mode, stop, guard, sent, uartVars, storeVars, callVars, sending,
                   received, unwritten, histVars>>

(* mutant: the waiting set is copied and not cleared. *)
WaitForFramesKeeps ==
    /\ uartPc = "fetch"
    /\ Take("uart")
    /\ sending' = incoming
    /\ uartPc' = "release"
    /\ UNCHANGED <<mode, stop, sent, uartVars, storeVars, callVars, received, unwritten,
                   histVars>>

(* The waiting set is copied and cleared under the guard. *)
WaitForFrames ==
    /\ uartPc = "fetch"
    /\ Take("uart")
    /\ sending' = incoming /\ incoming' = <<>>
    /\ uartPc' = "release"
    /\ UNCHANGED <<mode, stop, sent, uartVars, frames, ready, callVars, received, unwritten,
                   histVars>>

ReleaseFetched ==
    /\ uartPc = "release"
    /\ Release
    /\ uartPc' = "transmit"
    /\ UNCHANGED <<mode, stop, sent, uartVars, storeVars, callVars, sending, received,
                   unwritten, histVars>>

FetchTimesOut ==
    /\ uartPc = "fetch"
    /\ TimesOut("uart")
    /\ uartPc' = "top"
    /\ UNCHANGED <<mode, stop, sent, uartVars, storeVars, callVars, sending, received,
                   unwritten, wire, framed, overflowed>>

(* executeUartRover: every frame of the copy is handed to the driver, once, *)
(* whatever happens meanwhile. UartDriver::transmit writes once and does    *)
(* not wait: when the UART is not open, or takes only a part of the frame,  *)
(* it prints so, and what was not written is lost.                          *)
Transmit ==
    /\ uartPc = "transmit" /\ sending # <<>>
    /\ \/ received' = Append(received, Head(sending)) /\ UNCHANGED unwritten
       \/ unwritten' = unwritten \cup {Head(sending)} /\ UNCHANGED received
    /\ sending' = Tail(sending)
    /\ UNCHANGED <<mode, uartPc, stop, guard, sent, uartVars, storeVars, callVars, histVars>>

Transmitted ==
    /\ uartPc = "transmit" /\ sending = <<>>
    /\ uartPc' = "top"
    /\ UNCHANGED <<mode, stop, guard, sent, uartVars, storeVars, callVars, sending,
                   received, unwritten, histVars>>

-----------------------------------------------------------------------------
(* The thread's loop and ~F9PRun *)

LoopTop ==
    /\ uartPc = "top"
    /\ stop \/ mode = "rover"
    /\ uartPc' = IF stop THEN "done" ELSE "wait"
    /\ UNCHANGED <<mode, stop, guard, sent, uartVars, storeVars, callVars, sending,
                   received, unwritten, histVars>>

RequestStop ==
    /\ ~stop /\ stop' = TRUE
    /\ UNCHANGED <<mode, uartPc, guard, sent, uartVars, storeVars, callVars, sending,
                   received, unwritten, histVars>>

-----------------------------------------------------------------------------

Init ==
    /\ mode \in {"base", "rover"}
    /\ uartPc = "top" /\ appPc = "idle" /\ stop = FALSE /\ guard = "free"
    /\ out = <<>> /\ sent = 0 /\ buf = <<>> /\ slots = 0 /\ pending = <<>>
    /\ frames = [i \in Ids |-> 0]
    /\ asked = <<>> /\ result = <<>> /\ calls = 0 /\ applied = <<>>
    /\ incoming = <<>> /\ ready = FALSE /\ sending = <<>> /\ received = <<>> /\ unwritten = {}
    /\ wire = <<>> /\ framed = <<>> /\ overflowed = FALSE /\ lost = FALSE

UartBase == (\E n \in 1..BufSize : ReadUart(n)) \/ ExtractFrame \/ ExtractEnds
                \/ UpdateFrame \/ WriteFrame \/ UpdateTimesOut \/ PassEnds
UartRover == Notified \/ WaitStopped \/ WaitForFrames \/ ReleaseFetched \/ FetchTimesOut
                \/ Transmit \/ Transmitted
UartStep == LoopTop \/ UartBase \/ UartRover

(* The application's steps inside a call; Ask and Apply begin one. *)
CallStep == GetFrames \/ LookUp \/ Collected \/ AskTimesOut
                \/ UpdateFrames \/ ReleaseApplied \/ AndNotify \/ ApplyTimesOut

Begin == (\E ids \in Requests : Ask(ids)) \/ (\E n \in SetSizes : Apply(n))

Next ==
    \/ \E sh \in Shapes : Emit(sh)
    \/ Begin \/ CallStep \/ UartStep \/ RequestStop

Spec == Init /\ [][Next]_vars

(* Both threads are scheduled; nobody has to call, to send or to stop. *)
FairSpec == Spec /\ WF_vars(UartStep) /\ WF_vars(CallStep)

-----------------------------------------------------------------------------
(* Properties *)

TypeOK ==
    /\ mode \in {"base", "rover"}
    /\ uartPc \in {"top", "extract", "store", "write", "wait", "fetch", "release", "transmit", "done"}
    /\ appPc \in {"idle", "ask", "collect", "apply", "applied", "notify"}
    /\ stop \in BOOLEAN /\ ready \in BOOLEAN
    /\ guard \in {"free", "uart", "app"}
    /\ frames \in [Ids -> Nat]
    /\ asked \in Seq(Ids)
    /\ calls \in 0..MaxCalls /\ sent \in 0..MaxMessages
    /\ slots \in 0..FrameLimit           \* frames_ is never indexed past its end

(* Run.cpp:172: the UART thread reads behind the carried frame. It always   *)
(* finds room there, whatever the receiver or the line sends: a claimed     *)
(* length that never comes cannot wedge the base as it does the SPI path.   *)
RoomToRead == uartPc # "extract" => Len(buf) < BufSize

(* extractFrames: how the stream is cut into reads makes no difference to   *)
(* the frames found in it, damaged ones included, as long as no read holds  *)
(* more frames than the table.                                              *)
CutsDoNotMatter ==
    uartPc = "store" /\ ~overflowed => framed = ExtractFrames(wire, Len(wire)).got

(* getFrames: the application never gets a later message of a burst         *)
(* together with an earlier one of the burst before, and never two bursts   *)
(* that are not consecutive, as long as no frame was damaged or dropped.    *)
Undamaged == ~lost /\ ~overflowed /\ framed = [m \in 1..Len(framed) |-> m]

CorrectionsBelongTogether ==
    Undamaged =>
        \A i, j \in 1..Len(result) :
            /\ result[i][1] <= result[j][1] => result[j][2] <= result[i][2]
            /\ result[i][2] - result[j][2] <= 1

(* executeUartRover: the receiver gets the frames in the order of the sets  *)
(* and within them, none twice and none of a set in another, however the    *)
(* calls and the UART thread meet. When it gets a frame, every earlier one  *)
(* of the sets begun so far has arrived, or its write failed.               *)
Settled == {received[i] : i \in 1..Len(received)} \cup unwritten
Earlier(f, g) == f[1] < g[1] \/ (f[1] = g[1] /\ f[2] < g[2])

SetsSentInOrder ==
    \A j \in 1..Len(received) :
        /\ \A i \in 1..(j - 1) : Earlier(received[i], received[j])
        /\ \A f \in Settled : \A k \in 1..f[3] :
              Earlier(<<f[1], k, f[3]>>, received[j]) => <<f[1], k, f[3]>> \in Settled

(* applyCorrections: every frame of a set that is waiting arrives at the    *)
(* receiver or fails in its write, unless the application applies another   *)
(* set, the thread is stopped or a wait for the guard times out.            *)
Waiting(k) == incoming # <<>> /\ incoming[1][1] = k
AllSettled(f) == \A k \in 1..f[3] : <<f[1], k, f[3]>> \in Settled

NewestIsSent ==
    \A k \in 1..MaxCalls :
        Waiting(k) ~> calls > k \/ stop \/ lost \/ \E f \in Settled : f[1] = k /\ AllSettled(f)
=============================================================================
