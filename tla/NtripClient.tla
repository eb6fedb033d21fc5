----------------------------- MODULE NtripClient -----------------------------
(***************************************************************************)
(* NtripClient: receives the corrections of a caster for a rover. connect()*)
(* and disconnect() are called by the application, which also collects the *)
(* frames; a receive thread reads the socket, cuts the stream into frames  *)
(* and, with auto-reconnect, brings a lost connection back. A connection   *)
(* that is lost in the middle of a frame leaves that part in parseBuffer_, *)
(* before the first bytes of the next connection.                          *)
(*                                                                         *)
(* A cell stands for a few bytes: claims[k] is the length a frame would    *)
(* have if cell k were its preamble, 0 if the cell does not look like one, *)
(* and more than FieldLimit if its reserved bits are set.                  *)
(***************************************************************************)
EXTENDS Integers, Sequences

CONSTANTS
    Shapes,        \* the frames of the caster's stream (see ShapesAssumption)
    MaxMessages,   \* bound: frames the caster sends
    MaxFaults,     \* bound: failed attempts and lost connections
    Backlog,       \* bound: cells on the way before the caster sends another frame
    MinFrame,      \* the shortest frame, six bytes
    FieldLimit     \* the longest frame with its reserved bits clear

(* An intact frame tells its length.                                        *)
ASSUME ShapesAssumption ==
    /\ Shapes \subseteq [claims : Seq(Nat \ {1}), ok : BOOLEAN]
    /\ \A sh \in Shapes : sh.ok =>
          sh.claims # <<>> /\ sh.claims[1] = Len(sh.claims) /\ Len(sh.claims) <= FieldLimit
ASSUME BoundsAssumption ==
    /\ MaxMessages \in Nat /\ MaxFaults \in Nat /\ Backlog \in Nat
    /\ MinFrame \in Nat \ {0} /\ FieldLimit \in Nat

VARIABLES
    ctl,        \* the application thread in connect() and disconnect()
    rx,         \* the receive thread
    stop,       \* stop requested on recvThread_
    connected,  \* connected_
    auto,       \* autoReconnect_
    was,        \* what connected_.exchange(false) returned
    link,       \* the connection behind sockFd_; "none" for sockFd_ = -1
    pipe,       \* cells on their way on that connection
    sent,       \* frames the caster has sent
    faults,     \* what has failed so far
    buf,        \* parseBuffer_
    pending,    \* pendingFrames_
    collected,  \* history: the frames receiveFrames() has returned
    wire        \* history: the cells received since the buffers were last cleared

threadVars == <<ctl, rx, stop>>
flagVars   == <<connected, auto, was>>
netVars    == <<link, pipe, sent, faults>>
dataVars   == <<buf, pending, collected, wire>>
clientVars == <<ctl, rx, stop, connected, auto, was, link, pipe, sent, faults, buf, pending, collected, wire>>

-----------------------------------------------------------------------------
(* The caster and the network *)

Cells(m, sh) ==
    [k \in 1..Len(sh.claims) |-> [msg |-> m, part |-> k, claim |-> sh.claims[k], shape |-> sh]]

Prefix(s, n) == SubSeq(s, 1, n)
Rest(s, n)   == SubSeq(s, n + 1, Len(s))

Fails == faults < MaxFaults /\ faults' = faults + 1

CasterSends(sh) ==
    /\ link = "up" /\ sent < MaxMessages /\ Len(pipe) < Backlog
    /\ sent' = sent + 1
    /\ pipe' = pipe \o Cells(sent + 1, sh)
    /\ UNCHANGED <<threadVars, flagVars, link, faults, dataVars>>

(* The connection is lost, with what is still on the way after `n` cells. *)
Drop(n) ==
    /\ Fails
    /\ link = "up" /\ n <= Len(pipe)
    /\ link' = "gone" /\ pipe' = Prefix(pipe, n)
    /\ UNCHANGED <<threadVars, flagVars, sent, dataVars>>

-----------------------------------------------------------------------------
(* connectInternal: an attempt, then its outcome. Only the receive thread's *)
(* token can be stopped. Once the response is there it is not looked at     *)
(* again.                                                                   *)

Refused(at, next, failed) ==
    /\ at = "dial" /\ Fails
    /\ next = failed
    /\ link' = "none" /\ pipe' = <<>> /\ UNCHANGED <<connected, sent>>

Stopped(at, next, failed, stopped) ==
    /\ at = "dial" /\ stopped
    /\ next = failed
    /\ link' = "none" /\ pipe' = <<>> /\ UNCHANGED <<connected, sent, faults>>

Accepted(at, next) ==
    /\ at = "dial"
    /\ next = "accepted"
    /\ link' = "up" /\ pipe' = <<>> /\ UNCHANGED <<connected, sent, faults>>

(* The last line of connectInternal. *)
Established(at, next, ready) ==
    /\ at = "accepted"
    /\ next = ready
    /\ connected' = TRUE
    /\ UNCHANGED <<link, pipe, sent, faults>>

-----------------------------------------------------------------------------
(* The application *)

SetAutoReconnect ==
    /\ ctl = "idle"
    /\ auto' = ~auto
    /\ UNCHANGED <<threadVars, connected, was, netVars, dataVars>>

Connect ==
    /\ ctl = "idle"
    /\ ctl' = IF connected THEN "session" ELSE "dial"
    /\ UNCHANGED <<rx, stop, flagVars, netVars, dataVars>>

Connecting ==
    /\ \/ Refused(ctl, ctl', "idle")
       \/ Accepted(ctl, ctl')
       \/ Established(ctl, ctl', "spawn")
    /\ UNCHANGED <<rx, stop, auto, was, dataVars>>

StartReceiving ==
    /\ ctl = "spawn"
    /\ ctl' = "session"
    /\ rx' = "loop" /\ stop' = FALSE
    /\ UNCHANGED <<flagVars, netVars, dataVars>>

Disconnect ==
    /\ ctl = "session"
    /\ auto' = FALSE
    /\ ctl' = "exchange"
    /\ UNCHANGED <<rx, stop, connected, was, netVars, dataVars>>

Exchange ==
    /\ ctl = "exchange"
    /\ was' = connected /\ connected' = FALSE
    /\ ctl' = "request"
    /\ UNCHANGED <<rx, stop, auto, netVars, dataVars>>

RequestStop ==
    /\ ctl = "request"
    /\ stop' = TRUE
    /\ ctl' = IF was THEN "close" ELSE "join"
    /\ UNCHANGED <<rx, flagVars, netVars, dataVars>>

CloseSocket ==
    /\ ctl = "close"
    /\ link' = "none" /\ pipe' = <<>>
    /\ ctl' = "join"
    /\ UNCHANGED <<rx, stop, flagVars, sent, faults, dataVars>>

(* The buffers are cleared only if the connection was up. *)
Join ==
    /\ ctl = "join" /\ rx \in {"none", "done"}
    /\ ctl' = "idle"
    /\ IF was THEN buf' = <<>> /\ pending' = <<>> /\ wire' = <<>>
              ELSE UNCHANGED <<buf, pending, wire>>
    /\ UNCHANGED <<rx, stop, flagVars, netVars, collected>>

(* mutant: the frames are copied and stay where they are. *)
ReceiveFramesKeeps ==
    /\ ctl = "session" /\ rx # "extract"
    /\ collected' = collected \o pending
    /\ UNCHANGED <<threadVars, flagVars, netVars, buf, pending, wire>>

(* receiveFrames(): the swap waits for framesMutex_. *)
ReceiveFrames ==
    /\ ctl = "session" /\ rx # "extract"
    /\ collected' = collected \o pending
    /\ pending' = <<>>
    /\ UNCHANGED <<threadVars, flagVars, netVars, buf, wire>>

-----------------------------------------------------------------------------
(* receiveLoop() *)

LoopEnds ==
    /\ rx = "loop"
    /\ stop \/ ~connected
    /\ rx' = "decide"
    /\ UNCHANGED <<ctl, stop, flagVars, netVars, dataVars>>

(* netRecv() returned n cells; framesMutex_ is held until they are framed.  *)
(* Bytes behind the response header are framed the same way.                *)
Receive(n) ==
    /\ rx = "loop" /\ ~stop /\ connected
    /\ n <= Len(pipe)
    /\ buf' = buf \o Prefix(pipe, n)
    /\ wire' = wire \o Prefix(pipe, n)
    /\ pipe' = Rest(pipe, n)
    /\ rx' = "extract"
    /\ UNCHANGED <<ctl, stop, flagVars, link, sent, faults, pending, collected>>

ConnectionLost ==
    /\ rx = "loop" /\ ~stop /\ connected
    /\ pipe = <<>> /\ link \in {"gone", "none"}
    /\ connected' = FALSE
    /\ rx' = "decide"
    /\ UNCHANGED <<ctl, stop, auto, was, netVars, dataVars>>

(* The two decisions of the reconnect loop, and the end of the pause. *)
Decide ==
    /\ rx = "decide"
    /\ rx' = IF auto /\ ~stop THEN "backoff" ELSE "done"
    /\ UNCHANGED <<ctl, stop, flagVars, netVars, dataVars>>

PauseEnds ==
    /\ rx = "backoff"
    /\ IF stop \/ ~auto
       THEN rx' = "done" /\ UNCHANGED <<link, pipe>>
       ELSE rx' = "dial" /\ link' = "none" /\ pipe' = <<>>
    /\ UNCHANGED <<ctl, stop, flagVars, sent, faults, dataVars>>

Reconnecting ==
    /\ \/ Refused(rx, rx', "decide")
       \/ Stopped(rx, rx', "decide", stop)
       \/ Accepted(rx, rx')
       \/ Established(rx, rx', "loop")
    /\ UNCHANGED <<ctl, stop, auto, was, dataVars>>

-----------------------------------------------------------------------------
(* extractFrames *)

(* The CRC matches: exactly one undamaged frame. *)
CrcMatches(cells) ==
    /\ cells[1].shape.ok
    /\ Len(cells) = Len(cells[1].shape.claims)
    /\ \A k \in 1..Len(cells) : cells[k].msg = cells[1].msg /\ cells[k].part = k

AtPreamble == buf[1].claim > 0
Reserved   == buf[1].claim > FieldLimit
Claimed    == buf[1].claim

(* Bytes before the next preamble are discarded. *)
SkipToPreamble ==
    /\ rx = "extract" /\ Len(buf) >= MinFrame
    /\ ~AtPreamble
    /\ buf' = Rest(buf, 1)
    /\ UNCHANGED <<threadVars, flagVars, netVars, pending, collected, wire>>

(* mutant: a frame with a bad CRC is skipped with the length it claims. *)
SkipClaim ==
    /\ rx = "extract" /\ Len(buf) >= MinFrame
    /\ AtPreamble
    /\ \/ Reserved /\ buf' = Rest(buf, 1)
       \/ /\ ~Reserved /\ Claimed <= Len(buf) /\ ~CrcMatches(Prefix(buf, Claimed))
          /\ buf' = Rest(buf, Claimed)
    /\ UNCHANGED <<threadVars, flagVars, netVars, pending, collected, wire>>

(* Reserved bits or a bad CRC: only the preamble is skipped. *)
SkipPreamble ==
    /\ rx = "extract" /\ Len(buf) >= MinFrame
    /\ AtPreamble
    /\ \/ Reserved
       \/ ~Reserved /\ Claimed <= Len(buf) /\ ~CrcMatches(Prefix(buf, Claimed))
    /\ buf' = Rest(buf, 1)
    /\ UNCHANGED <<threadVars, flagVars, netVars, pending, collected, wire>>

TakeFrame ==
    /\ rx = "extract" /\ Len(buf) >= MinFrame
    /\ AtPreamble /\ ~Reserved /\ Claimed <= Len(buf) /\ CrcMatches(Prefix(buf, Claimed))
    /\ pending' = Append(pending, buf[1].msg)
    /\ buf' = Rest(buf, Claimed)
    /\ UNCHANGED <<threadVars, flagVars, netVars, collected, wire>>

NeedMoreData ==
    /\ rx = "extract"
    /\ \/ Len(buf) < MinFrame
       \/ Len(buf) >= MinFrame /\ AtPreamble /\ ~Reserved /\ Claimed > Len(buf)
    /\ rx' = "loop"
    /\ UNCHANGED <<ctl, stop, flagVars, netVars, dataVars>>

-----------------------------------------------------------------------------

ClientInit ==
    /\ ctl = "idle" /\ rx = "none" /\ stop = FALSE
    /\ connected = FALSE /\ auto \in BOOLEAN /\ was = FALSE
    /\ link = "none" /\ pipe = <<>> /\ sent = 0 /\ faults = 0
    /\ buf = <<>> /\ pending = <<>> /\ collected = <<>> /\ wire = <<>>

CtlStep == Connecting \/ StartReceiving \/ Exchange \/ RequestStop \/ CloseSocket \/ Join

RxStep ==
    \/ LoopEnds \/ ConnectionLost \/ Decide \/ PauseEnds \/ Reconnecting
    \/ \E n \in 1..Backlog + FieldLimit : Receive(n)
    \/ SkipToPreamble \/ SkipPreamble \/ TakeFrame \/ NeedMoreData

ClientNext ==
    \/ SetAutoReconnect \/ Connect \/ Disconnect \/ ReceiveFrames
    \/ CtlStep \/ RxStep
    \/ \E sh \in Shapes : CasterSends(sh)
    \/ \E n \in 0..Backlog + FieldLimit : Drop(n)

ClientSpec == ClientInit /\ [][ClientNext]_clientVars

-----------------------------------------------------------------------------
(* Properties *)

Receiving == {"loop", "extract", "decide", "backoff", "dial", "accepted"}

ClientTypeOK ==
    /\ ctl \in {"idle", "dial", "accepted", "spawn", "session", "exchange", "request", "close",
                "join"}
    /\ rx \in {"none", "done"} \cup Receiving
    /\ stop \in BOOLEAN /\ connected \in BOOLEAN /\ auto \in BOOLEAN /\ was \in BOOLEAN
    /\ link \in {"none", "up", "gone"}
    /\ sent \in 0..MaxMessages /\ faults \in 0..MaxFaults
    /\ pending \in Seq(1..MaxMessages) /\ collected \in Seq(1..MaxMessages)

(* extractFrames: a frame that arrived whole and undamaged is handed to the *)
(* application or still in the buffer, whatever came before it: a damaged   *)
(* frame, the torn end of the last connection, bytes that look like a       *)
(* preamble.                                                                *)
CellsOf(m, cells) == {k \in 1..Len(cells) : cells[k].msg = m}

Whole(m) == \E k \in CellsOf(m, wire) :
    /\ wire[k].part = 1 /\ wire[k].shape.ok
    /\ \A j \in 1..Len(wire[k].shape.claims) :
          k + j - 1 \in CellsOf(m, wire) /\ wire[k + j - 1].part = j

Handed(m) == \E i \in 1..Len(collected \o pending) : (collected \o pending)[i] = m

NoIntactFrameLost ==
    \A m \in 1..sent : Whole(m) =>
        Handed(m) \/ \A k \in CellsOf(m, wire) : \E j \in CellsOf(m, buf) : buf[j] = wire[k]

(* receiveFrames(): every frame at most once and in the order of the        *)
(* stream, over reconnects and across sessions.                             *)
FramesInOrder ==
    \A i, j \in 1..Len(collected \o pending) : i < j => (collected \o pending)[i] < (collected \o pending)[j]
=============================================================================
