----------------------------- MODULE NtripServer -----------------------------
(***************************************************************************)
(* NtripServer: pushes the corrections of a base to a remote caster. The   *)
(* application connects and disconnects on one thread and feeds on another *)
(* one (it need not be another); a monitor thread watches the connection   *)
(* and, with auto-reconnect, brings it back after a pause. sockFd_ and     *)
(* connected_ are shared by all three without a lock.                      *)
(*                                                                         *)
(* The application calls connect() first, and again only after             *)
(* disconnect() or a connect() that returned false, as the callers in the  *)
(* repository do. A descriptor is never reused: its number names the       *)
(* connection it was opened for.                                           *)
(***************************************************************************)
EXTENDS Integers, FiniteSets

CONSTANTS
    MaxSockets,    \* bound: descriptors opened in a behaviour
    MaxFaults      \* bound: failed attempts and lost connections

ASSUME SocketsAssumption == MaxSockets \in Nat /\ MaxFaults \in Nat

Sockets == 1..MaxSockets
NoSocket == 0                \* sockFd_ = -1

VARIABLES
    ctl,         \* the application thread in connect() and disconnect()
    feeder,      \* the application thread in feed()
    mon,         \* the monitor thread
    stopToken,        \* stop requested on monitorThread_
    connected,   \* connected_
    auto,        \* autoReconnect_
    was,         \* what connected_.exchange(false) returned
    sock,        \* sockFd_
    open,        \* descriptors that are not closed
    link,        \* the connection behind each descriptor
    faults,      \* what has failed so far
    left         \* history: the descriptors open when disconnect() last returned

serverStateVars == <<ctl, feeder, mon, stopToken, connected, auto, was, sock, open, link, faults, left>>

-----------------------------------------------------------------------------
(* Descriptors *)

Opened == {s \in Sockets : link[s] # "none"}
NewSocket == Cardinality(Opened) + 1

Alive(s) == s # NoSocket /\ s \in open /\ link[s] # "gone"

(* tls_.close(), close(sockFd_) and sockFd_ = -1. *)
CloseSocket == open' = open \ {sock} /\ sock' = NoSocket /\ UNCHANGED link

Fails == faults < MaxFaults /\ faults' = faults + 1

(* The caster or the network drops a connection. *)
Drop(s) ==
    /\ Fails
    /\ s \in open /\ link[s] \in {"setup", "up"}
    /\ link' = [link EXCEPT ![s] = "gone"]
    /\ UNCHANGED <<ctl, feeder, mon, stopToken, connected, auto, was, sock, open, left>>

-----------------------------------------------------------------------------
(* connectInternal: the steps of both callers. pc is the caller's position  *)
(* before and pc' after the step; the monitor's token may be stopped, the   *)
(* one of connect() never is.                                               *)

(* getaddrinfo, then the token, then a new socket in sockFd_. *)
Resolve(at, next, failed, stopped) ==
    /\ at = "resolve"
    /\ \/ /\ ~stopped /\ NewSocket \in Sockets
          /\ sock' = NewSocket /\ open' = open \cup {NewSocket}
          /\ link' = [link EXCEPT ![NewSocket] = "setup"]
          /\ next = "dial" /\ UNCHANGED faults
       \/ /\ stopped /\ next = failed
          /\ UNCHANGED <<sock, open, link, faults>>
       \/ /\ Fails /\ next = failed
          /\ UNCHANGED <<sock, open, link>>

(* mutant: a connection attempt that fails leaves its socket behind. *)
DialLeaks(at, next, failed, stopped) ==
    /\ at = "dial"
    /\ \/ ~stopped /\ next = "post" /\ UNCHANGED <<sock, open, link, faults>>
       \/ stopped /\ next = failed /\ CloseSocket /\ UNCHANGED faults
       \/ Fails /\ next = failed /\ sock' = NoSocket /\ UNCHANGED <<open, link>>

(* connect() and poll() until it is done, refused, timed out or stopped. *)
Dial(at, next, failed, stopped) ==
    /\ at = "dial"
    /\ \/ ~stopped /\ next = "post" /\ UNCHANGED <<sock, open, link, faults>>
       \/ stopped /\ next = failed /\ CloseSocket /\ UNCHANGED faults
       \/ Fails /\ next = failed /\ CloseSocket

(* TLS and the POST request, then the response within 3 s: it accepts, or   *)
(* it refuses, is incomplete or does not come.                              *)
Handshake(at, next, failed) ==
    /\ at = "post"
    /\ \/ /\ Alive(sock)
          /\ link' = [link EXCEPT ![sock] = "up"]
          /\ connected' = TRUE
          /\ next = "accepted" /\ UNCHANGED <<sock, open, faults>>
       \/ /\ ~Alive(sock) \/ Fails
          /\ Alive(sock) \/ UNCHANGED faults
          /\ next = failed /\ CloseSocket /\ UNCHANGED connected

-----------------------------------------------------------------------------
(* connect(), setAutoReconnect() *)

SetAutoReconnect ==
    /\ ctl = "idle"
    /\ auto' = ~auto
    /\ UNCHANGED <<ctl, feeder, mon, stopToken, connected, was, sock, open, link, faults, left>>

Connect ==
    /\ ctl = "idle"
    /\ ctl' = IF connected THEN "session" ELSE "resolve"
    /\ UNCHANGED <<feeder, mon, stopToken, connected, auto, was, sock, open, link, faults, left>>

(* connect() inside connectInternal(); a failed attempt ends the call,      *)
(* unless the monitor is to go on trying.                                   *)
Connecting ==
    /\ \/ Resolve(ctl, ctl', "failed", FALSE) /\ UNCHANGED connected
       \/ Dial(ctl, ctl', "failed", FALSE) /\ UNCHANGED connected
       \/ Handshake(ctl, ctl', "failed")
    /\ UNCHANGED <<feeder, mon, stopToken, auto, was, left>>

StartMonitor ==
    /\ ctl = "accepted" \/ (ctl = "failed" /\ auto)
    /\ ctl' = "session"
    /\ mon' = "watch" /\ stopToken' = FALSE
    /\ UNCHANGED <<feeder, connected, auto, was, sock, open, link, faults, left>>

ConnectFails ==
    /\ ctl = "failed" /\ ~auto
    /\ ctl' = "idle"
    /\ left' = open
    /\ UNCHANGED <<feeder, mon, stopToken, connected, auto, was, sock, open, link, faults>>

-----------------------------------------------------------------------------
(* disconnect() *)

Disconnect ==
    /\ ctl = "session"
    /\ auto' = FALSE
    /\ ctl' = "exchange"
    /\ UNCHANGED <<feeder, mon, stopToken, connected, was, sock, open, link, faults, left>>

Exchange ==
    /\ ctl = "exchange"
    /\ was' = connected /\ connected' = FALSE
    /\ ctl' = "request"
    /\ UNCHANGED <<feeder, mon, stopToken, auto, sock, open, link, faults, left>>

(* mutant: a connection that is already lost needs no join. *)
RequestMonitorStopHasty ==
    /\ ctl = "request"
    /\ stopToken' = TRUE
    /\ ctl' = IF was THEN "close" ELSE "idle"
    /\ left' = IF was THEN left ELSE open
    /\ UNCHANGED <<feeder, mon, connected, auto, was, sock, open, link, faults>>

(* request_stop() and reconnectCv_.notify_all(); only a connection that     *)
(* was up is closed here.                                                   *)
RequestMonitorStop ==
    /\ ctl = "request"
    /\ stopToken' = TRUE
    /\ ctl' = IF was THEN "close" ELSE "join"
    /\ UNCHANGED <<feeder, mon, connected, auto, was, sock, open, link, faults, left>>

Close ==
    /\ ctl = "close"
    /\ CloseSocket
    /\ ctl' = "join"
    /\ UNCHANGED <<feeder, mon, stopToken, connected, auto, was, faults, left>>

JoinMonitor ==
    /\ ctl = "join" /\ mon \in {"none", "done"}
    /\ ctl' = "idle"
    /\ left' = open
    /\ UNCHANGED <<feeder, mon, stopToken, connected, auto, was, sock, open, link, faults>>

-----------------------------------------------------------------------------
(* feed(): what it checks first may have changed when it sends. *)

Feed ==
    /\ feeder = "idle"
    /\ connected /\ sock # NoSocket
    /\ feeder' = "send"
    /\ UNCHANGED <<ctl, mon, stopToken, connected, auto, was, sock, open, link, faults, left>>

SendAll ==
    /\ feeder = "send"
    /\ feeder' = IF Alive(sock) THEN "idle" ELSE "failed"
    /\ UNCHANGED <<ctl, mon, stopToken, connected, auto, was, sock, open, link, faults, left>>

(* A send that failed marks the connection lost, whichever it is by now. *)
SendFailed ==
    /\ feeder = "failed"
    /\ connected' = FALSE
    /\ feeder' = "idle"
    /\ UNCHANGED <<ctl, mon, stopToken, auto, was, sock, open, link, faults, left>>

-----------------------------------------------------------------------------
(* monitorLoop() *)

(* mutant: the loop ends with the connection only. *)
WatchEndsDeaf ==
    /\ mon = "watch"
    /\ ~connected
    /\ mon' = "decide"
    /\ UNCHANGED <<ctl, feeder, stopToken, connected, auto, was, sock, open, link, faults, left>>

WatchEnds ==
    /\ mon = "watch"
    /\ stopToken \/ ~connected
    /\ mon' = "decide"
    /\ UNCHANGED <<ctl, feeder, stopToken, connected, auto, was, sock, open, link, faults, left>>

(* poll() reports the descriptor it was given ... *)
Poll ==
    /\ mon = "watch" /\ ~stopToken /\ connected
    /\ sock # NoSocket /\ ~Alive(sock)
    /\ mon' = "recv"
    /\ UNCHANGED <<ctl, feeder, stopToken, connected, auto, was, sock, open, link, faults, left>>

(* ... and netRecv() finds that it is closed, by the caster or by us. *)
Recv ==
    /\ mon = "recv"
    /\ connected' = FALSE
    /\ mon' = "decide"
    /\ UNCHANGED <<ctl, feeder, stopToken, auto, was, sock, open, link, faults, left>>

(* mutant: one attempt, and the monitor ends if it fails. *)
DecideOnce ==
    /\ mon \in {"decide", "failed"}
    /\ mon' = IF auto /\ ~stopToken /\ mon = "decide" THEN "backoff" ELSE "done"
    /\ UNCHANGED <<ctl, feeder, stopToken, connected, auto, was, sock, open, link, faults, left>>

(* After a lost connection and after a failed attempt. *)
Decide ==
    /\ mon \in {"decide", "failed"}
    /\ mon' = IF auto /\ ~stopToken THEN "backoff" ELSE "done"
    /\ UNCHANGED <<ctl, feeder, stopToken, connected, auto, was, sock, open, link, faults, left>>

(* The pause is over, or was cut short; the old socket is closed. *)
GiveUp ==
    /\ mon = "backoff" /\ (stopToken \/ ~auto)
    /\ mon' = "done"
    /\ UNCHANGED <<ctl, feeder, stopToken, connected, auto, was, sock, open, link, faults, left>>

TryAgain ==
    /\ mon = "backoff" /\ ~stopToken /\ auto
    /\ CloseSocket
    /\ mon' = "resolve"
    /\ UNCHANGED <<ctl, feeder, stopToken, connected, auto, was, faults, left>>

Reconnecting ==
    /\ \/ Resolve(mon, mon', "failed", stopToken) /\ UNCHANGED connected
       \/ Dial(mon, mon', "failed", stopToken) /\ UNCHANGED connected
       \/ Handshake(mon, mon', "failed")
    /\ UNCHANGED <<ctl, feeder, stopToken, auto, was, left>>

Reconnected ==
    /\ mon = "accepted"
    /\ mon' = "watch"
    /\ UNCHANGED <<ctl, feeder, stopToken, connected, auto, was, sock, open, link, faults, left>>

-----------------------------------------------------------------------------

ServerInit ==
    /\ ctl = "idle" /\ feeder = "idle" /\ mon = "none" /\ stopToken = FALSE
    /\ connected = FALSE /\ auto \in BOOLEAN /\ was = FALSE
    /\ sock = NoSocket /\ open = {} /\ link = [s \in Sockets |-> "none"]
    /\ faults = 0 /\ left = {}

CtlStep == Connecting \/ StartMonitor \/ ConnectFails \/ Exchange \/ RequestMonitorStop \/ Close \/ JoinMonitor

MonStep == WatchEnds \/ Poll \/ Recv \/ Decide \/ GiveUp \/ TryAgain \/ Reconnecting
               \/ Reconnected

ServerNext ==
    \/ SetAutoReconnect \/ Connect \/ Disconnect \/ CtlStep
    \/ Feed \/ SendAll \/ SendFailed
    \/ MonStep
    \/ \E s \in Sockets : Drop(s)

ServerSpec == ServerInit /\ [][ServerNext]_serverStateVars

(* The threads are scheduled and none of their system calls blocks for ever *)
(* (poll 500 ms, connect 5 s, header 3 s). Nobody has to call anything.     *)
ServerFairness ==
    WF_serverStateVars(CtlStep) /\ WF_serverStateVars(SendAll \/ SendFailed) /\ WF_serverStateVars(MonStep)

ServerFairSpec == ServerSpec /\ ServerFairness

-----------------------------------------------------------------------------
(* Properties *)

Attempt == {"resolve", "dial", "post", "accepted", "failed"}

ServerTypeOK ==
    /\ ctl \in {"idle", "session", "exchange", "request", "close", "join"} \cup Attempt
    /\ mon \in {"none", "watch", "recv", "decide", "backoff", "done"} \cup Attempt
    /\ feeder \in {"idle", "send", "failed"}
    /\ stopToken \in BOOLEAN /\ connected \in BOOLEAN /\ auto \in BOOLEAN /\ was \in BOOLEAN
    /\ sock \in Sockets \cup {NoSocket}
    /\ open \subseteq Sockets /\ left \subseteq Sockets
    /\ link \in [Sockets -> {"none", "setup", "up", "gone"}]
    /\ faults \in 0..MaxFaults

(* disconnect(): no monitor is left behind when it has returned, whatever   *)
(* it was doing; one that still runs would bring the connection back or     *)
(* race the next connect() for sockFd_.                                     *)
QuietAfterDisconnect == ctl \in {"idle"} \cup Attempt => mon \in {"none", "done"}

(* connectInternal, monitorLoop: however often the caster refuses, drops or *)
(* does not answer, the reconnect loop holds one descriptor at a time.      *)
(* (`left` is what disconnect() did not close; see the README.)             *)
OneDescriptor == open \subseteq left \cup {sock}

(* With auto-reconnect a lost connection comes back, unless the application *)
(* disconnects, once the failures have stopped.                             *)
ComesBack ==
    (mon \notin {"none", "done"} /\ auto /\ ~connected) ~>
        (connected \/ ~auto \/ Opened = Sockets)

(* disconnect() joins the monitor, wherever that is: it always returns. *)
DisconnectReturns == []<>(ctl \notin {"exchange", "request", "close", "join"})
=============================================================================
