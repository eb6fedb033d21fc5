-------------------------- MODULE NtripServerProofs --------------------------
(***************************************************************************)
(* Proofs about NtripServer for any number of descriptors and faults: its  *)
(* state is well-typed, disconnect() leaves no monitor behind, and the     *)
(* reconnect loop holds one descriptor at a time.                          *)
(***************************************************************************)
EXTENDS NtripServer, TLAPS

(* Whoever is about to open a descriptor holds none of the connection       *)
(* before: connectInternal overwrites sockFd_ without looking at it.        *)
NothingHeld ==
    ctl \in {"idle", "resolve", "failed"} \/ mon = "resolve" => open \subseteq left

Inv == ServerTypeOK /\ QuietAfterDisconnect /\ OneDescriptor /\ NothingHeld

-----------------------------------------------------------------------------
(* connectInternal: what its steps do, whoever calls it                     *)

(* The types of what the steps of connectInternal change. *)
SocketType ==
    /\ sock \in Sockets \cup {NoSocket} /\ open \subseteq Sockets
    /\ link \in [Sockets -> {"none", "setup", "up", "gone"}]
    /\ faults \in 0..MaxFaults

LEMMA FailsType ==
    ASSUME faults \in 0..MaxFaults, Fails
    PROVE  faults' \in 0..MaxFaults
BY SocketsAssumption DEF Fails

LEMMA CloseSocketEffect ==
    ASSUME CloseSocket, OneDescriptor
    PROVE  open' \subseteq left /\ open' \subseteq open /\ sock' = NoSocket /\ link' = link
BY DEF CloseSocket, OneDescriptor

(* An attempt opens one descriptor at most, in sockFd_, and closes it if it *)
(* fails; it goes on or ends as an attempt.                                 *)
LEMMA ResolveEffect ==
    ASSUME SocketType, NEW at, NEW next, NEW failed, NEW stopped,
           Resolve(at, next, failed, stopped)
    PROVE  /\ SocketType' /\ at = "resolve" /\ next \in {"dial", failed}
           /\ open' \subseteq open \cup {sock'}
           /\ next = "dial" \/ (open' = open /\ sock' = sock)
<1>1. CASE ~stopped /\ NewSocket \in Sockets /\ sock' = NewSocket /\ open' = open \cup {NewSocket}
           /\ link' = [link EXCEPT ![NewSocket] = "setup"] /\ next = "dial" /\ UNCHANGED faults
  BY <1>1 DEF Resolve, SocketType
<1>2. CASE next = failed /\ UNCHANGED <<sock, open, link>> /\ (UNCHANGED faults \/ Fails)
  BY <1>2, FailsType DEF Resolve, SocketType
<1> QED
  BY <1>1, <1>2 DEF Resolve

LEMMA DialEffect ==
    ASSUME SocketType, OneDescriptor, NEW at, NEW next, NEW failed, NEW stopped,
           Dial(at, next, failed, stopped)
    PROVE  /\ SocketType' /\ at = "dial" /\ next \in {"post", failed}
           /\ (next = "post" /\ open' = open /\ sock' = sock) \/ open' \subseteq left
<1>1. CASE next = "post" /\ UNCHANGED <<sock, open, link, faults>>
  BY <1>1 DEF Dial, SocketType
<1>2. CASE next = failed /\ CloseSocket /\ (UNCHANGED faults \/ Fails)
  BY <1>2, FailsType, CloseSocketEffect DEF Dial, SocketType
<1> QED
  BY <1>1, <1>2 DEF Dial

LEMMA HandshakeEffect ==
    ASSUME SocketType, OneDescriptor, connected \in BOOLEAN, NEW at, NEW next, NEW failed,
           Handshake(at, next, failed)
    PROVE  /\ SocketType' /\ connected' \in BOOLEAN /\ at = "post" /\ next \in {"accepted", failed}
           /\ (next = "accepted" /\ open' = open /\ sock' = sock) \/ open' \subseteq left
<1>1. CASE link' = [link EXCEPT ![sock] = "up"] /\ connected' = TRUE /\ next = "accepted"
           /\ UNCHANGED <<sock, open, faults>>
  BY <1>1 DEF Handshake, SocketType
<1>2. CASE next = failed /\ CloseSocket /\ UNCHANGED connected /\ (UNCHANGED faults \/ Fails)
  BY <1>2, FailsType, CloseSocketEffect DEF Handshake, SocketType
<1> QED
  BY <1>1, <1>2 DEF Handshake

-----------------------------------------------------------------------------
(* The inductive invariant *)

LEMMA InitInv == ServerInit => Inv
<1> SUFFICES ASSUME ServerInit PROVE Inv
  OBVIOUS
<1>1. faults \in 0..MaxFaults
  BY SocketsAssumption DEF ServerInit
<1>2. link \in [Sockets -> {"none", "setup", "up", "gone"}]
  BY DEF ServerInit
<1> QED
  BY <1>1, <1>2 DEF ServerInit, Inv, ServerTypeOK, QuietAfterDisconnect, OneDescriptor, NothingHeld, Attempt

(* connect(): the monitor is quiet, so that nobody else opens or closes.    *)
LEMMA ConnectingInv ==
    ASSUME Inv, Connecting
    PROVE  Inv'
<1> USE DEF Inv
<1>1. SocketType /\ connected \in BOOLEAN /\ OneDescriptor
  BY DEF ServerTypeOK, SocketType
<1>2. CASE Resolve(ctl, ctl', "failed", FALSE) /\ UNCHANGED connected
  <2>1. SocketType' /\ ctl = "resolve" /\ ctl' \in {"dial", "failed"}
        /\ open' \subseteq open \cup {sock'}
        /\ (ctl' = "dial" \/ (open' = open /\ sock' = sock))
    BY <1>1, <1>2, ResolveEffect
  <2> QED
    BY <1>2, <2>1 DEF Connecting, ServerTypeOK, SocketType, QuietAfterDisconnect, OneDescriptor,
                      NothingHeld, Attempt
<1>3. CASE Dial(ctl, ctl', "failed", FALSE) /\ UNCHANGED connected
  <2>1. SocketType' /\ ctl = "dial" /\ ctl' \in {"post", "failed"}
        /\ ((ctl' = "post" /\ open' = open /\ sock' = sock) \/ open' \subseteq left)
    BY <1>1, <1>3, DialEffect
  <2> QED
    BY <1>3, <2>1 DEF Connecting, ServerTypeOK, SocketType, QuietAfterDisconnect, OneDescriptor,
                      NothingHeld, Attempt
<1>4. CASE Handshake(ctl, ctl', "failed")
  <2>1. SocketType' /\ connected' \in BOOLEAN /\ ctl = "post" /\ ctl' \in {"accepted", "failed"}
        /\ ((ctl' = "accepted" /\ open' = open /\ sock' = sock) \/ open' \subseteq left)
    BY <1>1, <1>4, HandshakeEffect
  <2> QED
    BY <1>4, <2>1 DEF Connecting, ServerTypeOK, SocketType, QuietAfterDisconnect, OneDescriptor,
                      NothingHeld, Attempt
<1> QED
  BY <1>2, <1>3, <1>4 DEF Connecting

(* The reconnect loop: connect() is not under way, the application may be   *)
(* in disconnect() but waits for the monitor before it returns.             *)
LEMMA ReconnectingInv ==
    ASSUME Inv, Reconnecting
    PROVE  Inv'
<1> USE DEF Inv
<1>1. SocketType /\ connected \in BOOLEAN /\ OneDescriptor
  BY DEF ServerTypeOK, SocketType
<1>2. CASE Resolve(mon, mon', "failed", stopToken) /\ UNCHANGED connected
  <2>1. SocketType' /\ mon = "resolve" /\ mon' \in {"dial", "failed"}
        /\ open' \subseteq open \cup {sock'}
        /\ (mon' = "dial" \/ (open' = open /\ sock' = sock))
    BY <1>1, <1>2, ResolveEffect
  <2> QED
    BY <1>2, <2>1 DEF Reconnecting, ServerTypeOK, SocketType, QuietAfterDisconnect, OneDescriptor,
                      NothingHeld, Attempt
<1>3. CASE Dial(mon, mon', "failed", stopToken) /\ UNCHANGED connected
  <2>1. SocketType' /\ mon = "dial" /\ mon' \in {"post", "failed"}
        /\ ((mon' = "post" /\ open' = open /\ sock' = sock) \/ open' \subseteq left)
    BY <1>1, <1>3, DialEffect
  <2> QED
    BY <1>3, <2>1 DEF Reconnecting, ServerTypeOK, SocketType, QuietAfterDisconnect, OneDescriptor,
                      NothingHeld, Attempt
<1>4. CASE Handshake(mon, mon', "failed")
  <2>1. SocketType' /\ connected' \in BOOLEAN /\ mon = "post" /\ mon' \in {"accepted", "failed"}
        /\ ((mon' = "accepted" /\ open' = open /\ sock' = sock) \/ open' \subseteq left)
    BY <1>1, <1>4, HandshakeEffect
  <2> QED
    BY <1>4, <2>1 DEF Reconnecting, ServerTypeOK, SocketType, QuietAfterDisconnect, OneDescriptor,
                      NothingHeld, Attempt
<1> QED
  BY <1>2, <1>3, <1>4 DEF Reconnecting

LEMMA NextInv == Inv /\ [ServerNext]_serverStateVars => Inv'
<1> SUFFICES ASSUME Inv, [ServerNext]_serverStateVars PROVE Inv'
  OBVIOUS
<1> USE DEF Inv, ServerTypeOK, QuietAfterDisconnect, OneDescriptor, NothingHeld, Attempt
<1>1. CASE SetAutoReconnect
  BY <1>1 DEF SetAutoReconnect
<1>2. CASE Connect
  BY <1>2 DEF Connect
<1>3. CASE Disconnect
  BY <1>3 DEF Disconnect
<1>4. CASE Connecting
  BY <1>4, ConnectingInv
<1>5. CASE StartMonitor
  BY <1>5 DEF StartMonitor
<1>6. CASE ConnectFails
  BY <1>6 DEF ConnectFails
<1>7. CASE Exchange
  BY <1>7 DEF Exchange
<1>8. CASE RequestMonitorStop
  BY <1>8 DEF RequestMonitorStop
<1>9. CASE Close
  BY <1>9 DEF Close, CloseSocket
<1>10. CASE JoinMonitor
  BY <1>10 DEF JoinMonitor
<1>11. CASE Feed
  BY <1>11 DEF Feed
<1>12. CASE SendAll
  BY <1>12 DEF SendAll
<1>13. CASE SendFailed
  BY <1>13 DEF SendFailed
<1>14. CASE WatchEnds
  BY <1>14 DEF WatchEnds
<1>15. CASE Poll
  BY <1>15 DEF Poll
<1>16. CASE Recv
  BY <1>16 DEF Recv
<1>17. CASE Decide
  BY <1>17 DEF Decide
<1>18. CASE GiveUp
  BY <1>18 DEF GiveUp
<1>19. CASE TryAgain
  BY <1>19 DEF TryAgain, CloseSocket
<1>20. CASE Reconnecting
  BY <1>20, ReconnectingInv
<1>21. CASE Reconnected
  BY <1>21 DEF Reconnected
<1>22. ASSUME NEW s \in Sockets, Drop(s)
       PROVE  Inv'
  BY <1>22, FailsType DEF Drop
<1>23. CASE UNCHANGED serverStateVars
  BY <1>23 DEF serverStateVars
<1> QED
  BY <1>1, <1>2, <1>3, <1>4, <1>5, <1>6, <1>7, <1>8, <1>9, <1>10, <1>11, <1>12, <1>13,
     <1>14, <1>15, <1>16, <1>17, <1>18, <1>19, <1>20, <1>21, <1>22, <1>23
  DEF ServerNext, CtlStep, MonStep

(* The threads, the descriptors and the connections behind them keep their  *)
(* types for every number of descriptors and faults.                        *)
THEOREM ServerTypeCorrect == ServerSpec => []ServerTypeOK
<1>1. Inv => ServerTypeOK
  BY DEF Inv
<1> QED
  BY <1>1, InitInv, NextInv, PTL DEF ServerSpec

(* disconnect() has returned only when the monitor has ended, in whatever   *)
(* step of a reconnect the call found it.                                   *)
THEOREM NoMonitorLeftBehind == ServerSpec => []QuietAfterDisconnect
<1>1. Inv => QuietAfterDisconnect
  BY DEF Inv
<1> QED
  BY <1>1, InitInv, NextInv, PTL DEF ServerSpec

(* However often an attempt fails or a connection is lost, all that is open *)
(* is sockFd_ and what the disconnect() before left open.                   *)
THEOREM ReconnectHoldsOneDescriptor == ServerSpec => []OneDescriptor
<1>1. Inv => OneDescriptor
  BY DEF Inv
<1> QED
  BY <1>1, InitInv, NextInv, PTL DEF ServerSpec
=============================================================================
