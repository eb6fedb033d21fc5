---------------------------- MODULE PublicCaster ----------------------------
(***************************************************************************)
(* The public caster (ntrip-caster-pub): its mountpoint is whatever the    *)
(* source that POSTs calls it, and only rovers that ask for that name are  *)
(* served. Every connection has a handler thread; the mountpoint, the      *)
(* lists of connections, the analyzer of the stream and the source table   *)
(* have a mutex each, so one request takes several of them in turn.        *)
(*                                                                         *)
(* A connection is named by its peer; peers come back after their handler  *)
(* is joined. A wrong method or password is the request "refused". The     *)
(* threads that stop() has yet to join run beside it. Without TLS.         *)
(***************************************************************************)
EXTENDS Integers, FiniteSets

CONSTANTS
    Peers,        \* bound: connections, and handlers not yet joined, at a time
    Asks,         \* per peer: the requests it may send, <<method, mountpoint>>
    Slow,         \* bound: peers whose receive window may fill up
    MaxClients    \* maxClients_

NoPeer == "nobody"
App == "application"
NoMount == ""

ASSUME LimitAssumption == MaxClients \in Nat
ASSUME PublicNamesAssumption == {NoPeer, App} \cap Peers = {}
ASSUME PeersAssumption == Slow \subseteq Peers

VARIABLES
    serving,      \* running_
    server,       \* the listening socket is open
    acceptPc,     \* the accept thread
    stopPc,       \* the thread in stop()
    handlers,     \* clientThreads_: handlers not yet joined
    mount,        \* activeMountpoint_
    active,       \* activeSourceFd_
    clients,      \* clients_
    sources,      \* sources_
    lock,         \* who broadcasts under clientsMutex_
    info,         \* sourceInfo_
    heard,        \* whose data is in analyzer_
    pc,           \* per handler
    opened,       \* connections whose descriptor is open
    shut,         \* ... and shut down
    requests,     \* per peer: its request, <<>> while it is silent
    gone,         \* peers that hung up
    full,         \* peers that do not read
    overtaken     \* history: sources beside which another one has claimed the mountpoint

serverVars == <<serving, server, acceptPc, stopPc, handlers>>
mountVars == <<mount, active, overtaken>>
listVars == <<clients, sources, lock>>
connVars == <<opened, shut, requests, gone, full>>
publicVars == <<serverVars, mountVars, listVars, info, heard, pc, connVars>>

Goto(p, where) == pc' = [pc EXCEPT ![p] = where]

(* close(): nothing more is heard of the peer. *)
CloseFd(p) ==
    /\ opened' = opened \ {p} /\ shut' = shut \ {p}
    /\ requests' = [requests EXCEPT ![p] = <<>>]
    /\ gone' = gone \ {p} /\ full' = full \ {p}

EndHandler(p) == Goto(p, "ended") /\ CloseFd(p)

-----------------------------------------------------------------------------
(* The peers *)

PeerAsks(p) ==
    /\ p \in opened \ gone /\ requests[p] = <<>>
    /\ \E r \in Asks[p] : requests' = [requests EXCEPT ![p] = r]
    /\ UNCHANGED <<serverVars, mountVars, listVars, info, heard, pc, opened, shut, gone, full>>

HangUp(p) ==
    /\ p \in opened \ gone
    /\ gone' = gone \cup {p}
    /\ UNCHANGED <<serverVars, mountVars, listVars, info, heard, pc, opened, shut, requests, full>>

(* A rover's receive window fills up between two broadcasts, and empties. *)
Stall(p) ==
    /\ p \in (Slow \cap clients) \ (full \cup gone) /\ lock = NoPeer
    /\ full' = full \cup {p}
    /\ UNCHANGED <<serverVars, mountVars, listVars, info, heard, pc, opened, shut, requests, gone>>

Resume(p) ==
    /\ p \in full
    /\ full' = full \ {p}
    /\ UNCHANGED <<serverVars, mountVars, listVars, info, heard, pc, opened, shut, requests, gone>>

-----------------------------------------------------------------------------
(* acceptLoop *)

AcceptTop ==
    /\ acceptPc = "top"
    /\ acceptPc' = IF serving THEN "accept" ELSE "ended"
    /\ UNCHANGED <<serving, server, stopPc, handlers, mountVars, listVars, info, heard, pc, connVars>>

(* Finished handlers are joined, then a new one is spawned. *)
Accept(p) ==
    /\ acceptPc = "accept" /\ server
    /\ pc[p] = "off"
    /\ opened' = opened \cup {p}
    /\ pc' = [q \in Peers |-> IF q = p THEN "request"
                              ELSE IF q \in handlers /\ pc[q] = "ended" THEN "off" ELSE pc[q]]
    /\ handlers' = {q \in handlers : pc[q] # "ended"} \cup {p}
    /\ acceptPc' = "top"
    /\ UNCHANGED <<serving, server, stopPc, mountVars, listVars, info, heard, shut, requests, gone, full>>

AcceptFails ==
    /\ acceptPc = "accept" /\ ~server
    /\ acceptPc' = "ended"
    /\ UNCHANGED <<serving, server, stopPc, handlers, mountVars, listVars, info, heard, pc, connVars>>

-----------------------------------------------------------------------------
(* handleClient: the request *)

Method(p) == requests[p][1]
Mount(p)  == requests[p][2]

(* What a request has to find under mountMutex_: the mountpoint it names,   *)
(* or no source yet. The sourcetable is answered and that is all.           *)
Admits(p) ==
    \/ Method(p) = "GET" /\ Mount(p) # NoMount /\ Mount(p) = mount
    \/ Method(p) = "POST" /\ active = NoPeer

RecvRequest(p) ==
    /\ pc[p] = "request" /\ requests[p] # <<>>
    /\ IF Admits(p) THEN Goto(p, "limit") /\ UNCHANGED connVars ELSE EndHandler(p)
    /\ UNCHANGED <<serverVars, mountVars, listVars, info, heard>>

RecvNothing(p) ==
    /\ pc[p] = "request" /\ requests[p] = <<>> /\ p \in gone
    /\ EndHandler(p)
    /\ UNCHANGED <<serverVars, mountVars, listVars, info, heard>>

(* Both kinds are counted against the clients; then "ICY 200 OK" is sent,   *)
(* which fails, or does not fail yet, when the peer hung up.                *)
CheckLimit(p) ==
    /\ pc[p] = "limit" /\ lock = NoPeer
    /\ \/ Cardinality(clients) >= MaxClients /\ EndHandler(p)
       \/ /\ Cardinality(clients) < MaxClients
          /\ Goto(p, IF Method(p) = "POST" THEN "claim" ELSE "register")
          /\ UNCHANGED connVars
       \/ Cardinality(clients) < MaxClients /\ p \in gone /\ EndHandler(p)
    /\ UNCHANGED <<serverVars, mountVars, listVars, info, heard>>

-----------------------------------------------------------------------------
(* handleClient: a source *)

(* The handler is a source between its claim and its release. *)
SourcePcs == {"track", "reset", "inform", "relay", "relaying", "untrack", "release"}
Streams(p) == pc[p] \in SourcePcs \/ (pc[p] \in {"serve", "recv", "leave"} /\ Method(p) = "POST")

Claim(p) ==
    /\ pc[p] = "claim"
    /\ mount' = Mount(p) /\ active' = p
    /\ overtaken' = {q \in Peers \ {p} : Streams(q)}
    /\ Goto(p, "track")
    /\ UNCHANGED <<serverVars, listVars, info, heard, connVars>>

Track(p) ==
    /\ pc[p] = "track" /\ lock = NoPeer
    /\ sources' = sources \cup {p}
    /\ Goto(p, "reset")
    /\ UNCHANGED <<serverVars, mountVars, clients, lock, info, heard, connVars>>

ResetAnalyzer(p) ==
    /\ pc[p] = "reset"
    /\ heard' = {}
    /\ Goto(p, "inform")
    /\ UNCHANGED <<serverVars, mountVars, listVars, info, connVars>>

Inform(p) ==
    /\ pc[p] = "inform"
    /\ info' = info \cup {p}
    /\ Goto(p, "serve")
    /\ UNCHANGED <<serverVars, mountVars, listVars, heard, connVars>>

(* netRecv and the analyzer; what was sent before the end arrives, too. *)
RecvChunk(p) ==
    /\ pc[p] = "recv" /\ Method(p) = "POST"
    /\ heard' = heard \cup {p}
    /\ Goto(p, "relay")
    /\ UNCHANGED <<serverVars, mountVars, listVars, info, connVars>>

(* mutant: the descriptor is closed before the source leaves the status page. *)
UntrackAndClose(p) ==
    /\ pc[p] = "leave" /\ Method(p) = "POST" /\ lock = NoPeer
    /\ sources' = sources \ {p}
    /\ opened' = opened \ {p}
    /\ Goto(p, "untrack")
    /\ UNCHANGED <<serverVars, mountVars, clients, lock, info, heard, shut, requests, gone, full>>

Untrack(p) ==
    /\ pc[p] = "leave" /\ Method(p) = "POST" /\ lock = NoPeer
    /\ sources' = sources \ {p}
    /\ Goto(p, "untrack")
    /\ UNCHANGED <<serverVars, mountVars, clients, lock, info, heard, connVars>>

Uninform(p) ==
    /\ pc[p] = "untrack"
    /\ info' = info \ {p}
    /\ Goto(p, "release")
    /\ UNCHANGED <<serverVars, mountVars, listVars, heard, connVars>>

(* mutant: whoever leaves frees the mountpoint. *)
ReleaseAny(p) ==
    /\ pc[p] = "release"
    /\ active' = NoPeer /\ mount' = NoMount
    /\ Goto(p, "close")
    /\ UNCHANGED <<serverVars, overtaken, listVars, info, heard, connVars>>

Release(p) ==
    /\ pc[p] = "release"
    /\ IF active = p THEN active' = NoPeer /\ mount' = NoMount
                     ELSE UNCHANGED <<active, mount>>
    /\ Goto(p, "close")
    /\ UNCHANGED <<serverVars, overtaken, listVars, info, heard, connVars>>

-----------------------------------------------------------------------------
(* handleClient: a rover, and what both kinds do *)

(* registerClient *)
Register(p) ==
    /\ pc[p] = "register" /\ lock = NoPeer
    /\ clients' = clients \cup {p}
    /\ Goto(p, "serve")
    /\ UNCHANGED <<serverVars, mountVars, sources, lock, info, heard, connVars>>

ServeTop(p) ==
    /\ pc[p] = "serve"
    /\ Goto(p, IF serving THEN "recv" ELSE "leave")
    /\ UNCHANGED <<serverVars, mountVars, listVars, info, heard, connVars>>

(* What a rover sends is discarded. *)
Discard(p) ==
    /\ pc[p] = "recv" /\ Method(p) = "GET" /\ p \notin shut \cup gone
    /\ Goto(p, "serve")
    /\ UNCHANGED <<serverVars, mountVars, listVars, info, heard, connVars>>

RecvEnds(p) ==
    /\ pc[p] = "recv" /\ p \in gone \cup shut
    /\ Goto(p, "leave")
    /\ UNCHANGED <<serverVars, mountVars, listVars, info, heard, connVars>>

(* removeClient *)
Remove(p) ==
    /\ pc[p] = "leave" /\ Method(p) = "GET" /\ lock = NoPeer
    /\ clients' = clients \ {p}
    /\ Goto(p, "close")
    /\ UNCHANGED <<serverVars, mountVars, sources, lock, info, heard, connVars>>

CloseConnection(p) ==
    /\ pc[p] = "close"
    /\ EndHandler(p)
    /\ UNCHANGED <<serverVars, mountVars, listVars, info, heard>>

-----------------------------------------------------------------------------
(* Broadcasting under clientsMutex_: the relay of a source, and feed() *)

BeginFeed ==
    /\ lock = NoPeer /\ lock' = App
    /\ UNCHANGED <<serverVars, mountVars, clients, sources, info, heard, pc, connVars>>

BeginRelay(p) ==
    /\ pc[p] = "relay" /\ lock = NoPeer /\ lock' = p
    /\ Goto(p, "relaying")
    /\ UNCHANGED <<serverVars, mountVars, clients, sources, info, heard, connVars>>

(* The clients that failed are erased and shut down, so their handlers end. *)
DropDead(dead) == clients' = clients \ dead /\ shut' = shut \cup dead

(* sendAll waits for every client that is there and does not read; a peer   *)
(* that hung up fails, or does not fail yet.                                *)
EndCast(b) ==
    /\ lock = b /\ lock' = NoPeer
    /\ full \cap clients \subseteq gone \cup shut
    /\ \E late \in SUBSET (gone \cap clients) : DropDead((clients \cap shut) \cup late)
    /\ IF b = App THEN UNCHANGED pc ELSE Goto(b, "serve")
    /\ UNCHANGED <<serverVars, mountVars, sources, info, heard, opened, requests, gone, full>>

-----------------------------------------------------------------------------
(* stop() and start() *)

CallStop ==
    /\ serving
    /\ serving' = FALSE
    /\ stopPc' = "closing"
    /\ UNCHANGED <<server, acceptPc, handlers, mountVars, listVars, info, heard, pc, connVars>>

CloseServer ==
    /\ stopPc = "closing"
    /\ server' = FALSE
    /\ stopPc' = "joinAccept"
    /\ UNCHANGED <<serving, acceptPc, handlers, mountVars, listVars, info, heard, pc, connVars>>

JoinAccept ==
    /\ stopPc = "joinAccept" /\ acceptPc = "ended"
    /\ stopPc' = "shutting"
    /\ UNCHANGED <<serving, server, acceptPc, handlers, mountVars, listVars, info, heard, pc, connVars>>

(* mutant: the connections of the sources are not shut down. *)
ShutDownClients ==
    /\ stopPc = "shutting" /\ lock = NoPeer
    /\ shut' = shut \cup clients
    /\ stopPc' = "joining"
    /\ UNCHANGED <<serving, server, acceptPc, handlers, mountVars, listVars, info, heard, pc, opened,
                   requests, gone, full>>

ShutDownSockets ==
    /\ stopPc = "shutting" /\ lock = NoPeer
    /\ shut' = shut \cup clients \cup sources
    /\ stopPc' = "joining"
    /\ UNCHANGED <<serving, server, acceptPc, handlers, mountVars, listVars, info, heard, pc, opened,
                   requests, gone, full>>

JoinHandlers ==
    /\ stopPc = "joining" /\ \A p \in handlers : pc[p] = "ended"
    /\ handlers' = {}
    /\ pc' = [p \in Peers |-> IF p \in handlers THEN "off" ELSE pc[p]]
    /\ stopPc' = "clearing"
    /\ UNCHANGED <<serving, server, acceptPc, mountVars, listVars, info, heard, connVars>>

ClearLists ==
    /\ stopPc = "clearing" /\ lock = NoPeer
    /\ clients' = {} /\ sources' = {}
    /\ stopPc' = "stopped"
    /\ UNCHANGED <<serving, server, acceptPc, handlers, mountVars, lock, info, heard, pc, connVars>>

StartServer ==
    /\ stopPc = "stopped"
    /\ serving' = TRUE /\ server' = TRUE
    /\ acceptPc' = "top" /\ stopPc' = "no"
    /\ UNCHANGED <<handlers, mountVars, listVars, info, heard, pc, connVars>>

-----------------------------------------------------------------------------
(* A caster that start() made listen. *)
PublicInit ==
    /\ serving = TRUE /\ server = TRUE /\ acceptPc \in {"top", "accept"} /\ stopPc = "no" /\ handlers = {}
    /\ mount = NoMount /\ active = NoPeer /\ overtaken = {}
    /\ clients = {} /\ sources = {} /\ lock = NoPeer
    /\ info = {} /\ heard = {}
    /\ pc = [p \in Peers |-> "off"]
    /\ opened = {} /\ shut = {} /\ gone = {} /\ full = {}
    /\ requests = [p \in Peers |-> <<>>]

HandleRequest(p) == RecvRequest(p) \/ RecvNothing(p) \/ CheckLimit(p)
Source(p) == Claim(p) \/ Track(p) \/ ResetAnalyzer(p) \/ Inform(p)
                \/ Untrack(p) \/ Uninform(p) \/ Release(p)
Rover(p) == Register(p) \/ Remove(p)
HandlerStep(p) == HandleRequest(p) \/ Source(p) \/ Rover(p) \/ ServeTop(p) \/ RecvEnds(p)
                \/ CloseConnection(p) \/ BeginRelay(p)
StopStep == CloseServer \/ JoinAccept \/ ShutDownSockets \/ JoinHandlers \/ ClearLists

PublicNext ==
    \/ AcceptTop \/ AcceptFails \/ BeginFeed \/ CallStop \/ StopStep \/ StartServer
    \/ \E p \in Peers :
          \/ Accept(p) \/ HandlerStep(p) \/ RecvChunk(p) \/ Discard(p)
          \/ PeerAsks(p) \/ HangUp(p) \/ Stall(p) \/ Resume(p)
    \/ \E b \in Peers \cup {App} : EndCast(b)

PublicSpec == PublicInit /\ [][PublicNext]_publicVars

(* The threads run, and a mutex asked for again and again is had. Nothing   *)
(* is assumed of the peers: there is no timeout that makes one go on.       *)
PublicFairness ==
    /\ WF_publicVars(AcceptTop \/ AcceptFails) /\ SF_publicVars(StopStep)
    /\ \A p \in Peers : SF_publicVars(HandlerStep(p))
    /\ \A b \in Peers \cup {App} : WF_publicVars(EndCast(b))

PublicFairSpec == PublicSpec /\ PublicFairness

-----------------------------------------------------------------------------
(* Properties *)

HandlerPcs == SourcePcs \cup {"off", "request", "limit", "claim", "register", "serve", "recv",
                              "leave", "close", "ended"}

PublicTypeOK ==
    /\ serving \in BOOLEAN /\ server \in BOOLEAN
    /\ acceptPc \in {"top", "accept", "ended"}
    /\ stopPc \in {"no", "closing", "joinAccept", "shutting", "joining", "clearing", "stopped"}
    /\ handlers \subseteq Peers /\ opened \subseteq Peers
    /\ active \in Peers \cup {NoPeer} /\ overtaken \subseteq Peers
    /\ clients \subseteq Peers /\ sources \subseteq Peers /\ info \subseteq Peers
    /\ heard \subseteq Peers /\ shut \subseteq Peers /\ gone \subseteq Peers /\ full \subseteq Peers
    /\ lock \in Peers \cup {App, NoPeer}
    /\ pc \in [Peers -> HandlerPcs]

(* clients_, sources_ and sourceInfo_ hold open descriptors only: nobody    *)
(* sends to, or shuts down, a number that may by now be another connection. *)
ListedAreOpen == clients \cup sources \cup info \subseteq opened

(* NtripCaster.cpp: "Refuse a second source while one is already            *)
(* connected." The check and the claim take mountMutex_ separately, with    *)
(* the password, the limit and the answer between them.                     *)
OneSourceAtATime == \A p, q \in Peers : Streams(p) /\ Streams(q) => p = q

(* The mountpoint is the one of a source that is connected, under the name  *)
(* it asked for, or free. A source keeps it until it leaves, unless another *)
(* one that got in beside it (see OneSourceAtATime) claims it after it: the *)
(* one that was overtaken does not take the mountpoint with it.             *)
MountIsKept ==
    /\ IF active = NoPeer THEN mount = NoMount ELSE Streams(active) /\ mount = Mount(active)
    /\ \A p \in Peers : Streams(p) /\ p \notin overtaken => active = p

(* Every call of stop() returns, whatever the handlers, a source that       *)
(* streams on, feed() and the accept thread are doing, or is held up for    *)
(* ever by a peer: stop() shuts down the connections of clients_ and        *)
(* sources_ only, so it waits as long as a connection sends no request, and *)
(* it needs clientsMutex_, which a broadcast keeps as long as a client      *)
(* reads nothing. The caster sets no timeout against either.                *)
Silent(p) == pc[p] = "request" /\ requests[p] = <<>> /\ p \notin gone
StopHeldUp ==
    \/ \E p \in Peers : Silent(p)
    \/ lock # NoPeer /\ ~(full \cap clients \subseteq gone \cup shut)

StopReturns == []<>(stopPc \in {"no", "stopped"}) \/ <>[]StopHeldUp
=============================================================================
