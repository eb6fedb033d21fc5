---------------------------- MODULE NtripCaster ----------------------------
(***************************************************************************)
(* The NTRIP caster: an accept thread that gives every connection a        *)
(* handler thread, handlers that answer the request and then serve a       *)
(* client (GET) or relay a source (POST), the application that feeds       *)
(* correction frames, and stop(), which has to end them all                *)
(* (NtripCaster::start, stop, feed, acceptLoop, handleClient).             *)
(*                                                                         *)
(* The peers are what the network does: they ask or stay silent, stop      *)
(* reading, or hang up, at any time. Without TLS; a chunk of corrections   *)
(* is named by who sent it and its number.                                 *)
(***************************************************************************)
EXTENDS Integers, Sequences, FiniteSets

CONSTANTS
    Peers,        \* bound: connections, and handlers not yet joined, at a time
    Asks,         \* per peer: the requests it may send
    Slow,         \* bound: peers whose receive window may fill up, once each
    Fds,          \* file descriptors the process may open for them
    MaxClients,   \* maxClients_
    MaxChunks     \* bound: chunks of corrections in a behaviour

Kinds == {"GET", "POST", "other"}

ASSUME LimitsAssumption == MaxClients \in Nat /\ MaxChunks \in Nat
ASSUME PeersAssumption == Asks \in [Peers -> SUBSET Kinds] /\ Slow \subseteq Peers

App == "application"
ASSUME NamesAssumption == App \notin Peers /\ "nobody" \notin Peers \cup {App}

None == 0        \* no descriptor
ASSUME FdsAssumption == Fds \subseteq Nat \ {None}

Casters == Peers \cup {App}

VARIABLES
    running,      \* running_
    server,       \* the listening socket is open
    acceptPc,     \* the accept thread
    stopPc,       \* the thread in stop()
    threads,      \* clientThreads_: handlers not yet joined
    clients,      \* clients_
    sources,      \* sources_
    lock,         \* who broadcasts under clientsMutex_
    pc,           \* per handler
    fd,           \* per handler: its descriptor
    shut,         \* descriptors shut down
    todo,         \* per broadcast: descriptors still to be sent to
    dead,         \* per broadcast: descriptors that failed
    chunk,        \* per broadcast: what is sent
    asked,        \* per peer: its request, "nothing" while it is silent
    gone,         \* peers that hung up
    reads,        \* per peer: does it empty its receive window
    log,          \* history: chunks, in the order they got the lock
    got,          \* history: chunks handed to a client's socket
    joined        \* history: length of the log when a client registered

connVars == <<fd, shut, asked, gone, reads, got, joined>>

serverVars == <<running, server, acceptPc, stopPc, threads>>
listVars   == <<clients, sources>>
castVars   == <<lock, todo, dead, chunk, log>>
vars == <<serverVars, listVars, castVars, pc, connVars>>

-----------------------------------------------------------------------------
(* Descriptors *)

Owner(f) == {p \in Peers : fd[p] = f}
FreeFds  == {f \in Fds : Owner(f) = {}}

(* Closing makes the number available to the next accept; nothing more is   *)
(* heard of the peer.                                                       *)
Close(p) ==
    /\ fd' = [fd EXCEPT ![p] = None] /\ shut' = shut \ {fd[p]}
    /\ asked' = [asked EXCEPT ![p] = "nothing"]
    /\ gone' = gone \ {p}
    /\ reads' = [reads EXCEPT ![p] = "yes"]
    /\ got' = [got EXCEPT ![p] = <<>>] /\ joined' = [joined EXCEPT ![p] = 0]

-----------------------------------------------------------------------------
(* The peers *)

Ask(p) ==
    /\ fd[p] # None /\ p \notin gone /\ asked[p] = "nothing"
    /\ \E k \in Asks[p] : asked' = [asked EXCEPT ![p] = k]
    /\ UNCHANGED <<serverVars, listVars, castVars, pc, fd, shut, gone, reads, got, joined>>

HangUp(p) ==
    /\ fd[p] # None /\ p \notin gone
    /\ gone' = gone \cup {p}
    /\ UNCHANGED <<serverVars, listVars, castVars, pc, fd, shut, asked, reads, got, joined>>

(* A client's receive window fills up, and it may go on reading.            *)
Stall(p) ==
    /\ p \in Slow /\ reads[p] = "yes" /\ asked[p] = "GET" /\ p \notin gone
    /\ reads' = [reads EXCEPT ![p] = "no"]
    /\ UNCHANGED <<serverVars, listVars, castVars, pc, fd, shut, asked, gone, got, joined>>

Resume(p) ==
    /\ reads[p] = "no" /\ p \notin gone
    /\ reads' = [reads EXCEPT ![p] = "again"]
    /\ UNCHANGED <<serverVars, listVars, castVars, pc, fd, shut, asked, gone, got, joined>>

-----------------------------------------------------------------------------
(* acceptLoop *)

AcceptTop ==
    /\ acceptPc = "top"
    /\ acceptPc' = IF running THEN "accept" ELSE "ended"
    /\ UNCHANGED <<running, server, stopPc, threads, listVars, castVars, pc, connVars>>

(* A connection gets the lowest free number; finished handlers are joined,  *)
(* a new one is spawned.                                                    *)
Accept(p) ==
    /\ acceptPc = "accept" /\ server
    /\ pc[p] = "off"
    /\ \E f \in FreeFds : /\ \A g \in FreeFds : f <= g
                          /\ fd' = [fd EXCEPT ![p] = f]
    /\ pc' = [q \in Peers |-> IF q = p THEN "request"
                              ELSE IF q \in threads /\ pc[q] = "ended" THEN "off" ELSE pc[q]]
    /\ threads' = {q \in threads : pc[q] # "ended"} \cup {p}
    /\ acceptPc' = "top"
    /\ UNCHANGED <<running, server, stopPc, listVars, castVars, shut, asked, gone, reads, got, joined>>

(* accept() fails: the socket was closed, or the descriptors are used up.   *)
AcceptFails ==
    /\ acceptPc = "accept"
    /\ ~server \/ FreeFds = {}
    /\ acceptPc' = "ended"
    /\ UNCHANGED <<running, server, stopPc, threads, listVars, castVars, pc, connVars>>

-----------------------------------------------------------------------------
(* handleClient: the handshake *)

Goto(p, where) == pc' = [pc EXCEPT ![p] = where]

(* Every refusal answers, closes the descriptor and ends the handler.       *)
EndHandler(p) == Goto(p, "ended") /\ Close(p)

(* The request arrives; a wrong method, mountpoint or password is refused.  *)
RecvRequest(p) ==
    /\ pc[p] = "request" /\ asked[p] # "nothing"
    /\ IF asked[p] = "other" THEN EndHandler(p)
                             ELSE Goto(p, "check") /\ UNCHANGED connVars
    /\ UNCHANGED <<serverVars, listVars, castVars>>

RecvNothing(p) ==
    /\ pc[p] = "request" /\ asked[p] = "nothing" /\ p \in gone
    /\ EndHandler(p)
    /\ UNCHANGED <<serverVars, listVars, castVars>>

(* The limit counts the clients that are registered by now. Then "ICY 200   *)
(* OK" is sent; a peer that hung up may or may not make that fail.          *)
CheckLimit(p) ==
    /\ pc[p] = "check" /\ lock = "nobody"
    /\ \/ Cardinality(clients) >= MaxClients /\ EndHandler(p)
       \/ Cardinality(clients) < MaxClients /\ Goto(p, "enlist") /\ UNCHANGED connVars
       \/ Cardinality(clients) < MaxClients /\ p \in gone /\ EndHandler(p)
    /\ UNCHANGED <<serverVars, listVars, castVars>>

-----------------------------------------------------------------------------
(* handleClient: serving *)

(* registerClient, or the push to sources_ *)
Enlist(p) ==
    /\ pc[p] = "enlist" /\ lock = "nobody"
    /\ IF asked[p] = "GET"
       THEN clients' = clients \cup {fd[p]} /\ UNCHANGED sources
       ELSE sources' = sources \cup {fd[p]} /\ UNCHANGED clients
    /\ joined' = [joined EXCEPT ![p] = Len(log)]
    /\ Goto(p, "serve")
    /\ UNCHANGED <<serverVars, castVars, fd, shut, asked, gone, reads, got>>

(* The loop condition of both kinds.                                        *)
ServeTop(p) ==
    /\ pc[p] = "serve"
    /\ Goto(p, IF running THEN "recv" ELSE "leave")
    /\ UNCHANGED <<serverVars, listVars, castVars, connVars>>

(* What a client sends is discarded.                                        *)
Discard(p) ==
    /\ pc[p] = "recv" /\ asked[p] = "GET"
    /\ fd[p] \notin shut /\ p \notin gone
    /\ Goto(p, "serve")
    /\ UNCHANGED <<serverVars, listVars, castVars, connVars>>

RecvEnds(p) ==
    /\ pc[p] = "recv"
    /\ p \in gone \/ fd[p] \in shut
    /\ Goto(p, "leave")
    /\ UNCHANGED <<serverVars, listVars, castVars, connVars>>

(* A source's corrections arrive; what it sent before hanging up, too.      *)
RecvChunk(p) ==
    /\ pc[p] = "recv" /\ asked[p] = "POST"
    /\ Len(log) < MaxChunks
    /\ Goto(p, "relay")
    /\ UNCHANGED <<serverVars, listVars, castVars, connVars>>

(* mutant: the descriptor is closed, then taken off the list.               *)
CloseThenLeave(p) ==
    /\ pc[p] \in {"leave", "close"}
    /\ IF pc[p] = "leave"
       THEN Goto(p, "close") /\ Close(p) /\ UNCHANGED listVars
       ELSE /\ lock = "nobody"
            /\ clients' = clients \cap {fd[q] : q \in Peers}
            /\ sources' = sources \cap {fd[q] : q \in Peers}
            /\ Goto(p, "ended") /\ UNCHANGED connVars
    /\ UNCHANGED <<serverVars, castVars>>

(* removeClient, or the erase from sources_; then the descriptor is closed. *)
Leave(p) ==
    /\ \/ /\ pc[p] = "leave" /\ lock = "nobody"
          /\ clients' = clients \ {fd[p]} /\ sources' = sources \ {fd[p]}
          /\ Goto(p, "close") /\ UNCHANGED connVars
       \/ pc[p] = "close" /\ EndHandler(p) /\ UNCHANGED listVars
    /\ UNCHANGED <<serverVars, castVars>>

-----------------------------------------------------------------------------
(* Broadcasting: feed() of the application, and the relay of a source       *)

NoLock(b) == TRUE           \* mutant: the list is copied, then sent to unlocked
Locked(b) == lock = "nobody"

Begin(b) ==
    /\ Locked(b)
    /\ lock' = b
    /\ chunk' = [chunk EXCEPT ![b] = <<b, Len(log) + 1>>]
    /\ log' = Append(log, chunk'[b])
    /\ todo' = [todo EXCEPT ![b] = clients]
    /\ UNCHANGED dead

BeginFeed ==
    /\ Len(log) < MaxChunks
    /\ chunk[App] = <<>>
    /\ Begin(App)
    /\ UNCHANGED <<serverVars, listVars, pc, connVars>>

BeginRelay(p) ==
    /\ pc[p] = "relay"
    /\ Begin(p)
    /\ Goto(p, "relaying")
    /\ UNCHANGED <<serverVars, listVars, connVars>>

(* sendAll to one client: blocks while its window is full.                  *)
SendWorks(b, f) ==
    /\ f \in todo[b] /\ f \notin shut
    /\ \E p \in Owner(f) :
          /\ reads[p] # "no" \/ p \in gone
          /\ got' = [got EXCEPT ![p] = Append(@, chunk[b])]
    /\ todo' = [todo EXCEPT ![b] = @ \ {f}]
    /\ UNCHANGED <<serverVars, listVars, lock, dead, chunk, log, pc, fd, shut, asked, gone,
                   reads, joined>>

SendFails(b, f) ==
    /\ f \in todo[b]
    /\ f \in shut \/ Owner(f) \subseteq gone
    /\ dead' = [dead EXCEPT ![b] = @ \cup {f}]
    /\ todo' = [todo EXCEPT ![b] = @ \ {f}]
    /\ UNCHANGED <<serverVars, listVars, lock, chunk, log, pc, connVars>>

(* The clients that failed are erased and shut down, so their handlers end. *)
EraseOnly(b) ==             \* mutant: the handlers are not woken
    clients' = clients \ dead[b] /\ UNCHANGED shut
DropDead(b) ==
    clients' = clients \ dead[b] /\ shut' = shut \cup dead[b]

EndCast(b) ==
    /\ chunk[b] # <<>> /\ todo[b] = {}
    /\ DropDead(b)
    /\ dead' = [dead EXCEPT ![b] = {}]
    /\ chunk' = [chunk EXCEPT ![b] = <<>>]
    /\ lock' = "nobody"
    /\ IF b = App THEN UNCHANGED pc ELSE Goto(b, "serve")
    /\ UNCHANGED <<serverVars, sources, todo, log, fd, asked, gone, reads, got, joined>>

-----------------------------------------------------------------------------
(* stop() *)

CallStop ==
    /\ running
    /\ running' = FALSE
    /\ stopPc' = "closing"
    /\ UNCHANGED <<server, acceptPc, threads, listVars, castVars, pc, connVars>>

CloseServer ==
    /\ stopPc = "closing"
    /\ server' = FALSE
    /\ stopPc' = "joinAccept"
    /\ UNCHANGED <<running, acceptPc, threads, listVars, castVars, pc, connVars>>

JoinAccept ==
    /\ stopPc = "joinAccept"
    /\ acceptPc = "ended"
    /\ stopPc' = "shutting"
    /\ UNCHANGED <<running, server, acceptPc, threads, listVars, castVars, pc, connVars>>

ToShut == clients \cup sources

ShutDown ==
    /\ stopPc = "shutting" /\ lock = "nobody"
    /\ shut' = shut \cup ToShut
    /\ stopPc' = "joining"
    /\ UNCHANGED <<running, server, acceptPc, threads, listVars, castVars, pc, fd, asked, gone, reads,
                   got, joined>>

JoinFinished ==             \* mutant: only the handlers that ended are joined
    /\ stopPc = "joining"
    /\ threads' = {}
    /\ pc' = [p \in Peers |-> IF pc[p] = "ended" THEN "off" ELSE pc[p]]
    /\ stopPc' = "clearing"
    /\ UNCHANGED <<running, server, acceptPc, listVars, castVars, connVars>>
JoinHandlers ==
    /\ stopPc = "joining"
    /\ \A p \in threads : pc[p] = "ended"
    /\ threads' = {}
    /\ pc' = [p \in Peers |-> IF p \in threads THEN "off" ELSE pc[p]]
    /\ stopPc' = "clearing"
    /\ UNCHANGED <<running, server, acceptPc, listVars, castVars, connVars>>

ClearLists ==
    /\ stopPc = "clearing" /\ lock = "nobody"
    /\ clients' = {} /\ sources' = {}
    /\ stopPc' = "stopped"
    /\ UNCHANGED <<running, server, acceptPc, threads, castVars, pc, connVars>>

(* start() on a stopped caster.                                             *)
StartAgain ==
    /\ stopPc = "stopped"
    /\ running' = TRUE
    /\ server' = TRUE
    /\ acceptPc' = "top"
    /\ stopPc' = "no"
    /\ UNCHANGED <<threads, listVars, castVars, pc, connVars>>

-----------------------------------------------------------------------------
(* A caster that start() made listen. *)
Init ==
    /\ running = TRUE /\ server = TRUE
    /\ acceptPc = "top" /\ stopPc = "no"
    /\ threads = {} /\ clients = {} /\ sources = {}
    /\ lock = "nobody"
    /\ pc = [p \in Peers |-> "off"]
    /\ fd = [p \in Peers |-> None]
    /\ shut = {}
    /\ todo = [b \in Casters |-> {}]
    /\ dead = [b \in Casters |-> {}]
    /\ chunk = [b \in Casters |-> <<>>]
    /\ asked = [p \in Peers |-> "nothing"]
    /\ gone = {}
    /\ reads = [p \in Peers |-> "yes"]
    /\ log = <<>>
    /\ got = [p \in Peers |-> <<>>]
    /\ joined = [p \in Peers |-> 0]

Handshake(p) == RecvRequest(p) \/ RecvNothing(p) \/ CheckLimit(p)
Serve(p)     == Enlist(p) \/ ServeTop(p) \/ RecvEnds(p) \/ BeginRelay(p) \/ Leave(p)
Cast(b)      == EndCast(b) \/ \E f \in Fds : SendWorks(b, f) \/ SendFails(b, f)
StopStep     == CloseServer \/ JoinAccept \/ ShutDown \/ JoinHandlers \/ ClearLists
AcceptStep   == AcceptTop \/ AcceptFails
PeerActs(p)  == Ask(p) \/ HangUp(p) \/ Stall(p) \/ Resume(p)

Next ==
    \/ AcceptStep \/ \E p \in Peers : Accept(p)
    \/ \E p \in Peers : Handshake(p) \/ Serve(p) \/ Discard(p) \/ RecvChunk(p) \/ PeerActs(p)
    \/ BeginFeed \/ \E b \in Casters : Cast(b)
    \/ CallStop \/ StopStep \/ StartAgain

Spec == Init /\ [][Next]_vars

-----------------------------------------------------------------------------
(* Type invariant *)

Chunks == Casters \X Nat
HandlerPcs == {"off", "request", "check", "enlist", "serve", "recv", "relay",
               "relaying", "leave", "close", "ended"}
ServerType ==
    /\ running \in BOOLEAN /\ server \in BOOLEAN
    /\ acceptPc \in {"top", "accept", "ended"}
    /\ stopPc \in {"no", "closing", "joinAccept", "shutting", "joining", "clearing", "stopped"}
    /\ threads \subseteq Peers
ListsType == clients \subseteq Fds /\ sources \subseteq Fds
CastType ==
    /\ lock \in Casters \cup {"nobody"}
    /\ todo \in [Casters -> SUBSET Fds] /\ dead \in [Casters -> SUBSET Fds]
    /\ chunk \in [Casters -> Chunks \cup {<<>>}]
    /\ log \in Seq(Chunks)
ConnType ==
    /\ fd \in [Peers -> Fds \cup {None}]
    /\ shut \subseteq Fds
    /\ asked \in [Peers -> Kinds \cup {"nothing"}]
    /\ gone \subseteq Peers
    /\ reads \in [Peers -> {"yes", "no", "again"}]
    /\ got \in [Peers -> Seq(Chunks \cup {<<>>})]
    /\ joined \in [Peers -> Nat]
TypeOK == ServerType /\ ListsType /\ CastType /\ ConnType /\ pc \in [Peers -> HandlerPcs]

(* What is on the lists is what handlers serve: a listed descriptor is open *)
(* and its handler has not taken itself off yet, so no broadcast and no     *)
(* stop() touches a number that was closed and may by now be another        *)
(* connection (removeClient before ::close).                                *)
Serving == {"serve", "recv", "relay", "relaying", "leave"}
ListedAreServed ==
    /\ \A f \in clients : \E p \in Owner(f) : pc[p] \in Serving /\ asked[p] = "GET"
    /\ \A f \in sources : \E p \in Owner(f) : pc[p] \in Serving /\ asked[p] = "POST"

(* No client stays connected without being fed: one that a broadcast took   *)
(* off the list was shut down, so that its handler ends.                    *)
NobodyForgotten ==
    \A p \in Peers :
        (pc[p] \in {"serve", "recv"} /\ asked[p] = "GET") =>
            (fd[p] \in clients \/ fd[p] \in shut)

(* Every client on the list has been handed all chunks since it registered, *)
(* whole and in one order for all clients, whoever broadcasts beside whom.  *)
FedInOrder ==
    \A p \in Peers :
        (pc[p] \in Serving /\ fd[p] \in clients) =>
            LET due == SubSeq(log, joined[p] + 1, Len(log))
            IN  \/ got[p] = due
                \/ /\ lock # "nobody" /\ fd[p] \in todo[lock] \cup dead[lock]
                   /\ got[p] = SubSeq(due, 1, Len(due) - 1)

(* When stop() is through, no handler runs and no descriptor is open.       *)
StoppedIsQuiet ==
    stopPc = "stopped" =>
        /\ clients = {} /\ sources = {}
        /\ \A p \in Peers : pc[p] = "off" /\ fd[p] = None
=============================================================================
