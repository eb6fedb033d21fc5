-------------------------- MODULE PublicCasterProofs --------------------------
(***************************************************************************)
(* Proofs about PublicCaster for any number of peers, requests and         *)
(* clients: its state is well-typed, its lists hold open descriptors only, *)
(* the mountpoint is the one of a source that is connected, and a caster   *)
(* that stop() has stopped is free for the next start().                   *)
(***************************************************************************)
EXTENDS PublicCaster, TLAPS

Requests == {<<>>} \cup UNION {Asks[p] : p \in Peers}

AskedType == requests \in [Peers -> Requests]

(* A connection is open from accept() until its handler closes it, and the  *)
(* handler knows its request once it has got it: it then acts as a source   *)
(* or as a rover and as nothing else.                                       *)
HandlersOpen == \A p \in Peers : p \in opened <=> pc[p] \notin {"off", "ended"}

Waiting == {"off", "request", "ended"}
SourceOnly == {"claim"} \cup SourcePcs
RequestKnown ==
    \A p \in Peers :
        /\ pc[p] \notin Waiting => requests[p] # <<>> /\ Method(p) \in {"GET", "POST"}
        /\ pc[p] \in SourceOnly => Method(p) = "POST"
        /\ pc[p] = "register" => Method(p) = "GET"

(* A source holds clientsMutex_ exactly while it relays: its broadcast ends *)
(* where it began.                                                          *)
RelaysLocked == \A p \in Peers : pc[p] = "relaying" <=> lock = p

(* Where a handler is while its descriptor is on a list.                    *)
Listed == {"serve", "recv", "leave"}
Relays == {"relay", "relaying"}
ListedByRole ==
    \A p \in Peers :
        /\ p \in clients => pc[p] \in Listed /\ Method(p) = "GET"
        /\ p \in sources => pc[p] \in {"reset", "inform"} \cup Listed \cup Relays /\ Method(p) = "POST"
        /\ p \in info => pc[p] \in {"untrack"} \cup Listed \cup Relays /\ Method(p) = "POST"

HandlersInv == AskedType /\ HandlersOpen /\ RequestKnown /\ RelaysLocked /\ ListedByRole

(* How far stop() is: nothing is accepted once the socket is closed and the *)
(* accept thread has ended, and every handler is on clientThreads_ until it *)
(* is joined.                                                               *)
StopPhase ==
    /\ \A p \in Peers : pc[p] # "off" => p \in handlers
    /\ stopPc \notin {"no", "closing"} => ~server
    /\ stopPc \in {"clearing", "stopped"} => \A p \in Peers : pc[p] = "off"
    /\ stopPc = "stopped" => clients = {} /\ sources = {}

(* When stop() has returned, no handler runs, no connection is open, all    *)
(* lists are empty and the mountpoint is free for the next source.          *)
StoppedIsFree ==
    stopPc = "stopped" =>
        /\ \A p \in Peers : pc[p] = "off"
        /\ opened = {} /\ clients = {} /\ sources = {} /\ info = {}
        /\ active = NoPeer /\ mount = NoMount

Inv == PublicTypeOK /\ HandlersInv /\ StopPhase /\ MountIsKept
-----------------------------------------------------------------------------
(* The steps                                                                *)

(* Every step keeps the types.                                              *)
LEMMA TypeOKStep ==
    ASSUME PublicTypeOK, [PublicNext]_publicVars
    PROVE  PublicTypeOK'
<1> USE PublicNamesAssumption, PeersAssumption DEF PublicTypeOK, HandlerPcs, SourcePcs
<1>1. CASE AcceptTop
  BY <1>1 DEF AcceptTop, mountVars, listVars, connVars
<1>2. CASE AcceptFails
  BY <1>2 DEF AcceptFails, mountVars, listVars, connVars
<1>3. CASE BeginFeed
  BY <1>3 DEF BeginFeed, serverVars, mountVars, connVars
<1>4. CASE CallStop
  BY <1>4 DEF CallStop, mountVars, listVars, connVars
<1>5. CASE CloseServer
  BY <1>5 DEF CloseServer, mountVars, listVars, connVars
<1>6. CASE JoinAccept
  BY <1>6 DEF JoinAccept, mountVars, listVars, connVars
<1>7. CASE ShutDownSockets
  BY <1>7 DEF ShutDownSockets, mountVars, listVars
<1>8. CASE JoinHandlers
  BY <1>8 DEF JoinHandlers, mountVars, listVars, connVars
<1>9. CASE ClearLists
  BY <1>9 DEF ClearLists, mountVars, connVars
<1>10. CASE StartServer
  BY <1>10 DEF StartServer, mountVars, listVars, connVars
<1>11. ASSUME NEW p \in Peers, Accept(p)
       PROVE  PublicTypeOK'
  BY <1>11 DEF Accept, mountVars, listVars
<1>12. ASSUME NEW p \in Peers, RecvRequest(p)
       PROVE  PublicTypeOK'
  BY <1>12 DEF RecvRequest, serverVars, mountVars, listVars, connVars, Goto, EndHandler, Admits, CloseFd, Mount
<1>13. ASSUME NEW p \in Peers, RecvNothing(p)
       PROVE  PublicTypeOK'
  BY <1>13 DEF RecvNothing, serverVars, mountVars, listVars, EndHandler, Goto, CloseFd
<1>14. ASSUME NEW p \in Peers, CheckLimit(p)
       PROVE  PublicTypeOK'
  BY <1>14 DEF CheckLimit, serverVars, mountVars, listVars, connVars, Goto, EndHandler, CloseFd
<1>15. ASSUME NEW p \in Peers, Claim(p)
       PROVE  PublicTypeOK'
  BY <1>15 DEF Claim, serverVars, listVars, connVars, Goto, Mount
<1>16. ASSUME NEW p \in Peers, Track(p)
       PROVE  PublicTypeOK'
  BY <1>16 DEF Track, serverVars, mountVars, connVars, Goto
<1>17. ASSUME NEW p \in Peers, ResetAnalyzer(p)
       PROVE  PublicTypeOK'
  BY <1>17 DEF ResetAnalyzer, serverVars, mountVars, listVars, connVars, Goto
<1>18. ASSUME NEW p \in Peers, Inform(p)
       PROVE  PublicTypeOK'
  BY <1>18 DEF Inform, serverVars, mountVars, listVars, connVars, Goto
<1>19. ASSUME NEW p \in Peers, Untrack(p)
       PROVE  PublicTypeOK'
  BY <1>19 DEF Untrack, serverVars, mountVars, connVars, Goto
<1>20. ASSUME NEW p \in Peers, Uninform(p)
       PROVE  PublicTypeOK'
  BY <1>20 DEF Uninform, serverVars, mountVars, listVars, connVars, Goto
<1>21. ASSUME NEW p \in Peers, Release(p)
       PROVE  PublicTypeOK'
  BY <1>21 DEF Release, serverVars, listVars, connVars, Goto
<1>22. ASSUME NEW p \in Peers, Register(p)
       PROVE  PublicTypeOK'
  BY <1>22 DEF Register, serverVars, mountVars, connVars, Goto
<1>23. ASSUME NEW p \in Peers, Remove(p)
       PROVE  PublicTypeOK'
  BY <1>23 DEF Remove, serverVars, mountVars, connVars, Goto
<1>24. ASSUME NEW p \in Peers, ServeTop(p)
       PROVE  PublicTypeOK'
  BY <1>24 DEF ServeTop, serverVars, mountVars, listVars, connVars, Goto
<1>25. ASSUME NEW p \in Peers, RecvEnds(p)
       PROVE  PublicTypeOK'
  BY <1>25 DEF RecvEnds, serverVars, mountVars, listVars, connVars, Goto
<1>26. ASSUME NEW p \in Peers, CloseConnection(p)
       PROVE  PublicTypeOK'
  BY <1>26 DEF CloseConnection, serverVars, mountVars, listVars, EndHandler, Goto, CloseFd
<1>27. ASSUME NEW p \in Peers, BeginRelay(p)
       PROVE  PublicTypeOK'
  BY <1>27 DEF BeginRelay, serverVars, mountVars, connVars, Goto
<1>28. ASSUME NEW p \in Peers, RecvChunk(p)
       PROVE  PublicTypeOK'
  BY <1>28 DEF RecvChunk, serverVars, mountVars, listVars, connVars, Goto
<1>29. ASSUME NEW p \in Peers, Discard(p)
       PROVE  PublicTypeOK'
  BY <1>29 DEF Discard, serverVars, mountVars, listVars, connVars, Goto
<1>30. ASSUME NEW p \in Peers, PeerAsks(p)
       PROVE  PublicTypeOK'
  BY <1>30 DEF PeerAsks, serverVars, mountVars, listVars, Requests
<1>31. ASSUME NEW p \in Peers, HangUp(p)
       PROVE  PublicTypeOK'
  BY <1>31 DEF HangUp, serverVars, mountVars, listVars
<1>32. ASSUME NEW p \in Peers, Stall(p)
       PROVE  PublicTypeOK'
  BY <1>32 DEF Stall, serverVars, mountVars, listVars
<1>33. ASSUME NEW p \in Peers, Resume(p)
       PROVE  PublicTypeOK'
  BY <1>33 DEF Resume, serverVars, mountVars, listVars
<1>34. ASSUME NEW b \in Peers \cup {App}, EndCast(b)
       PROVE  PublicTypeOK'
  BY <1>34 DEF EndCast, serverVars, mountVars, Goto, DropDead
<1>35. CASE UNCHANGED publicVars
  BY <1>35 DEF publicVars, serverVars, mountVars, listVars, connVars
<1> QED
  BY <1>1, <1>2, <1>3, <1>4, <1>5, <1>6, <1>7, <1>8, <1>9, <1>10, <1>11, <1>12, <1>13,
     <1>14, <1>15, <1>16, <1>17, <1>18, <1>19, <1>20, <1>21, <1>22, <1>23, <1>24, <1>25,
     <1>26, <1>27, <1>28, <1>29, <1>30, <1>31, <1>32, <1>33, <1>34, <1>35
  DEF PublicNext, StopStep, HandlerStep, HandleRequest, Source, Rover

(* A handler that ends is on no list: it was refused, or has left them all. *)
LEMMA EndHandlerInv ==
    ASSUME PublicTypeOK, HandlersInv, NEW p \in Peers, EndHandler(p), UNCHANGED listVars, info' = info,
           pc[p] \in {"request", "limit", "close"}
    PROVE  HandlersInv'
<1> USE PublicNamesAssumption DEF PublicTypeOK, HandlersInv, EndHandler, Goto, CloseFd, HandlerPcs, SourcePcs
<1>1. /\ pc' = [pc EXCEPT ![p] = "ended"] /\ opened' = opened \ {p}
      /\ requests' = [requests EXCEPT ![p] = <<>>]
      /\ UNCHANGED <<clients, sources, lock, info>>
  BY DEF listVars
<1>2. AskedType'
  BY <1>1 DEF AskedType, Requests
<1>3. HandlersOpen' /\ RelaysLocked'
  BY <1>1 DEF HandlersOpen, RelaysLocked
<1>4. RequestKnown'
  BY <1>1 DEF AskedType, RequestKnown, Waiting, SourceOnly, Method
<1>5. p \notin clients \cup sources \cup info
  BY DEF ListedByRole, Listed, Relays
<1>6. ListedByRole'
  BY <1>1, <1>5 DEF AskedType, ListedByRole, Method
<1> QED
  BY <1>2, <1>3, <1>4, <1>6

(* Every step keeps the handlers and the lists in step.                     *)
LEMMA HandlersInvStep ==
    ASSUME PublicTypeOK, HandlersInv, [PublicNext]_publicVars
    PROVE  HandlersInv'
<1> USE PublicNamesAssumption
    DEF PublicTypeOK, HandlersInv, AskedType, HandlersOpen, RequestKnown, RelaysLocked, ListedByRole,
        Waiting, SourceOnly, Listed, Relays, SourcePcs, HandlerPcs, Method
<1>1. CASE AcceptTop
  BY <1>1 DEF AcceptTop, mountVars, listVars, connVars
<1>2. CASE AcceptFails
  BY <1>2 DEF AcceptFails, mountVars, listVars, connVars
<1>3. CASE BeginFeed
  BY <1>3 DEF BeginFeed, serverVars, mountVars, connVars
<1>4. CASE CallStop
  BY <1>4 DEF CallStop, mountVars, listVars, connVars
<1>5. CASE CloseServer
  BY <1>5 DEF CloseServer, mountVars, listVars, connVars
<1>6. CASE JoinAccept
  BY <1>6 DEF JoinAccept, mountVars, listVars, connVars
<1>7. CASE ShutDownSockets
  BY <1>7 DEF ShutDownSockets, mountVars, listVars
<1>8. CASE JoinHandlers
  BY <1>8 DEF JoinHandlers, mountVars, listVars, connVars
<1>9. CASE ClearLists
  BY <1>9 DEF ClearLists, mountVars, connVars
<1>10. CASE StartServer
  BY <1>10 DEF StartServer, mountVars, listVars, connVars
<1>11. ASSUME NEW p \in Peers, Accept(p)
       PROVE  HandlersInv'
  BY <1>11 DEF Accept, mountVars, listVars
<1>12. ASSUME NEW p \in Peers, RecvRequest(p)
       PROVE  HandlersInv'
  <2>1. CASE EndHandler(p)
    BY <1>12, <2>1, EndHandlerInv DEF RecvRequest
  <2>2. CASE Admits(p) /\ Goto(p, "limit") /\ UNCHANGED connVars
    BY <1>12, <2>2 DEF RecvRequest, listVars, connVars, Goto, Admits
  <2> QED
    BY <1>12, <2>1, <2>2 DEF RecvRequest
<1>13. ASSUME NEW p \in Peers, RecvNothing(p)
       PROVE  HandlersInv'
  BY <1>13, EndHandlerInv DEF RecvNothing
<1>14. ASSUME NEW p \in Peers, CheckLimit(p)
       PROVE  HandlersInv'
  <2>1. CASE EndHandler(p)
    BY <1>14, <2>1, EndHandlerInv DEF CheckLimit
  <2>2. CASE Goto(p, IF Method(p) = "POST" THEN "claim" ELSE "register") /\ UNCHANGED connVars
    BY <1>14, <2>2 DEF CheckLimit, listVars, connVars, Goto
  <2> QED
    BY <1>14, <2>1, <2>2 DEF CheckLimit
<1>15. ASSUME NEW p \in Peers, Claim(p)
       PROVE  HandlersInv'
  BY <1>15 DEF Claim, serverVars, listVars, connVars, Goto, Mount
<1>16. ASSUME NEW p \in Peers, Track(p)
       PROVE  HandlersInv'
  BY <1>16 DEF Track, serverVars, mountVars, connVars, Goto
<1>17. ASSUME NEW p \in Peers, ResetAnalyzer(p)
       PROVE  HandlersInv'
  BY <1>17 DEF ResetAnalyzer, serverVars, mountVars, listVars, connVars, Goto
<1>18. ASSUME NEW p \in Peers, Inform(p)
       PROVE  HandlersInv'
  BY <1>18 DEF Inform, serverVars, mountVars, listVars, connVars, Goto
<1>19. ASSUME NEW p \in Peers, Untrack(p)
       PROVE  HandlersInv'
  BY <1>19 DEF Untrack, serverVars, mountVars, connVars, Goto
<1>20. ASSUME NEW p \in Peers, Uninform(p)
       PROVE  HandlersInv'
  BY <1>20 DEF Uninform, serverVars, mountVars, listVars, connVars, Goto
<1>21. ASSUME NEW p \in Peers, Release(p)
       PROVE  HandlersInv'
  BY <1>21 DEF Release, serverVars, listVars, connVars, Goto
<1>22. ASSUME NEW p \in Peers, Register(p)
       PROVE  HandlersInv'
  BY <1>22 DEF Register, serverVars, mountVars, connVars, Goto
<1>23. ASSUME NEW p \in Peers, Remove(p)
       PROVE  HandlersInv'
  BY <1>23 DEF Remove, serverVars, mountVars, connVars, Goto
<1>24. ASSUME NEW p \in Peers, ServeTop(p)
       PROVE  HandlersInv'
  BY <1>24 DEF ServeTop, serverVars, mountVars, listVars, connVars, Goto
<1>25. ASSUME NEW p \in Peers, RecvEnds(p)
       PROVE  HandlersInv'
  BY <1>25 DEF RecvEnds, serverVars, mountVars, listVars, connVars, Goto
<1>26. ASSUME NEW p \in Peers, CloseConnection(p)
       PROVE  HandlersInv'
  BY <1>26, EndHandlerInv DEF CloseConnection
<1>27. ASSUME NEW p \in Peers, BeginRelay(p)
       PROVE  HandlersInv'
  BY <1>27 DEF BeginRelay, serverVars, mountVars, connVars, Goto
<1>28. ASSUME NEW p \in Peers, RecvChunk(p)
       PROVE  HandlersInv'
  BY <1>28 DEF RecvChunk, serverVars, mountVars, listVars, connVars, Goto
<1>29. ASSUME NEW p \in Peers, Discard(p)
       PROVE  HandlersInv'
  BY <1>29 DEF Discard, serverVars, mountVars, listVars, connVars, Goto
<1>30. ASSUME NEW p \in Peers, PeerAsks(p)
       PROVE  HandlersInv'
  BY <1>30 DEF PeerAsks, serverVars, mountVars, listVars, Requests
<1>31. ASSUME NEW p \in Peers, HangUp(p)
       PROVE  HandlersInv'
  BY <1>31 DEF HangUp, serverVars, mountVars, listVars
<1>32. ASSUME NEW p \in Peers, Stall(p)
       PROVE  HandlersInv'
  BY <1>32 DEF Stall, serverVars, mountVars, listVars
<1>33. ASSUME NEW p \in Peers, Resume(p)
       PROVE  HandlersInv'
  BY <1>33 DEF Resume, serverVars, mountVars, listVars
<1>34. ASSUME NEW b \in Peers \cup {App}, EndCast(b)
       PROVE  HandlersInv'
  BY <1>34 DEF EndCast, serverVars, mountVars, Goto, DropDead
<1>35. CASE UNCHANGED publicVars
  BY <1>35 DEF publicVars, serverVars, mountVars, listVars, connVars
<1> QED
  BY <1>1, <1>2, <1>3, <1>4, <1>5, <1>6, <1>7, <1>8, <1>9, <1>10, <1>11, <1>12, <1>13,
     <1>14, <1>15, <1>16, <1>17, <1>18, <1>19, <1>20, <1>21, <1>22, <1>23, <1>24, <1>25,
     <1>26, <1>27, <1>28, <1>29, <1>30, <1>31, <1>32, <1>33, <1>34, <1>35
  DEF PublicNext, StopStep, HandlerStep, HandleRequest, Source, Rover

(* Every step keeps stop() and start() in step with the handlers.           *)
LEMMA StopPhaseStep ==
    ASSUME PublicTypeOK, HandlersInv, StopPhase, [PublicNext]_publicVars
    PROVE  StopPhase'
<1> USE PublicNamesAssumption DEF PublicTypeOK, HandlersInv, RelaysLocked, StopPhase, HandlerPcs, SourcePcs
<1>1. CASE AcceptTop
  BY <1>1 DEF AcceptTop, mountVars, listVars, connVars
<1>2. CASE AcceptFails
  BY <1>2 DEF AcceptFails, mountVars, listVars, connVars
<1>3. CASE BeginFeed
  BY <1>3 DEF BeginFeed, serverVars, mountVars, connVars
<1>4. CASE CallStop
  BY <1>4 DEF CallStop, mountVars, listVars, connVars
<1>5. CASE CloseServer
  BY <1>5 DEF CloseServer, mountVars, listVars, connVars
<1>6. CASE JoinAccept
  BY <1>6 DEF JoinAccept, mountVars, listVars, connVars
<1>7. CASE ShutDownSockets
  BY <1>7 DEF ShutDownSockets, mountVars, listVars
<1>8. CASE JoinHandlers
  BY <1>8 DEF JoinHandlers, mountVars, listVars, connVars
<1>9. CASE ClearLists
  BY <1>9 DEF ClearLists, mountVars, connVars
<1>10. CASE StartServer
  BY <1>10 DEF StartServer, mountVars, listVars, connVars
<1>11. ASSUME NEW p \in Peers, Accept(p)
       PROVE  StopPhase'
  BY <1>11 DEF Accept, mountVars, listVars
<1>12. ASSUME NEW p \in Peers, RecvRequest(p)
       PROVE  StopPhase'
  BY <1>12 DEF RecvRequest, serverVars, mountVars, listVars, connVars, Goto, EndHandler, Admits, CloseFd, Mount
<1>13. ASSUME NEW p \in Peers, RecvNothing(p)
       PROVE  StopPhase'
  BY <1>13 DEF RecvNothing, serverVars, mountVars, listVars, EndHandler, Goto, CloseFd
<1>14. ASSUME NEW p \in Peers, CheckLimit(p)
       PROVE  StopPhase'
  BY <1>14 DEF CheckLimit, serverVars, mountVars, listVars, connVars, Goto, EndHandler, CloseFd
<1>15. ASSUME NEW p \in Peers, Claim(p)
       PROVE  StopPhase'
  BY <1>15 DEF Claim, serverVars, listVars, connVars, Goto, Mount
<1>16. ASSUME NEW p \in Peers, Track(p)
       PROVE  StopPhase'
  BY <1>16 DEF Track, serverVars, mountVars, connVars, Goto
<1>17. ASSUME NEW p \in Peers, ResetAnalyzer(p)
       PROVE  StopPhase'
  BY <1>17 DEF ResetAnalyzer, serverVars, mountVars, listVars, connVars, Goto
<1>18. ASSUME NEW p \in Peers, Inform(p)
       PROVE  StopPhase'
  BY <1>18 DEF Inform, serverVars, mountVars, listVars, connVars, Goto
<1>19. ASSUME NEW p \in Peers, Untrack(p)
       PROVE  StopPhase'
  BY <1>19 DEF Untrack, serverVars, mountVars, connVars, Goto
<1>20. ASSUME NEW p \in Peers, Uninform(p)
       PROVE  StopPhase'
  BY <1>20 DEF Uninform, serverVars, mountVars, listVars, connVars, Goto
<1>21. ASSUME NEW p \in Peers, Release(p)
       PROVE  StopPhase'
  BY <1>21 DEF Release, serverVars, listVars, connVars, Goto
<1>22. ASSUME NEW p \in Peers, Register(p)
       PROVE  StopPhase'
  BY <1>22 DEF Register, serverVars, mountVars, connVars, Goto
<1>23. ASSUME NEW p \in Peers, Remove(p)
       PROVE  StopPhase'
  BY <1>23 DEF Remove, serverVars, mountVars, connVars, Goto
<1>24. ASSUME NEW p \in Peers, ServeTop(p)
       PROVE  StopPhase'
  BY <1>24 DEF ServeTop, serverVars, mountVars, listVars, connVars, Goto
<1>25. ASSUME NEW p \in Peers, RecvEnds(p)
       PROVE  StopPhase'
  BY <1>25 DEF RecvEnds, serverVars, mountVars, listVars, connVars, Goto
<1>26. ASSUME NEW p \in Peers, CloseConnection(p)
       PROVE  StopPhase'
  BY <1>26 DEF CloseConnection, serverVars, mountVars, listVars, EndHandler, Goto, CloseFd
<1>27. ASSUME NEW p \in Peers, BeginRelay(p)
       PROVE  StopPhase'
  BY <1>27 DEF BeginRelay, serverVars, mountVars, connVars, Goto
<1>28. ASSUME NEW p \in Peers, RecvChunk(p)
       PROVE  StopPhase'
  BY <1>28 DEF RecvChunk, serverVars, mountVars, listVars, connVars, Goto
<1>29. ASSUME NEW p \in Peers, Discard(p)
       PROVE  StopPhase'
  BY <1>29 DEF Discard, serverVars, mountVars, listVars, connVars, Goto
<1>30. ASSUME NEW p \in Peers, PeerAsks(p)
       PROVE  StopPhase'
  BY <1>30 DEF PeerAsks, serverVars, mountVars, listVars, Requests
<1>31. ASSUME NEW p \in Peers, HangUp(p)
       PROVE  StopPhase'
  BY <1>31 DEF HangUp, serverVars, mountVars, listVars
<1>32. ASSUME NEW p \in Peers, Stall(p)
       PROVE  StopPhase'
  BY <1>32 DEF Stall, serverVars, mountVars, listVars
<1>33. ASSUME NEW p \in Peers, Resume(p)
       PROVE  StopPhase'
  BY <1>33 DEF Resume, serverVars, mountVars, listVars
<1>34. ASSUME NEW b \in Peers \cup {App}, EndCast(b)
       PROVE  StopPhase'
  BY <1>34 DEF EndCast, serverVars, mountVars, Goto, DropDead
<1>35. CASE UNCHANGED publicVars
  BY <1>35 DEF publicVars, serverVars, mountVars, listVars, connVars
<1> QED
  BY <1>1, <1>2, <1>3, <1>4, <1>5, <1>6, <1>7, <1>8, <1>9, <1>10, <1>11, <1>12, <1>13,
     <1>14, <1>15, <1>16, <1>17, <1>18, <1>19, <1>20, <1>21, <1>22, <1>23, <1>24, <1>25,
     <1>26, <1>27, <1>28, <1>29, <1>30, <1>31, <1>32, <1>33, <1>34, <1>35
  DEF PublicNext, StopStep, HandlerStep, HandleRequest, Source, Rover

(* A source that leaves frees the mountpoint only while it is its own.      *)
LEMMA MountStep ==
    ASSUME PublicTypeOK, HandlersInv, MountIsKept, [PublicNext]_publicVars
    PROVE  MountIsKept'
<1> USE PublicNamesAssumption
    DEF PublicTypeOK, HandlersInv, AskedType, RequestKnown, RelaysLocked, MountIsKept, Streams,
        Waiting, SourceOnly, SourcePcs, HandlerPcs, Method, Mount
<1>1. CASE AcceptTop
  BY <1>1 DEF AcceptTop, mountVars, listVars, connVars
<1>2. CASE AcceptFails
  BY <1>2 DEF AcceptFails, mountVars, listVars, connVars
<1>3. CASE BeginFeed
  BY <1>3 DEF BeginFeed, serverVars, mountVars, connVars
<1>4. CASE CallStop
  BY <1>4 DEF CallStop, mountVars, listVars, connVars
<1>5. CASE CloseServer
  BY <1>5 DEF CloseServer, mountVars, listVars, connVars
<1>6. CASE JoinAccept
  BY <1>6 DEF JoinAccept, mountVars, listVars, connVars
<1>7. CASE ShutDownSockets
  BY <1>7 DEF ShutDownSockets, mountVars, listVars
<1>8. CASE JoinHandlers
  BY <1>8 DEF JoinHandlers, mountVars, listVars, connVars
<1>9. CASE ClearLists
  BY <1>9 DEF ClearLists, mountVars, connVars
<1>10. CASE StartServer
  BY <1>10 DEF StartServer, mountVars, listVars, connVars
<1>11. ASSUME NEW p \in Peers, Accept(p)
       PROVE  MountIsKept'
  BY <1>11 DEF Accept, mountVars, listVars
<1>12. ASSUME NEW p \in Peers, RecvRequest(p)
       PROVE  MountIsKept'
  BY <1>12 DEF RecvRequest, serverVars, mountVars, listVars, connVars, Goto, EndHandler, Admits, CloseFd
<1>13. ASSUME NEW p \in Peers, RecvNothing(p)
       PROVE  MountIsKept'
  BY <1>13 DEF RecvNothing, serverVars, mountVars, listVars, EndHandler, Goto, CloseFd
<1>14. ASSUME NEW p \in Peers, CheckLimit(p)
       PROVE  MountIsKept'
  BY <1>14 DEF CheckLimit, serverVars, mountVars, listVars, connVars, Goto, EndHandler, CloseFd
<1>15. ASSUME NEW p \in Peers, Claim(p)
       PROVE  MountIsKept'
  BY <1>15 DEF Claim, serverVars, listVars, connVars, Goto
<1>16. ASSUME NEW p \in Peers, Track(p)
       PROVE  MountIsKept'
  BY <1>16 DEF Track, serverVars, mountVars, connVars, Goto
<1>17. ASSUME NEW p \in Peers, ResetAnalyzer(p)
       PROVE  MountIsKept'
  BY <1>17 DEF ResetAnalyzer, serverVars, mountVars, listVars, connVars, Goto
<1>18. ASSUME NEW p \in Peers, Inform(p)
       PROVE  MountIsKept'
  BY <1>18 DEF Inform, serverVars, mountVars, listVars, connVars, Goto
<1>19. ASSUME NEW p \in Peers, Untrack(p)
       PROVE  MountIsKept'
  BY <1>19 DEF Untrack, serverVars, mountVars, connVars, Goto
<1>20. ASSUME NEW p \in Peers, Uninform(p)
       PROVE  MountIsKept'
  BY <1>20 DEF Uninform, serverVars, mountVars, listVars, connVars, Goto
<1>21. ASSUME NEW p \in Peers, Release(p)
       PROVE  MountIsKept'
  BY <1>21 DEF Release, serverVars, listVars, connVars, Goto
<1>22. ASSUME NEW p \in Peers, Register(p)
       PROVE  MountIsKept'
  BY <1>22 DEF Register, serverVars, mountVars, connVars, Goto
<1>23. ASSUME NEW p \in Peers, Remove(p)
       PROVE  MountIsKept'
  BY <1>23 DEF Remove, serverVars, mountVars, connVars, Goto
<1>24. ASSUME NEW p \in Peers, ServeTop(p)
       PROVE  MountIsKept'
  BY <1>24 DEF ServeTop, serverVars, mountVars, listVars, connVars, Goto
<1>25. ASSUME NEW p \in Peers, RecvEnds(p)
       PROVE  MountIsKept'
  BY <1>25 DEF RecvEnds, serverVars, mountVars, listVars, connVars, Goto
<1>26. ASSUME NEW p \in Peers, CloseConnection(p)
       PROVE  MountIsKept'
  BY <1>26 DEF CloseConnection, serverVars, mountVars, listVars, EndHandler, Goto, CloseFd
<1>27. ASSUME NEW p \in Peers, BeginRelay(p)
       PROVE  MountIsKept'
  BY <1>27 DEF BeginRelay, serverVars, mountVars, connVars, Goto
<1>28. ASSUME NEW p \in Peers, RecvChunk(p)
       PROVE  MountIsKept'
  BY <1>28 DEF RecvChunk, serverVars, mountVars, listVars, connVars, Goto
<1>29. ASSUME NEW p \in Peers, Discard(p)
       PROVE  MountIsKept'
  BY <1>29 DEF Discard, serverVars, mountVars, listVars, connVars, Goto
<1>30. ASSUME NEW p \in Peers, PeerAsks(p)
       PROVE  MountIsKept'
  BY <1>30 DEF PeerAsks, serverVars, mountVars, listVars, Requests
<1>31. ASSUME NEW p \in Peers, HangUp(p)
       PROVE  MountIsKept'
  BY <1>31 DEF HangUp, serverVars, mountVars, listVars
<1>32. ASSUME NEW p \in Peers, Stall(p)
       PROVE  MountIsKept'
  BY <1>32 DEF Stall, serverVars, mountVars, listVars
<1>33. ASSUME NEW p \in Peers, Resume(p)
       PROVE  MountIsKept'
  BY <1>33 DEF Resume, serverVars, mountVars, listVars
<1>34. ASSUME NEW b \in Peers \cup {App}, EndCast(b)
       PROVE  MountIsKept'
  BY <1>34 DEF EndCast, serverVars, mountVars, Goto, DropDead
<1>35. CASE UNCHANGED publicVars
  BY <1>35 DEF publicVars, serverVars, mountVars, listVars, connVars
<1> QED
  BY <1>1, <1>2, <1>3, <1>4, <1>5, <1>6, <1>7, <1>8, <1>9, <1>10, <1>11, <1>12, <1>13,
     <1>14, <1>15, <1>16, <1>17, <1>18, <1>19, <1>20, <1>21, <1>22, <1>23, <1>24, <1>25,
     <1>26, <1>27, <1>28, <1>29, <1>30, <1>31, <1>32, <1>33, <1>34, <1>35
  DEF PublicNext, StopStep, HandlerStep, HandleRequest, Source, Rover

-----------------------------------------------------------------------------
(* The inductive invariant *)

LEMMA InitInv == PublicInit => Inv
<1> SUFFICES ASSUME PublicInit PROVE Inv
  OBVIOUS
<1>1. PublicTypeOK
  BY DEF PublicInit, PublicTypeOK, HandlerPcs
<1>2. HandlersInv
  BY PublicNamesAssumption
  DEF PublicInit, HandlersInv, AskedType, Requests, HandlersOpen, RequestKnown, Waiting, SourceOnly,
      SourcePcs, RelaysLocked, ListedByRole
<1>3. StopPhase /\ MountIsKept
  BY DEF PublicInit, StopPhase, MountIsKept, Streams, SourcePcs
<1> QED
  BY <1>1, <1>2, <1>3 DEF Inv

LEMMA NextInv == Inv /\ [PublicNext]_publicVars => Inv'
BY TypeOKStep, HandlersInvStep, StopPhaseStep, MountStep DEF Inv

(* The state of the caster is well-typed for every number of peers and      *)
(* clients and whatever is asked.                                           *)
THEOREM PublicCasterTypeCorrect == PublicSpec => []PublicTypeOK
<1>1. Inv => PublicTypeOK
  BY DEF Inv
<1> QED
  BY <1>1, InitInv, NextInv, PTL DEF PublicSpec

(* What is on clients_, sources_ or sourceInfo_ is open: a broadcast or     *)
(* stop() never reaches a number that was given to another connection.      *)
THEOREM ListsHoldOpenDescriptors == PublicSpec => []ListedAreOpen
<1>1. Inv => ListedAreOpen
  BY DEF Inv, PublicTypeOK, HandlersInv, HandlersOpen, ListedByRole, Listed, Relays, ListedAreOpen
<1> QED
  BY <1>1, InitInv, NextInv, PTL DEF PublicSpec

(* The mountpoint is the one of a source that is connected, or free, and    *)
(* nobody frees it under a source that no other has overtaken, however many *)
(* sources get in beside one another.                                       *)
THEOREM MountStaysWithItsSource == PublicSpec => []MountIsKept
<1>1. Inv => MountIsKept
  BY DEF Inv
<1> QED
  BY <1>1, InitInv, NextInv, PTL DEF PublicSpec

(* A caster that stop() has stopped holds nothing that a start() would have *)
(* to fear.                                                                 *)
THEOREM StoppedPublicCasterIsFree == PublicSpec => []StoppedIsFree
<1>1. Inv => StoppedIsFree
  <2> SUFFICES ASSUME Inv, stopPc = "stopped" PROVE StoppedIsFree
    BY DEF StoppedIsFree
  <2>1. \A p \in Peers : pc[p] = "off"
    BY DEF Inv, StopPhase
  <2>2. opened = {} /\ info = {} /\ clients = {} /\ sources = {}
    BY <2>1 DEF Inv, PublicTypeOK, HandlersInv, HandlersOpen, ListedByRole, Listed, Relays, StopPhase
  <2>3. active = NoPeer /\ mount = NoMount
    BY <2>1 DEF Inv, PublicTypeOK, MountIsKept, Streams, SourcePcs
  <2> QED
    BY <2>1, <2>2, <2>3 DEF StoppedIsFree
<1> QED
  BY <1>1, InitInv, NextInv, PTL DEF PublicSpec
=============================================================================
