----------------------------- MODULE NtripProofs -----------------------------
(***************************************************************************)
(* Proofs about NtripCaster for any number of connections, descriptors,    *)
(* clients and chunks: its state is well-typed, its lists hold only open   *)
(* descriptors that handlers serve, no client is left connected without    *)
(* being fed, clients are fed whole chunks in one order, and a caster that *)
(* stop() has stopped is quiet. Then about NtripClient, the other end of   *)
(* such a connection, for any frames, number of frames and faults: the     *)
(* frames come in order, and none that arrived intact is lost.             *)
(***************************************************************************)
EXTENDS NtripCaster, NtripClient, SequenceTheorems, TLAPS

HandlersType == pc \in [Peers -> HandlerPcs]

(* A handler has its descriptor, and it alone, from accept() to close(); it *)
(* knows its request once it is past the handshake; only a source relays;   *)
(* and it is on clientThreads_ until somebody joined it.                    *)
HandlersOpen == \A p \in Peers : fd[p] # None <=> pc[p] \notin {"off", "ended"}
OneOwner == \A p, q \in Peers : fd[p] = fd[q] /\ fd[p] # None => p = q
RequestKnown ==
    \A p \in Peers :
        /\ pc[p] \notin {"off", "request", "ended"} => asked[p] \in {"GET", "POST"}
        /\ pc[p] \in {"relay", "relaying"} => asked[p] = "POST"
        /\ chunk[p] # <<>> => pc[p] = "relaying"
ThreadsTracked == \A p \in Peers : pc[p] # "off" => p \in threads
HandlersInv == HandlersOpen /\ OneOwner /\ RequestKnown /\ ThreadsTracked

(* How far stop() is: nothing is accepted once the socket is closed, and no *)
(* handler is left once they were joined.                                   *)
StopPhase ==
    /\ stopPc \notin {"no", "closing"} => ~server
    /\ stopPc \in {"clearing", "stopped"} => \A p \in Peers : pc[p] = "off"
    /\ stopPc = "stopped" => clients = {} /\ sources = {}

-----------------------------------------------------------------------------
(* Types *)

(* What a step leaves alone keeps its type.                                 *)
LEMMA FrameTypes ==
    /\ ServerType /\ UNCHANGED serverVars => ServerType'
    /\ ListsType /\ UNCHANGED listVars => ListsType'
    /\ CastType /\ UNCHANGED castVars => CastType'
    /\ ConnType /\ UNCHANGED connVars => ConnType'
    /\ HandlersType /\ UNCHANGED pc => HandlersType'
<1>1. ServerType /\ UNCHANGED serverVars => ServerType'
  BY DEF ServerType, serverVars
<1>2. ListsType /\ UNCHANGED listVars => ListsType'
  BY DEF ListsType, listVars
<1>3. CastType /\ UNCHANGED castVars => CastType'
  BY DEF CastType, castVars
<1>4. ConnType /\ UNCHANGED connVars => ConnType'
  BY DEF ConnType, connVars
<1>5. HandlersType /\ UNCHANGED pc => HandlersType'
  BY DEF HandlersType
<1> QED
  BY <1>1, <1>2, <1>3, <1>4, <1>5

LEMMA CloseType ==
    ASSUME ConnType, NEW p \in Peers, Close(p)
    PROVE  ConnType'
<1> USE DEF ConnType, Close
<1>1. fd' \in [Peers -> Fds \cup {None}] /\ shut' \subseteq Fds
  OBVIOUS
<1>2. asked' \in [Peers -> Kinds \cup {"nothing"}] /\ gone' \subseteq Peers
  OBVIOUS
<1>3. reads' \in [Peers -> {"yes", "no", "again"}]
  OBVIOUS
<1>4. <<>> \in Seq(Chunks \cup {<<>>})
  BY EmptySeq
<1>5. got' \in [Peers -> Seq(Chunks \cup {<<>>})]
  BY <1>4
<1>6. joined' \in [Peers -> Nat]
  OBVIOUS
<1> QED
  BY <1>1, <1>2, <1>3, <1>5, <1>6

LEMMA GotoType ==
    ASSUME HandlersType, NEW p \in Peers, NEW where \in HandlerPcs, Goto(p, where)
    PROVE  HandlersType'
BY DEF HandlersType, Goto

LEMMA BeginType ==
    ASSUME CastType, ListsType, NEW b \in Casters, Begin(b)
    PROVE  CastType'
<1>1. Len(log) + 1 \in Nat /\ <<b, Len(log) + 1>> \in Chunks
  BY LenProperties DEF Chunks
<1>2. chunk'[b] = <<b, Len(log) + 1>> /\ chunk' \in [Casters -> Chunks \cup {<<>>}]
  BY <1>1 DEF CastType, Begin
<1>3. log' \in Seq(Chunks)
  BY <1>1, <1>2, AppendProperties DEF CastType, Begin
<1> QED
  BY <1>2, <1>3 DEF CastType, ListsType, Begin

LEMMA InitTypeOK == Init => TypeOK
<1> SUFFICES ASSUME Init PROVE TypeOK
  OBVIOUS
<1>1. <<>> \in Seq(Chunks) /\ <<>> \in Seq(Chunks \cup {<<>>})
  BY EmptySeq
<1>2. ServerType /\ ListsType /\ HandlersType
  BY DEF Init, ServerType, ListsType, HandlersType, HandlerPcs
<1>3. CastType
  BY <1>1 DEF Init, CastType
<1>4. ConnType
  BY <1>1 DEF Init, ConnType
<1> QED
  BY <1>2, <1>3, <1>4 DEF TypeOK, HandlersType

LEMMA NextTypeOK == TypeOK /\ HandlersOpen /\ [Next]_vars => TypeOK'
<1> SUFFICES ASSUME ServerType, ListsType, CastType, ConnType, HandlersType,
                    HandlersOpen, [Next]_vars
             PROVE  ServerType' /\ ListsType' /\ CastType' /\ ConnType' /\ HandlersType'
  BY DEF TypeOK, HandlersType

<1>1. CASE AcceptTop
  <2>1. ServerType'
    BY <1>1 DEF AcceptTop, ServerType
  <2>2. UNCHANGED listVars /\ UNCHANGED castVars /\ UNCHANGED connVars /\ UNCHANGED pc
    BY <1>1 DEF AcceptTop
  <2> QED
    BY <2>1, <2>2, FrameTypes
<1>2. CASE AcceptFails
  <2>1. ServerType'
    BY <1>2 DEF AcceptFails, ServerType
  <2>2. UNCHANGED listVars /\ UNCHANGED castVars /\ UNCHANGED connVars /\ UNCHANGED pc
    BY <1>2 DEF AcceptFails
  <2> QED
    BY <2>1, <2>2, FrameTypes
<1>3. ASSUME NEW p \in Peers, Accept(p)
      PROVE  ServerType' /\ ListsType' /\ CastType' /\ ConnType' /\ HandlersType'
  <2>1. ServerType'
    BY <1>3 DEF Accept, ServerType
  <2>2. ConnType'
    <3>1. PICK f \in FreeFds : fd' = [fd EXCEPT ![p] = f]
      BY <1>3 DEF Accept
    <3>2. f \in Fds
      BY DEF FreeFds
    <3> QED
      BY <1>3, <3>1, <3>2 DEF Accept, ConnType
  <2>3. HandlersType'
    BY <1>3 DEF Accept, HandlersType, HandlerPcs
  <2>4. UNCHANGED listVars /\ UNCHANGED castVars
    BY <1>3 DEF Accept
  <2> QED
    BY <2>1, <2>2, <2>3, <2>4, FrameTypes
<1>4. ASSUME NEW p \in Peers, RecvRequest(p)
      PROVE  ServerType' /\ ListsType' /\ CastType' /\ ConnType' /\ HandlersType'
  <2>1. ConnType'
    <3>1. CASE EndHandler(p)
      BY <3>1, CloseType DEF EndHandler
    <3>2. CASE UNCHANGED connVars
      BY <3>2, FrameTypes
    <3> QED
      BY <1>4, <3>1, <3>2 DEF RecvRequest
  <2>2. HandlersType'
    BY <1>4 DEF RecvRequest, EndHandler, Goto, HandlersType, HandlerPcs
  <2>3. UNCHANGED serverVars /\ UNCHANGED listVars /\ UNCHANGED castVars
    BY <1>4 DEF RecvRequest
  <2> QED
    BY <2>1, <2>2, <2>3, FrameTypes
<1>5. ASSUME NEW p \in Peers, RecvNothing(p)
      PROVE  ServerType' /\ ListsType' /\ CastType' /\ ConnType' /\ HandlersType'
  <2>1. ConnType'
    BY <1>5, CloseType DEF RecvNothing, EndHandler
  <2>2. HandlersType'
    BY <1>5 DEF RecvNothing, EndHandler, Goto, HandlersType, HandlerPcs
  <2>3. UNCHANGED serverVars /\ UNCHANGED listVars /\ UNCHANGED castVars
    BY <1>5 DEF RecvNothing
  <2> QED
    BY <2>1, <2>2, <2>3, FrameTypes
<1>6. ASSUME NEW p \in Peers, CheckLimit(p)
      PROVE  ServerType' /\ ListsType' /\ CastType' /\ ConnType' /\ HandlersType'
  <2>1. ConnType'
    <3>1. CASE EndHandler(p)
      BY <3>1, CloseType DEF EndHandler
    <3>2. CASE UNCHANGED connVars
      BY <3>2, FrameTypes
    <3> QED
      BY <1>6, <3>1, <3>2 DEF CheckLimit
  <2>2. HandlersType'
    BY <1>6 DEF CheckLimit, EndHandler, Goto, HandlersType, HandlerPcs
  <2>3. UNCHANGED serverVars /\ UNCHANGED listVars /\ UNCHANGED castVars
    BY <1>6 DEF CheckLimit
  <2> QED
    BY <2>1, <2>2, <2>3, FrameTypes
<1>7. ASSUME NEW p \in Peers, Enlist(p)
      PROVE  ServerType' /\ ListsType' /\ CastType' /\ ConnType' /\ HandlersType'
  <2>1. ListsType'
    <3>1. fd[p] \in Fds
      BY <1>7 DEF Enlist, ConnType, HandlersOpen
    <3> QED
      BY <1>7, <3>1 DEF Enlist, ListsType
  <2>2. ConnType'
    <3>1. Len(log) \in Nat
      BY LenProperties DEF CastType
    <3> QED
      BY <1>7, <3>1 DEF Enlist, ConnType
  <2>3. HandlersType'
    BY <1>7 DEF Enlist, Goto, HandlersType, HandlerPcs
  <2>4. UNCHANGED serverVars /\ UNCHANGED castVars
    BY <1>7 DEF Enlist
  <2> QED
    BY <2>1, <2>2, <2>3, <2>4, FrameTypes
<1>8. ASSUME NEW p \in Peers, ServeTop(p)
      PROVE  ServerType' /\ ListsType' /\ CastType' /\ ConnType' /\ HandlersType'
  <2>1. HandlersType'
    BY <1>8 DEF ServeTop, Goto, HandlersType, HandlerPcs
  <2>2. UNCHANGED serverVars /\ UNCHANGED listVars /\ UNCHANGED castVars /\ UNCHANGED connVars
    BY <1>8 DEF ServeTop
  <2> QED
    BY <2>1, <2>2, FrameTypes
<1>9. ASSUME NEW p \in Peers, RecvEnds(p)
      PROVE  ServerType' /\ ListsType' /\ CastType' /\ ConnType' /\ HandlersType'
  <2>1. HandlersType'
    BY <1>9 DEF RecvEnds, Goto, HandlersType, HandlerPcs
  <2>2. UNCHANGED serverVars /\ UNCHANGED listVars /\ UNCHANGED castVars /\ UNCHANGED connVars
    BY <1>9 DEF RecvEnds
  <2> QED
    BY <2>1, <2>2, FrameTypes
<1>10. ASSUME NEW p \in Peers, BeginRelay(p)
      PROVE  ServerType' /\ ListsType' /\ CastType' /\ ConnType' /\ HandlersType'
  <2>1. CastType'
    BY <1>10, BeginType DEF BeginRelay, Casters
  <2>2. HandlersType'
    BY <1>10 DEF BeginRelay, Goto, HandlersType, HandlerPcs
  <2>3. UNCHANGED serverVars /\ UNCHANGED listVars /\ UNCHANGED connVars
    BY <1>10 DEF BeginRelay
  <2> QED
    BY <2>1, <2>2, <2>3, FrameTypes
<1>11. ASSUME NEW p \in Peers, Leave(p)
      PROVE  ServerType' /\ ListsType' /\ CastType' /\ ConnType' /\ HandlersType'
  <2>1. ListsType'
    BY <1>11 DEF Leave, ListsType, listVars
  <2>2. ConnType'
    <3>1. CASE EndHandler(p)
      BY <3>1, CloseType DEF EndHandler
    <3>2. CASE UNCHANGED connVars
      BY <3>2, FrameTypes
    <3> QED
      BY <1>11, <3>1, <3>2 DEF Leave
  <2>3. HandlersType'
    BY <1>11 DEF Leave, EndHandler, Goto, HandlersType, HandlerPcs
  <2>4. UNCHANGED serverVars /\ UNCHANGED castVars
    BY <1>11 DEF Leave
  <2> QED
    BY <2>1, <2>2, <2>3, <2>4, FrameTypes
<1>12. ASSUME NEW p \in Peers, Discard(p)
      PROVE  ServerType' /\ ListsType' /\ CastType' /\ ConnType' /\ HandlersType'
  <2>1. HandlersType'
    BY <1>12 DEF Discard, Goto, HandlersType, HandlerPcs
  <2>2. UNCHANGED serverVars /\ UNCHANGED listVars /\ UNCHANGED castVars /\ UNCHANGED connVars
    BY <1>12 DEF Discard
  <2> QED
    BY <2>1, <2>2, FrameTypes
<1>13. ASSUME NEW p \in Peers, RecvChunk(p)
      PROVE  ServerType' /\ ListsType' /\ CastType' /\ ConnType' /\ HandlersType'
  <2>1. HandlersType'
    BY <1>13 DEF RecvChunk, Goto, HandlersType, HandlerPcs
  <2>2. UNCHANGED serverVars /\ UNCHANGED listVars /\ UNCHANGED castVars /\ UNCHANGED connVars
    BY <1>13 DEF RecvChunk
  <2> QED
    BY <2>1, <2>2, FrameTypes
<1>14. ASSUME NEW p \in Peers, Ask(p)
      PROVE  ServerType' /\ ListsType' /\ CastType' /\ ConnType' /\ HandlersType'
  <2>1. ConnType'
    <3>1. asked' \in [Peers -> Kinds \cup {"nothing"}]
      <4>1. PICK k \in Asks[p] : asked' = [asked EXCEPT ![p] = k]
        BY <1>14 DEF Ask
      <4>2. k \in Kinds
        BY <4>1, <1>14, PeersAssumption
      <4>3. asked \in [Peers -> Kinds \cup {"nothing"}]
        BY DEF ConnType
      <4> QED
        BY <4>1, <4>2, <4>3
    <3> QED
      BY <1>14, <3>1 DEF Ask, ConnType
  <2>2. UNCHANGED serverVars /\ UNCHANGED listVars /\ UNCHANGED castVars /\ UNCHANGED pc
    BY <1>14 DEF Ask
  <2> QED
    BY <2>1, <2>2, FrameTypes
<1>15. ASSUME NEW p \in Peers, HangUp(p)
      PROVE  ServerType' /\ ListsType' /\ CastType' /\ ConnType' /\ HandlersType'
  <2>1. ConnType'
    BY <1>15 DEF HangUp, ConnType
  <2>2. UNCHANGED serverVars /\ UNCHANGED listVars /\ UNCHANGED castVars /\ UNCHANGED pc
    BY <1>15 DEF HangUp
  <2> QED
    BY <2>1, <2>2, FrameTypes
<1>16. ASSUME NEW p \in Peers, Stall(p)
      PROVE  ServerType' /\ ListsType' /\ CastType' /\ ConnType' /\ HandlersType'
  <2>1. ConnType'
    BY <1>16 DEF Stall, ConnType
  <2>2. UNCHANGED serverVars /\ UNCHANGED listVars /\ UNCHANGED castVars /\ UNCHANGED pc
    BY <1>16 DEF Stall
  <2> QED
    BY <2>1, <2>2, FrameTypes
<1>17. ASSUME NEW p \in Peers, Resume(p)
      PROVE  ServerType' /\ ListsType' /\ CastType' /\ ConnType' /\ HandlersType'
  <2>1. ConnType'
    BY <1>17 DEF Resume, ConnType
  <2>2. UNCHANGED serverVars /\ UNCHANGED listVars /\ UNCHANGED castVars /\ UNCHANGED pc
    BY <1>17 DEF Resume
  <2> QED
    BY <2>1, <2>2, FrameTypes
<1>18. CASE BeginFeed
  <2>1. CastType'
    BY <1>18, BeginType DEF BeginFeed, Casters
  <2>2. UNCHANGED serverVars /\ UNCHANGED listVars /\ UNCHANGED connVars /\ UNCHANGED pc
    BY <1>18 DEF BeginFeed
  <2> QED
    BY <2>1, <2>2, FrameTypes
<1>19. ASSUME NEW b \in Casters, EndCast(b)
      PROVE  ServerType' /\ ListsType' /\ CastType' /\ ConnType' /\ HandlersType'
  <2>1. ListsType'
    BY <1>19 DEF EndCast, DropDead, ListsType
  <2>2. CastType'
    BY <1>19 DEF EndCast, CastType
  <2>3. ConnType'
    <3>1. shut' \subseteq Fds
      BY <1>19 DEF EndCast, DropDead, ConnType, CastType
    <3> QED
      BY <1>19, <3>1 DEF EndCast, ConnType
  <2>4. HandlersType'
    BY <1>19 DEF EndCast, Goto, HandlersType, HandlerPcs
  <2>5. UNCHANGED serverVars
    BY <1>19 DEF EndCast
  <2> QED
    BY <2>1, <2>2, <2>3, <2>4, <2>5, FrameTypes
<1>20. ASSUME NEW b \in Casters, NEW f \in Fds, SendWorks(b, f)
      PROVE  ServerType' /\ ListsType' /\ CastType' /\ ConnType' /\ HandlersType'
  <2>1. CastType'
    BY <1>20 DEF SendWorks, CastType
  <2>2. ConnType'
    <3>1. chunk[b] \in Chunks \cup {<<>>}
      BY DEF CastType
    <3>2. PICK q \in Peers : got' = [got EXCEPT ![q] = Append(got[q], chunk[b])]
      BY <1>20 DEF SendWorks, Owner
    <3>3. Append(got[q], chunk[b]) \in Seq(Chunks \cup {<<>>})
      BY <3>1, AppendProperties DEF ConnType
    <3>4. got' \in [Peers -> Seq(Chunks \cup {<<>>})]
      BY <3>2, <3>3 DEF ConnType
    <3> QED
      BY <1>20, <3>4 DEF SendWorks, ConnType
  <2>3. UNCHANGED serverVars /\ UNCHANGED listVars /\ UNCHANGED pc
    BY <1>20 DEF SendWorks
  <2> QED
    BY <2>1, <2>2, <2>3, FrameTypes
<1>21. ASSUME NEW b \in Casters, NEW f \in Fds, SendFails(b, f)
      PROVE  ServerType' /\ ListsType' /\ CastType' /\ ConnType' /\ HandlersType'
  <2>1. CastType'
    BY <1>21 DEF SendFails, CastType
  <2>2. UNCHANGED serverVars /\ UNCHANGED listVars /\ UNCHANGED connVars /\ UNCHANGED pc
    BY <1>21 DEF SendFails
  <2> QED
    BY <2>1, <2>2, FrameTypes
<1>22. CASE CallStop
  <2>1. ServerType'
    BY <1>22 DEF CallStop, ServerType
  <2>2. UNCHANGED listVars /\ UNCHANGED castVars /\ UNCHANGED connVars /\ UNCHANGED pc
    BY <1>22 DEF CallStop
  <2> QED
    BY <2>1, <2>2, FrameTypes
<1>23. CASE CloseServer
  <2>1. ServerType'
    BY <1>23 DEF CloseServer, ServerType
  <2>2. UNCHANGED listVars /\ UNCHANGED castVars /\ UNCHANGED connVars /\ UNCHANGED pc
    BY <1>23 DEF CloseServer
  <2> QED
    BY <2>1, <2>2, FrameTypes
<1>24. CASE JoinAccept
  <2>1. ServerType'
    BY <1>24 DEF JoinAccept, ServerType
  <2>2. UNCHANGED listVars /\ UNCHANGED castVars /\ UNCHANGED connVars /\ UNCHANGED pc
    BY <1>24 DEF JoinAccept
  <2> QED
    BY <2>1, <2>2, FrameTypes
<1>25. CASE ShutDown
  <2>1. ServerType'
    BY <1>25 DEF ShutDown, ServerType
  <2>2. ConnType'
    <3>1. shut' \subseteq Fds
      BY <1>25 DEF ShutDown, ToShut, ConnType, ListsType
    <3> QED
      BY <1>25, <3>1 DEF ShutDown, ConnType
  <2>3. UNCHANGED listVars /\ UNCHANGED castVars /\ UNCHANGED pc
    BY <1>25 DEF ShutDown
  <2> QED
    BY <2>1, <2>2, <2>3, FrameTypes
<1>26. CASE JoinHandlers
  <2>1. ServerType'
    BY <1>26 DEF JoinHandlers, ServerType
  <2>2. HandlersType'
    BY <1>26 DEF JoinHandlers, HandlersType, HandlerPcs
  <2>3. UNCHANGED listVars /\ UNCHANGED castVars /\ UNCHANGED connVars
    BY <1>26 DEF JoinHandlers
  <2> QED
    BY <2>1, <2>2, <2>3, FrameTypes
<1>27. CASE ClearLists
  <2>1. ServerType'
    BY <1>27 DEF ClearLists, ServerType
  <2>2. ListsType'
    BY <1>27 DEF ClearLists, ListsType
  <2>3. UNCHANGED castVars /\ UNCHANGED connVars /\ UNCHANGED pc
    BY <1>27 DEF ClearLists
  <2> QED
    BY <2>1, <2>2, <2>3, FrameTypes
<1>28. CASE StartAgain
  <2>1. ServerType'
    BY <1>28 DEF StartAgain, ServerType
  <2>2. UNCHANGED listVars /\ UNCHANGED castVars /\ UNCHANGED connVars /\ UNCHANGED pc
    BY <1>28 DEF StartAgain
  <2> QED
    BY <2>1, <2>2, FrameTypes
<1>29. CASE UNCHANGED vars
  BY <1>29, FrameTypes DEF vars
<1> QED
  BY <1>1, <1>2, <1>3, <1>4, <1>5, <1>6, <1>7, <1>8, <1>9, <1>10, <1>11, <1>12, <1>13,
     <1>14, <1>15, <1>16, <1>17, <1>18, <1>19, <1>20, <1>21, <1>22, <1>23, <1>24, <1>25,
     <1>26, <1>27, <1>28, <1>29
  DEF Next, AcceptStep, Handshake, Serve, PeerActs, Cast, StopStep, Casters


-----------------------------------------------------------------------------
(* Steps used more than once *)

(* A handler that is not serving ends: nothing on the lists was its own.    *)
LEMMA EndHandlerStep ==
    ASSUME ConnType, HandlersType, HandlersInv, NEW p \in Peers,
           pc[p] \in {"request", "check", "close"}, EndHandler(p)
    PROVE  /\ UNCHANGED <<threads, chunk>> => HandlersInv'
           /\ ListedAreServed /\ UNCHANGED listVars => ListedAreServed'
           /\ NobodyForgotten /\ UNCHANGED listVars => NobodyForgotten'
<1>1. pc'[p] = "ended" /\ fd'[p] = None /\ asked'[p] = "nothing" /\ shut' = shut \ {fd[p]}
  BY DEF EndHandler, Goto, Close, ConnType, HandlersType
<1>2. \A q \in Peers : q # p => pc'[q] = pc[q] /\ fd'[q] = fd[q] /\ asked'[q] = asked[q]
  BY DEF EndHandler, Goto, Close
<1>3. \A q \in Peers : q # p /\ fd[q] # None => fd[q] # fd[p]
  BY DEF HandlersInv, OneOwner
<1>4. ASSUME UNCHANGED <<threads, chunk>> PROVE HandlersInv'
  <2>1. HandlersOpen' /\ OneOwner'
    BY <1>1, <1>2 DEF HandlersInv, HandlersOpen, OneOwner
  <2>2. RequestKnown'
    BY <1>1, <1>2, <1>4 DEF HandlersInv, RequestKnown
  <2>3. ThreadsTracked'
    BY <1>1, <1>2, <1>4 DEF HandlersInv, ThreadsTracked
  <2> QED
    BY <2>1, <2>2, <2>3 DEF HandlersInv
<1>5. ASSUME ListedAreServed, UNCHANGED listVars PROVE ListedAreServed'
  <2>1. p \notin {q \in Peers : pc[q] \in Serving}
    BY DEF Serving
  <2> QED
    BY <1>2, <1>5, <2>1 DEF ListedAreServed, Owner, listVars
<1>6. ASSUME NobodyForgotten, UNCHANGED listVars PROVE NobodyForgotten'
  <2>1. \A q \in Peers : pc[q] \in {"serve", "recv"} => fd[q] # None
    BY DEF HandlersInv, HandlersOpen
  <2> QED
    BY <1>1, <1>2, <1>3, <1>6, <2>1 DEF NobodyForgotten, listVars
<1> QED
  BY <1>4, <1>5, <1>6

(* Only a source ends a relay, and it goes on serving.                      *)
LEMMA EndCastPc ==
    ASSUME HandlersType, HandlersInv, NEW b \in Casters, EndCast(b)
    PROVE  \A q \in Peers :
              \/ pc'[q] = pc[q] /\ q # b
              \/ q = b /\ pc[q] = "relaying" /\ pc'[q] = "serve" /\ asked[q] = "POST"
<1>1. CASE b = App
  BY <1>1, NamesAssumption DEF EndCast
<1>2. CASE b \in Peers
  <2>1. b # App
    BY <1>2, NamesAssumption
  <2>2. pc[b] = "relaying" /\ asked[b] = "POST"
    BY <1>2 DEF EndCast, HandlersInv, RequestKnown
  <2> QED
    BY <1>2, <2>1, <2>2 DEF EndCast, Goto, HandlersType
<1> QED
  BY <1>1, <1>2 DEF Casters


(* Every step keeps what is known of the handlers.                          *)
LEMMA HandlersInvStep ==
    TypeOK /\ HandlersInv /\ StopPhase /\ [Next]_vars => HandlersInv'
<1> SUFFICES ASSUME ServerType, ListsType, CastType, ConnType, HandlersType,
                    HandlersInv, StopPhase, [Next]_vars
             PROVE  HandlersInv'
  BY DEF TypeOK, HandlersType
<1>1. CASE AcceptTop
  BY <1>1 DEF AcceptTop, HandlersInv, HandlersOpen, OneOwner, RequestKnown, ThreadsTracked,
     serverVars, castVars, connVars
<1>2. CASE AcceptFails
  BY <1>2 DEF AcceptFails, HandlersInv, HandlersOpen, OneOwner, RequestKnown,
     ThreadsTracked, serverVars, castVars, connVars
<1>3. ASSUME NEW p \in Peers, Accept(p)
      PROVE  HandlersInv'
  <2>1. PICK f \in FreeFds : fd' = [fd EXCEPT ![p] = f]
    BY <1>3 DEF Accept
  <2>2. f # None /\ \A q \in Peers : fd[q] # f
    BY FdsAssumption DEF FreeFds, Owner
  <2>3. /\ pc[p] = "off" /\ pc'[p] = "request" /\ UNCHANGED <<asked, chunk>>
        /\ \A q \in Peers : q # p =>
              \/ pc'[q] = pc[q]
              \/ pc[q] = "ended" /\ pc'[q] = "off"
        /\ p \in threads'
        /\ \A q \in threads : pc[q] # "ended" => q \in threads'
        /\ \A q \in threads : pc[q] = "ended" => pc'[q] = "off"
    BY <1>3 DEF Accept, castVars, ServerType
  <2>4. HandlersOpen' /\ OneOwner'
    BY <2>1, <2>2, <2>3 DEF HandlersInv, HandlersOpen, OneOwner, ConnType
  <2>5. RequestKnown'
    BY <2>3 DEF HandlersInv, RequestKnown
  <2>6. ThreadsTracked'
    BY <2>3 DEF HandlersInv, ThreadsTracked
  <2> QED
    BY <2>4, <2>5, <2>6 DEF HandlersInv
<1>4. ASSUME NEW p \in Peers, RecvRequest(p)
      PROVE  HandlersInv'
  <2>1. pc[p] = "request" /\ UNCHANGED <<threads, chunk>>
    BY <1>4 DEF RecvRequest, serverVars, castVars
  <2>2. CASE EndHandler(p)
    BY <2>1, <2>2, EndHandlerStep
  <2>3. CASE Goto(p, "check") /\ UNCHANGED connVars
    <3>1. UNCHANGED connVars /\ pc' = [pc EXCEPT ![p] = "check"]
      BY <2>3 DEF Goto
    <3> QED
      BY <1>4, <2>1, <2>2, <3>1 DEF RecvRequest, HandlersInv, HandlersOpen, OneOwner,
         RequestKnown, ThreadsTracked, ConnType, Kinds, connVars
  <2> QED
    BY <1>4, <2>2, <2>3 DEF RecvRequest
<1>5. ASSUME NEW p \in Peers, RecvNothing(p)
      PROVE  HandlersInv'
  BY <1>5, EndHandlerStep DEF RecvNothing, serverVars, castVars
<1>6. ASSUME NEW p \in Peers, CheckLimit(p)
      PROVE  HandlersInv'
  <2>1. pc[p] = "check" /\ UNCHANGED <<threads, chunk>>
    BY <1>6 DEF CheckLimit, serverVars, castVars
  <2>2. CASE EndHandler(p)
    BY <2>1, <2>2, EndHandlerStep
  <2>3. CASE Goto(p, "enlist") /\ UNCHANGED connVars
    <3>1. UNCHANGED connVars /\ pc' = [pc EXCEPT ![p] = "enlist"]
      BY <2>3 DEF Goto
    <3> QED
      BY <1>6, <2>1, <2>2, <3>1 DEF HandlersInv, HandlersOpen, OneOwner, RequestKnown,
         ThreadsTracked, connVars
  <2> QED
    BY <1>6, <2>2, <2>3 DEF CheckLimit
<1>7. ASSUME NEW p \in Peers, Enlist(p)
      PROVE  HandlersInv'
  BY <1>7 DEF Enlist, Goto, HandlersInv, HandlersOpen, OneOwner, RequestKnown,
     ThreadsTracked, serverVars, castVars, connVars
<1>8. ASSUME NEW p \in Peers, ServeTop(p)
      PROVE  HandlersInv'
  BY <1>8 DEF ServeTop, Goto, HandlersInv, HandlersOpen, OneOwner, RequestKnown,
     ThreadsTracked, serverVars, castVars, connVars
<1>9. ASSUME NEW p \in Peers, RecvEnds(p)
      PROVE  HandlersInv'
  BY <1>9 DEF RecvEnds, Goto, HandlersInv, HandlersOpen, OneOwner, RequestKnown,
     ThreadsTracked, serverVars, castVars, connVars
<1>10. ASSUME NEW p \in Peers, BeginRelay(p)
      PROVE  HandlersInv'
  BY <1>10 DEF BeginRelay, Goto, Begin, HandlersInv, HandlersOpen, OneOwner, RequestKnown,
     ThreadsTracked, HandlersType, serverVars, castVars, connVars
<1>11. ASSUME NEW p \in Peers, Leave(p)
      PROVE  HandlersInv'
  <2>1. pc[p] \in {"leave", "close"} /\ UNCHANGED <<threads, chunk>>
    BY <1>11 DEF Leave, serverVars, castVars
  <2>2. CASE pc[p] = "close" /\ EndHandler(p)
    BY <2>1, <2>2, EndHandlerStep
  <2>3. CASE pc[p] = "leave" /\ Goto(p, "close") /\ UNCHANGED connVars
    BY <2>1, <2>3 DEF Goto, HandlersInv, HandlersOpen, OneOwner, RequestKnown, ThreadsTracked,
                      HandlersType, connVars
  <2> QED
    BY <1>11, <2>2, <2>3 DEF Leave
<1>12. ASSUME NEW p \in Peers, Discard(p)
      PROVE  HandlersInv'
  BY <1>12 DEF Discard, Goto, HandlersInv, HandlersOpen, OneOwner, RequestKnown,
     ThreadsTracked, serverVars, castVars, connVars
<1>13. ASSUME NEW p \in Peers, RecvChunk(p)
      PROVE  HandlersInv'
  BY <1>13 DEF RecvChunk, Goto, HandlersInv, HandlersOpen, OneOwner, RequestKnown,
     ThreadsTracked, serverVars, castVars, connVars
<1>14. ASSUME NEW p \in Peers, Ask(p)
      PROVE  HandlersInv'
  BY <1>14 DEF Ask, HandlersInv, HandlersOpen, OneOwner, RequestKnown, ThreadsTracked,
     serverVars, castVars
<1>15. ASSUME NEW p \in Peers, HangUp(p)
      PROVE  HandlersInv'
  BY <1>15 DEF HangUp, HandlersInv, HandlersOpen, OneOwner, RequestKnown, ThreadsTracked,
     serverVars, castVars
<1>16. ASSUME NEW p \in Peers, Stall(p)
      PROVE  HandlersInv'
  BY <1>16 DEF Stall, HandlersInv, HandlersOpen, OneOwner, RequestKnown, ThreadsTracked,
     serverVars, castVars
<1>17. ASSUME NEW p \in Peers, Resume(p)
      PROVE  HandlersInv'
  BY <1>17 DEF Resume, HandlersInv, HandlersOpen, OneOwner, RequestKnown, ThreadsTracked,
     serverVars, castVars
<1>18. CASE BeginFeed
  <2>1. \A q \in Peers : chunk'[q] = chunk[q]
    BY <1>18, NamesAssumption DEF BeginFeed, Begin
  <2> QED
    BY <1>18, <2>1 DEF BeginFeed, HandlersInv, HandlersOpen, OneOwner, RequestKnown,
                      ThreadsTracked, serverVars, connVars
<1>19. ASSUME NEW b \in Casters, EndCast(b)
      PROVE  HandlersInv'
  <2>1. \A q \in Peers : chunk'[q] # <<>> => q # b /\ chunk[q] # <<>>
    BY <1>19 DEF EndCast, CastType
  <2>2. UNCHANGED <<fd, asked, threads>>
    BY <1>19 DEF EndCast, serverVars
  <2> QED
    BY <1>19, <2>1, <2>2, EndCastPc DEF HandlersInv, HandlersOpen, OneOwner, RequestKnown,
                                      ThreadsTracked
<1>20. ASSUME NEW b \in Casters, NEW f \in Fds, SendWorks(b, f)
      PROVE  HandlersInv'
  BY <1>20 DEF SendWorks, HandlersInv, HandlersOpen, OneOwner, RequestKnown, ThreadsTracked,
     serverVars, connVars
<1>21. ASSUME NEW b \in Casters, NEW f \in Fds, SendFails(b, f)
      PROVE  HandlersInv'
  BY <1>21 DEF SendFails, HandlersInv, HandlersOpen, OneOwner, RequestKnown, ThreadsTracked,
     serverVars, castVars, connVars
<1>22. CASE CallStop
  BY <1>22 DEF CallStop, HandlersInv, HandlersOpen, OneOwner, RequestKnown, ThreadsTracked,
     serverVars, castVars, connVars
<1>23. CASE CloseServer
  BY <1>23 DEF CloseServer, HandlersInv, HandlersOpen, OneOwner, RequestKnown,
     ThreadsTracked, serverVars, castVars, connVars
<1>24. CASE JoinAccept
  BY <1>24 DEF JoinAccept, HandlersInv, HandlersOpen, OneOwner, RequestKnown,
     ThreadsTracked, serverVars, castVars, connVars
<1>25. CASE ShutDown
  BY <1>25 DEF ShutDown, ToShut, HandlersInv, HandlersOpen, OneOwner, RequestKnown,
     ThreadsTracked, serverVars, castVars, connVars
<1>26. CASE JoinHandlers
  BY <1>26 DEF JoinHandlers, HandlersInv, HandlersOpen, OneOwner, RequestKnown,
     ThreadsTracked, serverVars, castVars, connVars
<1>27. CASE ClearLists
  BY <1>27 DEF ClearLists, HandlersInv, HandlersOpen, OneOwner, RequestKnown,
     ThreadsTracked, serverVars, castVars, connVars
<1>28. CASE StartAgain
  BY <1>28 DEF StartAgain, HandlersInv, HandlersOpen, OneOwner, RequestKnown,
     ThreadsTracked, serverVars, castVars, connVars
<1>29. CASE UNCHANGED vars
  BY <1>29 DEF vars, HandlersInv, HandlersOpen, OneOwner, RequestKnown, ThreadsTracked,
     serverVars, castVars, connVars
<1> QED
  BY <1>1, <1>2, <1>3, <1>4, <1>5, <1>6, <1>7, <1>8, <1>9, <1>10, <1>11, <1>12, <1>13,
     <1>14, <1>15, <1>16, <1>17, <1>18, <1>19, <1>20, <1>21, <1>22, <1>23, <1>24, <1>25,
     <1>26, <1>27, <1>28, <1>29
  DEF Next, AcceptStep, Handshake, Serve, PeerActs, Cast, StopStep, Casters

(* Every step keeps what is known of the progress of stop().                *)
LEMMA StopPhaseStep ==
    TypeOK /\ HandlersInv /\ StopPhase /\ [Next]_vars => StopPhase'
<1> SUFFICES ASSUME ServerType, ListsType, CastType, ConnType, HandlersType,
                    HandlersInv, StopPhase, [Next]_vars
             PROVE  StopPhase'
  BY DEF TypeOK, HandlersType
<1>1. CASE AcceptTop
  BY <1>1 DEF AcceptTop, StopPhase, listVars
<1>2. CASE AcceptFails
  BY <1>2 DEF AcceptFails, StopPhase, listVars
<1>3. ASSUME NEW p \in Peers, Accept(p)
      PROVE  StopPhase'
  BY <1>3 DEF Accept, StopPhase
<1>4. ASSUME NEW p \in Peers, RecvRequest(p)
      PROVE  StopPhase'
  BY <1>4 DEF RecvRequest, StopPhase, serverVars
<1>5. ASSUME NEW p \in Peers, RecvNothing(p)
      PROVE  StopPhase'
  BY <1>5 DEF RecvNothing, StopPhase, serverVars
<1>6. ASSUME NEW p \in Peers, CheckLimit(p)
      PROVE  StopPhase'
  BY <1>6 DEF CheckLimit, StopPhase, serverVars
<1>7. ASSUME NEW p \in Peers, Enlist(p)
      PROVE  StopPhase'
  BY <1>7 DEF Enlist, StopPhase, serverVars
<1>8. ASSUME NEW p \in Peers, ServeTop(p)
      PROVE  StopPhase'
  BY <1>8 DEF ServeTop, StopPhase, serverVars
<1>9. ASSUME NEW p \in Peers, RecvEnds(p)
      PROVE  StopPhase'
  BY <1>9 DEF RecvEnds, StopPhase, serverVars
<1>10. ASSUME NEW p \in Peers, BeginRelay(p)
      PROVE  StopPhase'
  BY <1>10 DEF BeginRelay, StopPhase, serverVars
<1>11. ASSUME NEW p \in Peers, Leave(p)
      PROVE  StopPhase'
  BY <1>11 DEF Leave, StopPhase, serverVars
<1>12. ASSUME NEW p \in Peers, Discard(p)
      PROVE  StopPhase'
  BY <1>12 DEF Discard, StopPhase, serverVars
<1>13. ASSUME NEW p \in Peers, RecvChunk(p)
      PROVE  StopPhase'
  BY <1>13 DEF RecvChunk, StopPhase, serverVars
<1>14. ASSUME NEW b \in Casters, EndCast(b)
      PROVE  StopPhase'
  <2>1. UNCHANGED <<stopPc, server, sources>> /\ clients' \subseteq clients
    BY <1>14 DEF EndCast, DropDead, serverVars
  <2> QED
    BY <1>14, <2>1, EndCastPc DEF StopPhase
<1>15. CASE CallStop
  BY <1>15 DEF CallStop, StopPhase
<1>16. CASE CloseServer
  BY <1>16 DEF CloseServer, StopPhase
<1>17. CASE JoinAccept
  BY <1>17 DEF JoinAccept, StopPhase
<1>18. CASE ShutDown
  BY <1>18 DEF ShutDown, StopPhase
<1>19. CASE JoinHandlers
  BY <1>19 DEF JoinHandlers, StopPhase, HandlersInv, ThreadsTracked
<1>20. CASE ClearLists
  BY <1>20 DEF ClearLists, StopPhase
<1>21. CASE StartAgain
  BY <1>21 DEF StartAgain, StopPhase
<1>22. ASSUME NEW p \in Peers, Ask(p)
      PROVE  StopPhase'
  BY <1>22 DEF Ask, StopPhase, serverVars, listVars
<1>23. ASSUME NEW p \in Peers, HangUp(p)
      PROVE  StopPhase'
  BY <1>23 DEF HangUp, StopPhase, serverVars, listVars
<1>24. ASSUME NEW p \in Peers, Stall(p)
      PROVE  StopPhase'
  BY <1>24 DEF Stall, StopPhase, serverVars, listVars
<1>25. ASSUME NEW p \in Peers, Resume(p)
      PROVE  StopPhase'
  BY <1>25 DEF Resume, StopPhase, serverVars, listVars
<1>26. CASE BeginFeed
  BY <1>26 DEF BeginFeed, StopPhase, serverVars, listVars
<1>27. ASSUME NEW b \in Casters, NEW f \in Fds, SendWorks(b, f)
      PROVE  StopPhase'
  BY <1>27 DEF SendWorks, StopPhase, serverVars, listVars
<1>28. ASSUME NEW b \in Casters, NEW f \in Fds, SendFails(b, f)
      PROVE  StopPhase'
  BY <1>28 DEF SendFails, StopPhase, serverVars, listVars
<1>29. CASE UNCHANGED vars
  BY <1>29 DEF vars, StopPhase, serverVars, listVars
<1> QED
  BY <1>1, <1>2, <1>3, <1>4, <1>5, <1>6, <1>7, <1>8, <1>9, <1>10, <1>11, <1>12, <1>13,
     <1>14, <1>15, <1>16, <1>17, <1>18, <1>19, <1>20, <1>21, <1>22, <1>23, <1>24, <1>25,
     <1>26, <1>27, <1>28, <1>29
  DEF Next, AcceptStep, Handshake, Serve, PeerActs, Cast, StopStep, Casters

(* Every step keeps the lists to descriptors that are served.               *)
LEMMA ListedAreServedStep ==
    TypeOK /\ HandlersInv /\ StopPhase /\ ListedAreServed /\ [Next]_vars => ListedAreServed'
<1> SUFFICES ASSUME ServerType, ListsType, CastType, ConnType, HandlersType,
                    HandlersInv, StopPhase, ListedAreServed, [Next]_vars
             PROVE  ListedAreServed'
  BY DEF TypeOK, HandlersType
<1>1. ASSUME NEW p \in Peers, Accept(p)
      PROVE  ListedAreServed'
  <2>1. \A q \in Peers : pc[q] \in Serving =>
            pc'[q] = pc[q] /\ fd'[q] = fd[q] /\ asked'[q] = asked[q]
    BY <1>1 DEF Accept, Serving
  <2> QED
    BY <1>1, <2>1 DEF Accept, ListedAreServed, Owner, listVars
<1>2. ASSUME NEW p \in Peers, RecvRequest(p)
      PROVE  ListedAreServed'
  <2>1. pc[p] = "request" /\ UNCHANGED listVars
    BY <1>2 DEF RecvRequest
  <2>2. CASE EndHandler(p)
    BY <2>1, <2>2, EndHandlerStep
  <2>3. CASE Goto(p, "check") /\ UNCHANGED connVars
    <3>1. UNCHANGED connVars /\ pc' = [pc EXCEPT ![p] = "check"]
      BY <2>3 DEF Goto
    <3>2. \A q \in Peers : pc[q] \in Serving => pc'[q] = pc[q]
      BY <2>1, <3>1 DEF Serving
    <3> QED
      BY <2>1, <3>1, <3>2 DEF ListedAreServed, Owner, connVars, listVars
  <2> QED
    BY <1>2, <2>2, <2>3 DEF RecvRequest
<1>3. ASSUME NEW p \in Peers, RecvNothing(p)
      PROVE  ListedAreServed'
  BY <1>3, EndHandlerStep DEF RecvNothing
<1>4. ASSUME NEW p \in Peers, CheckLimit(p)
      PROVE  ListedAreServed'
  <2>1. pc[p] = "check" /\ UNCHANGED listVars
    BY <1>4 DEF CheckLimit
  <2>2. CASE EndHandler(p)
    BY <2>1, <2>2, EndHandlerStep
  <2>3. CASE Goto(p, "enlist") /\ UNCHANGED connVars
    <3>1. UNCHANGED connVars /\ pc' = [pc EXCEPT ![p] = "enlist"]
      BY <2>3 DEF Goto
    <3>2. \A q \in Peers : pc[q] \in Serving => pc'[q] = pc[q]
      BY <2>1, <3>1 DEF Serving
    <3> QED
      BY <2>1, <3>1, <3>2 DEF ListedAreServed, Owner, connVars, listVars
  <2> QED
    BY <1>4, <2>2, <2>3 DEF CheckLimit
<1>5. ASSUME NEW p \in Peers, Enlist(p)
      PROVE  ListedAreServed'
  <2>1. UNCHANGED <<fd, asked>> /\ asked[p] \in {"GET", "POST"}
    BY <1>5 DEF Enlist, HandlersInv, RequestKnown
  <2>2. pc'[p] \in Serving /\ \A q \in Peers : pc[q] \in Serving => pc'[q] \in Serving
    BY <1>5 DEF Enlist, Goto, Serving, HandlersType
  <2>3. CASE asked[p] = "GET"
    BY <1>5, <2>1, <2>2, <2>3 DEF Enlist, ListedAreServed, Owner
  <2>4. CASE asked[p] = "POST"
    BY <1>5, <2>1, <2>2, <2>4 DEF Enlist, ListedAreServed, Owner
  <2> QED
    BY <2>1, <2>3, <2>4
<1>6. ASSUME NEW p \in Peers, ServeTop(p)
      PROVE  ListedAreServed'
  BY <1>6 DEF ServeTop, Goto, ListedAreServed, Serving, Owner, listVars, connVars
<1>7. ASSUME NEW p \in Peers, RecvEnds(p)
      PROVE  ListedAreServed'
  BY <1>7 DEF RecvEnds, Goto, ListedAreServed, Serving, Owner, listVars, connVars
<1>8. ASSUME NEW p \in Peers, BeginRelay(p)
      PROVE  ListedAreServed'
  BY <1>8 DEF BeginRelay, Goto, ListedAreServed, Serving, Owner, listVars, connVars
<1>9. ASSUME NEW p \in Peers, Leave(p)
      PROVE  ListedAreServed'
  <2>1. CASE pc[p] = "close" /\ EndHandler(p) /\ UNCHANGED listVars
    BY <2>1, EndHandlerStep
  <2>2. CASE pc[p] = "leave"
    <3>1. UNCHANGED <<fd, asked>> /\ pc' = [pc EXCEPT ![p] = "close"]
      BY <1>9, <2>2 DEF Leave, Goto, connVars
    <3>2. clients' = clients \ {fd[p]} /\ sources' = sources \ {fd[p]}
      BY <1>9, <2>2 DEF Leave
    <3>3. \A q \in Peers : q # p => pc'[q] = pc[q]
      BY <3>1 DEF HandlersType
    <3> QED
      BY <3>1, <3>2, <3>3 DEF ListedAreServed, Owner
  <2> QED
    BY <1>9, <2>1, <2>2 DEF Leave
<1>10. ASSUME NEW p \in Peers, Discard(p)
      PROVE  ListedAreServed'
  BY <1>10 DEF Discard, Goto, ListedAreServed, Serving, Owner, listVars, connVars
<1>11. ASSUME NEW p \in Peers, RecvChunk(p)
      PROVE  ListedAreServed'
  BY <1>11 DEF RecvChunk, Goto, ListedAreServed, Serving, Owner, listVars, connVars
<1>12. ASSUME NEW p \in Peers, Ask(p)
      PROVE  ListedAreServed'
  BY <1>12 DEF Ask, ListedAreServed, Owner, listVars
<1>13. ASSUME NEW p \in Peers, HangUp(p)
      PROVE  ListedAreServed'
  BY <1>13 DEF HangUp, ListedAreServed, Owner, listVars
<1>14. ASSUME NEW p \in Peers, Stall(p)
      PROVE  ListedAreServed'
  BY <1>14 DEF Stall, ListedAreServed, Owner, listVars
<1>15. ASSUME NEW p \in Peers, Resume(p)
      PROVE  ListedAreServed'
  BY <1>15 DEF Resume, ListedAreServed, Owner, listVars
<1>16. ASSUME NEW b \in Casters, EndCast(b)
      PROVE  ListedAreServed'
  <2>1. UNCHANGED <<sources, fd, asked>> /\ clients' \subseteq clients
    BY <1>16 DEF EndCast, DropDead
  <2>2. \A q \in Peers : pc[q] \in Serving => pc'[q] \in Serving
    BY <1>16, EndCastPc DEF Serving
  <2> QED
    BY <2>1, <2>2 DEF ListedAreServed, Owner
<1>17. ASSUME NEW b \in Casters, NEW f \in Fds, SendWorks(b, f)
      PROVE  ListedAreServed'
  BY <1>17 DEF SendWorks, Owner, ListedAreServed, listVars
<1>18. CASE ShutDown
  BY <1>18 DEF ShutDown, ListedAreServed, Owner, listVars
<1>19. CASE JoinHandlers
  <2>1. \A q \in Peers : pc[q] \in Serving => pc'[q] = pc[q]
    BY <1>19 DEF JoinHandlers, Serving
  <2> QED
    BY <1>19, <2>1 DEF JoinHandlers, ListedAreServed, Owner, listVars, connVars
<1>20. CASE ClearLists
  BY <1>20 DEF ClearLists, ListedAreServed
<1>21. CASE AcceptTop
  BY <1>21 DEF AcceptTop, ListedAreServed, Owner, listVars, connVars
<1>22. CASE AcceptFails
  BY <1>22 DEF AcceptFails, ListedAreServed, Owner, listVars, connVars
<1>23. CASE BeginFeed
  BY <1>23 DEF BeginFeed, ListedAreServed, Owner, listVars, connVars
<1>24. ASSUME NEW b \in Casters, NEW f \in Fds, SendFails(b, f)
      PROVE  ListedAreServed'
  BY <1>24 DEF SendFails, ListedAreServed, Owner, listVars, connVars
<1>25. CASE CallStop
  BY <1>25 DEF CallStop, ListedAreServed, Owner, listVars, connVars
<1>26. CASE CloseServer
  BY <1>26 DEF CloseServer, ListedAreServed, Owner, listVars, connVars
<1>27. CASE JoinAccept
  BY <1>27 DEF JoinAccept, ListedAreServed, Owner, listVars, connVars
<1>28. CASE StartAgain
  BY <1>28 DEF StartAgain, ListedAreServed, Owner, listVars, connVars
<1>29. CASE UNCHANGED vars
  BY <1>29 DEF vars, ListedAreServed, Owner, listVars, connVars
<1> QED
  BY <1>1, <1>2, <1>3, <1>4, <1>5, <1>6, <1>7, <1>8, <1>9, <1>10, <1>11, <1>12, <1>13,
     <1>14, <1>15, <1>16, <1>17, <1>18, <1>19, <1>20, <1>21, <1>22, <1>23, <1>24, <1>25,
     <1>26, <1>27, <1>28, <1>29
  DEF Next, AcceptStep, Handshake, Serve, PeerActs, Cast, StopStep, Casters

(* Every step keeps clients either listed or shut down.                     *)
LEMMA NobodyForgottenStep ==
    TypeOK /\ HandlersInv /\ StopPhase /\ NobodyForgotten /\ [Next]_vars => NobodyForgotten'
<1> SUFFICES ASSUME ServerType, ListsType, CastType, ConnType, HandlersType,
                    HandlersInv, StopPhase, NobodyForgotten, [Next]_vars
             PROVE  NobodyForgotten'
  BY DEF TypeOK, HandlersType
<1>1. ASSUME NEW p \in Peers, Accept(p)
      PROVE  NobodyForgotten'
  BY <1>1 DEF Accept, NobodyForgotten, listVars
<1>2. ASSUME NEW p \in Peers, RecvRequest(p)
      PROVE  NobodyForgotten'
  <2>1. pc[p] = "request" /\ UNCHANGED listVars
    BY <1>2 DEF RecvRequest
  <2>2. CASE EndHandler(p)
    BY <2>1, <2>2, EndHandlerStep
  <2>3. CASE Goto(p, "check") /\ UNCHANGED connVars
    <3>1. UNCHANGED connVars /\ pc' = [pc EXCEPT ![p] = "check"]
      BY <2>3 DEF Goto
    <3> QED
      BY <2>1, <3>1 DEF NobodyForgotten, connVars, listVars
  <2> QED
    BY <1>2, <2>2, <2>3 DEF RecvRequest
<1>3. ASSUME NEW p \in Peers, RecvNothing(p)
      PROVE  NobodyForgotten'
  BY <1>3, EndHandlerStep DEF RecvNothing
<1>4. ASSUME NEW p \in Peers, CheckLimit(p)
      PROVE  NobodyForgotten'
  <2>1. pc[p] = "check" /\ UNCHANGED listVars
    BY <1>4 DEF CheckLimit
  <2>2. CASE EndHandler(p)
    BY <2>1, <2>2, EndHandlerStep
  <2>3. CASE Goto(p, "enlist") /\ UNCHANGED connVars
    <3>1. UNCHANGED connVars /\ pc' = [pc EXCEPT ![p] = "enlist"]
      BY <2>3 DEF Goto
    <3> QED
      BY <2>1, <3>1 DEF NobodyForgotten, connVars, listVars
  <2> QED
    BY <1>4, <2>2, <2>3 DEF CheckLimit
<1>5. ASSUME NEW p \in Peers, Enlist(p)
      PROVE  NobodyForgotten'
  BY <1>5 DEF Enlist, Goto, NobodyForgotten
<1>6. ASSUME NEW p \in Peers, ServeTop(p)
      PROVE  NobodyForgotten'
  BY <1>6 DEF ServeTop, Goto, NobodyForgotten, listVars, connVars
<1>7. ASSUME NEW p \in Peers, RecvEnds(p)
      PROVE  NobodyForgotten'
  BY <1>7 DEF RecvEnds, Goto, NobodyForgotten, listVars, connVars
<1>8. ASSUME NEW p \in Peers, BeginRelay(p)
      PROVE  NobodyForgotten'
  BY <1>8 DEF BeginRelay, Goto, NobodyForgotten, listVars, connVars
<1>9. ASSUME NEW p \in Peers, Leave(p)
      PROVE  NobodyForgotten'
  <2>1. CASE pc[p] = "close" /\ EndHandler(p) /\ UNCHANGED listVars
    BY <2>1, EndHandlerStep
  <2>2. CASE pc[p] = "leave"
    <3>1. UNCHANGED <<fd, asked, shut>> /\ pc' = [pc EXCEPT ![p] = "close"]
      BY <1>9, <2>2 DEF Leave, Goto, connVars
    <3>2. clients' = clients \ {fd[p]}
      BY <1>9, <2>2 DEF Leave
    <3>3. pc'[p] = "close" /\ \A q \in Peers : q # p => pc'[q] = pc[q]
      BY <3>1 DEF HandlersType
    <3>4. \A q \in Peers : q # p /\ pc[q] \in {"serve", "recv"} => fd[q] # fd[p]
      BY DEF HandlersInv, HandlersOpen, OneOwner
    <3> QED
      BY <3>1, <3>2, <3>3, <3>4 DEF NobodyForgotten
  <2> QED
    BY <1>9, <2>1, <2>2 DEF Leave
<1>10. ASSUME NEW p \in Peers, Discard(p)
      PROVE  NobodyForgotten'
  BY <1>10 DEF Discard, Goto, NobodyForgotten, listVars, connVars
<1>11. ASSUME NEW p \in Peers, RecvChunk(p)
      PROVE  NobodyForgotten'
  BY <1>11 DEF RecvChunk, Goto, NobodyForgotten, listVars, connVars
<1>12. ASSUME NEW p \in Peers, Ask(p)
      PROVE  NobodyForgotten'
  <2>1. \A q \in Peers : pc[q] \in {"serve", "recv"} => asked'[q] = asked[q]
    BY <1>12 DEF Ask, HandlersInv, RequestKnown
  <2> QED
    BY <1>12, <2>1 DEF Ask, NobodyForgotten, listVars
<1>13. ASSUME NEW p \in Peers, HangUp(p)
      PROVE  NobodyForgotten'
  BY <1>13 DEF HangUp, NobodyForgotten, listVars
<1>14. ASSUME NEW p \in Peers, Stall(p)
      PROVE  NobodyForgotten'
  BY <1>14 DEF Stall, NobodyForgotten, listVars
<1>15. ASSUME NEW p \in Peers, Resume(p)
      PROVE  NobodyForgotten'
  BY <1>15 DEF Resume, NobodyForgotten, listVars
<1>16. ASSUME NEW b \in Casters, EndCast(b)
      PROVE  NobodyForgotten'
  <2>1. /\ UNCHANGED <<fd, asked>>
        /\ clients' = clients \ dead[b] /\ shut' = shut \cup dead[b]
    BY <1>16 DEF EndCast, DropDead
  <2> QED
    BY <1>16, <2>1, EndCastPc DEF NobodyForgotten
<1>17. ASSUME NEW b \in Casters, NEW f \in Fds, SendWorks(b, f)
      PROVE  NobodyForgotten'
  BY <1>17 DEF SendWorks, NobodyForgotten, listVars
<1>18. CASE ShutDown
  BY <1>18 DEF ShutDown, NobodyForgotten, listVars
<1>19. CASE JoinHandlers
  BY <1>19 DEF JoinHandlers, NobodyForgotten, listVars, connVars
<1>20. CASE ClearLists
  BY <1>20 DEF ClearLists, NobodyForgotten, StopPhase
<1>21. CASE AcceptTop
  BY <1>21 DEF AcceptTop, NobodyForgotten, listVars, connVars
<1>22. CASE AcceptFails
  BY <1>22 DEF AcceptFails, NobodyForgotten, listVars, connVars
<1>23. CASE BeginFeed
  BY <1>23 DEF BeginFeed, NobodyForgotten, listVars, connVars
<1>24. ASSUME NEW b \in Casters, NEW f \in Fds, SendFails(b, f)
      PROVE  NobodyForgotten'
  BY <1>24 DEF SendFails, NobodyForgotten, listVars, connVars
<1>25. CASE CallStop
  BY <1>25 DEF CallStop, NobodyForgotten, listVars, connVars
<1>26. CASE CloseServer
  BY <1>26 DEF CloseServer, NobodyForgotten, listVars, connVars
<1>27. CASE JoinAccept
  BY <1>27 DEF JoinAccept, NobodyForgotten, listVars, connVars
<1>28. CASE StartAgain
  BY <1>28 DEF StartAgain, NobodyForgotten, listVars, connVars
<1>29. CASE UNCHANGED vars
  BY <1>29 DEF vars, NobodyForgotten, listVars, connVars
<1> QED
  BY <1>1, <1>2, <1>3, <1>4, <1>5, <1>6, <1>7, <1>8, <1>9, <1>10, <1>11, <1>12, <1>13,
     <1>14, <1>15, <1>16, <1>17, <1>18, <1>19, <1>20, <1>21, <1>22, <1>23, <1>24, <1>25,
     <1>26, <1>27, <1>28, <1>29
  DEF Next, AcceptStep, Handshake, Serve, PeerActs, Cast, StopStep, Casters

-----------------------------------------------------------------------------
(* Broadcasts: what every client has been handed                            *)

(* One broadcast at a time: it owns the lock, is sent what was logged last, *)
(* and only clients on the list are still to be sent to or failed.          *)
CastInv ==
    /\ \A b \in Casters : chunk[b] # <<>> <=> lock = b
    /\ \A b \in Casters : lock # b => todo[b] = {} /\ dead[b] = {}
    /\ \A b \in Casters : todo[b] \cup dead[b] \subseteq clients /\ todo[b] \cap dead[b] = {}
    /\ lock # "nobody" => Len(log) > 0 /\ chunk[lock] = log[Len(log)]

(* A client has been handed all chunks since it registered; one that the    *)
(* broadcast has not reached, or could not send to, lacks exactly the last. *)
(* A handler that does not serve has been handed nothing.                   *)
Owed(p) == lock # "nobody" /\ fd[p] \in todo[lock] \cup dead[lock]
Fed(p) ==
    IF Owed(p)
    THEN joined[p] < Len(log) /\ got[p] = SubSeq(log, joined[p] + 1, Len(log) - 1)
    ELSE got[p] = SubSeq(log, joined[p] + 1, Len(log))
FedInv ==
    \A p \in Peers :
        /\ joined[p] <= Len(log)
        /\ pc[p] \notin Serving \cup {"close"} => got[p] = <<>>
        /\ pc[p] \in Serving /\ fd[p] \in clients => Fed(p)

LEMMA EarlierPart ==
    ASSUME NEW C, NEW q \in Seq(C), NEW e \in C, NEW j \in 0..Len(q)
    PROVE  SubSeq(Append(q, e), j + 1, Len(q)) = SubSeq(q, j + 1, Len(q))
<1>1. \A i \in (j + 1)..Len(q) : Append(q, e)[i] = q[i]
  BY AppendProperties
<1> QED
  BY <1>1

LEMMA LastAdded ==
    ASSUME NEW C, NEW q \in Seq(C), NEW j \in Nat, j < Len(q)
    PROVE  Append(SubSeq(q, j + 1, Len(q) - 1), q[Len(q)]) = SubSeq(q, j + 1, Len(q))
OBVIOUS

LEMMA LastLeftOut ==
    ASSUME NEW C, NEW q \in Seq(C), NEW j \in Nat, j < Len(q),
           NEW due, due = SubSeq(q, j + 1, Len(q))
    PROVE  SubSeq(due, 1, Len(due) - 1) = SubSeq(q, j + 1, Len(q) - 1)
OBVIOUS

(* A step that broadcasts nothing, changes no list and starts or ends no    *)
(* service.                                                                 *)
LEMMA FedQuiet ==
    ASSUME CastInv, FedInv, UNCHANGED <<castVars, clients, fd, got, joined>>,
           \A q \in Peers :
              /\ pc'[q] \in Serving => pc[q] \in Serving
              /\ pc'[q] \notin Serving \cup {"close"} => pc[q] \notin Serving \cup {"close"}
    PROVE  CastInv' /\ FedInv'
BY DEF CastInv, FedInv, Fed, Owed, castVars

(* A handler that ends, which was not serving, takes nothing from others.   *)
LEMMA FedEnd ==
    ASSUME ConnType, HandlersType, CastInv, FedInv, CastType, NEW p \in Peers,
           pc[p] \in {"request", "check", "close"}, EndHandler(p),
           UNCHANGED castVars, UNCHANGED listVars
    PROVE  CastInv' /\ FedInv'
<1>1. /\ pc'[p] = "ended" /\ got'[p] = <<>> /\ joined'[p] = 0
      /\ \A q \in Peers : q # p =>
            /\ pc'[q] = pc[q] /\ got'[q] = got[q] /\ joined'[q] = joined[q] /\ fd'[q] = fd[q]
  BY DEF EndHandler, Goto, Close, ConnType, HandlersType
<1>2. CastInv'
  BY DEF CastInv, castVars, listVars
<1>3. Len(log) \in Nat
  BY LenProperties DEF CastType
<1>4. UNCHANGED <<lock, todo, dead, log, clients>>
  BY DEF castVars, listVars
<1>5. \A q \in Peers : q # p => (Fed(q) => Fed(q)')
  BY <1>1, <1>4 DEF Fed, Owed
<1>6. "ended" \notin Serving
  BY DEF Serving
<1>7. FedInv'
  BY <1>1, <1>3, <1>4, <1>5, <1>6 DEF FedInv
<1> QED
  BY <1>2, <1>7

LEMMA FedInOrderHolds == TypeOK /\ CastInv /\ FedInv => FedInOrder
<1> SUFFICES ASSUME CastType, ConnType, CastInv, FedInv, NEW p \in Peers,
                    pc[p] \in Serving, fd[p] \in clients,
                    NEW due, due = SubSeq(log, joined[p] + 1, Len(log))
             PROVE  \/ got[p] = due
                    \/ /\ lock # "nobody" /\ fd[p] \in todo[lock] \cup dead[lock]
                       /\ got[p] = SubSeq(due, 1, Len(due) - 1)
  BY DEF TypeOK, FedInOrder
<1>1. Fed(p) /\ joined[p] \in Nat /\ log \in Seq(Chunks)
  BY DEF FedInv, ConnType, CastType
<1> QED
  BY <1>1, LastLeftOut DEF Fed, Owed

(* A broadcast begins: it owes every client on the list its chunk.          *)
LEMMA FedBegin ==
    ASSUME CastType, ConnType, HandlersType, CastInv, FedInv, NEW b \in Casters, Begin(b),
           UNCHANGED <<clients, fd, got, joined>>,
           \A q \in Peers :
              /\ pc'[q] \in Serving => pc[q] \in Serving
              /\ pc'[q] \notin Serving \cup {"close"} => pc[q] \notin Serving \cup {"close"}
    PROVE  CastInv' /\ FedInv'
<1> DEFINE e == <<b, Len(log) + 1>>
<1>1. log \in Seq(Chunks) /\ Len(log) \in Nat /\ e \in Chunks /\ e # <<>>
  BY LenProperties DEF CastType, Chunks
<1>2. lock = "nobody" /\ "nobody" \notin Casters /\ lock' = b
  BY NamesAssumption DEF Begin, Locked, Casters
<1>3. /\ chunk' = [chunk EXCEPT ![b] = e] /\ todo' = [todo EXCEPT ![b] = clients]
      /\ dead' = dead /\ log' = Append(log, e)
  BY DEF Begin, CastType
<1>4. /\ Len(log') = Len(log) + 1 /\ log'[Len(log')] = e
  BY <1>1, <1>3, AppendProperties
<1> HIDE DEF e
<1>5. \A c \in Casters : todo[c] = {} /\ dead[c] = {} /\ chunk[c] = <<>>
  BY <1>2 DEF CastInv
<1>6. CastInv'
  BY <1>1, <1>2, <1>3, <1>4, <1>5 DEF CastInv, CastType
<1>7. ASSUME NEW q \in Peers, pc[q] \in Serving, fd[q] \in clients
      PROVE  Fed(q)'
  <2>1. got[q] = SubSeq(log, joined[q] + 1, Len(log)) /\ joined[q] \in 0..Len(log)
    BY <1>1, <1>2, <1>7 DEF FedInv, Fed, Owed, ConnType
  <2>2. Owed(q)'
    BY <1>2, <1>3, <1>7 DEF Owed, CastType
  <2>3. got[q] = SubSeq(log', joined[q] + 1, Len(log))
    BY <1>1, <1>3, <2>1, EarlierPart
  <2>4. Len(log') - 1 = Len(log) /\ joined[q] < Len(log')
    BY <1>1, <1>4, <2>1
  <2> QED
    BY <2>2, <2>3, <2>4 DEF Fed
<1>8. \A q \in Peers : joined[q] <= Len(log) => joined[q] <= Len(log')
  BY <1>1, <1>4 DEF ConnType
<1>9. FedInv'
  BY <1>7, <1>8 DEF FedInv
<1> QED
  BY <1>6, <1>9

(* Every step keeps what every client has been handed.                      *)
LEMMA FedStep ==
    TypeOK /\ HandlersInv /\ ListedAreServed /\ CastInv /\ FedInv /\ [Next]_vars =>
        CastInv' /\ FedInv'
<1> SUFFICES ASSUME ServerType, ListsType, CastType, ConnType, HandlersType,
                    HandlersInv, ListedAreServed, CastInv, FedInv, [Next]_vars
             PROVE  CastInv' /\ FedInv'
  BY DEF TypeOK, HandlersType
<1>1. ASSUME NEW p \in Peers, Accept(p)
      PROVE  CastInv' /\ FedInv'
  <2>1. /\ pc[p] = "off" /\ pc'[p] = "request" /\ UNCHANGED <<castVars, clients, got, joined>>
        /\ \A q \in Peers : q # p =>
              /\ fd'[q] = fd[q]
              /\ pc'[q] = pc[q] \/ (pc[q] = "ended" /\ pc'[q] = "off")
    <3>1. PICK f \in FreeFds : fd' = [fd EXCEPT ![p] = f]
      BY <1>1 DEF Accept
    <3>2. pc' = [q \in Peers |-> IF q = p THEN "request"
                                 ELSE IF q \in threads /\ pc[q] = "ended" THEN "off" ELSE pc[q]]
      BY <1>1 DEF Accept
    <3> QED
      BY <1>1, <3>1, <3>2 DEF Accept, listVars, ConnType
  <2>2. CastInv'
    BY <2>1 DEF CastInv, castVars
  <2>3. \A q \in Peers : q # p => (Fed(q) => Fed(q)')
    BY <2>1 DEF Fed, Owed, castVars
  <2>4. {"off", "request", "ended"} \cap (Serving \cup {"close"}) = {}
    BY DEF Serving
  <2>5. FedInv'
    BY <2>1, <2>3, <2>4 DEF FedInv, castVars
  <2> QED
    BY <2>2, <2>5
<1>2. ASSUME NEW p \in Peers, RecvRequest(p)
      PROVE  CastInv' /\ FedInv'
  <2>1. pc[p] = "request" /\ UNCHANGED <<castVars, listVars>>
    BY <1>2 DEF RecvRequest
  <2>2. CASE EndHandler(p)
    BY <2>1, <2>2, FedEnd
  <2>3. CASE Goto(p, "check") /\ UNCHANGED connVars
    BY <2>1, <2>3, FedQuiet DEF Goto, listVars, connVars, Serving, HandlersType
  <2> QED
    BY <1>2, <2>2, <2>3 DEF RecvRequest
<1>3. ASSUME NEW p \in Peers, RecvNothing(p)
      PROVE  CastInv' /\ FedInv'
  BY <1>3, FedEnd DEF RecvNothing
<1>4. ASSUME NEW p \in Peers, CheckLimit(p)
      PROVE  CastInv' /\ FedInv'
  <2>1. pc[p] = "check" /\ UNCHANGED <<castVars, listVars>>
    BY <1>4 DEF CheckLimit
  <2>2. CASE EndHandler(p)
    BY <2>1, <2>2, FedEnd
  <2>3. CASE Goto(p, "enlist") /\ UNCHANGED connVars
    BY <2>1, <2>3, FedQuiet DEF Goto, listVars, connVars, Serving, HandlersType
  <2> QED
    BY <1>4, <2>2, <2>3 DEF CheckLimit
<1>5. ASSUME NEW p \in Peers, Enlist(p)
      PROVE  CastInv' /\ FedInv'
  <2>1. /\ pc[p] = "enlist" /\ lock = "nobody" /\ pc'[p] = "serve"
        /\ UNCHANGED <<castVars, fd, got>>
        /\ joined' = [joined EXCEPT ![p] = Len(log)]
        /\ clients' = clients \cup {fd[p]} \/ clients' = clients
        /\ \A q \in Peers : q # p => pc'[q] = pc[q]
    BY <1>5 DEF Enlist, Goto, HandlersType
  <2>2. CastInv'
    BY <2>1 DEF CastInv, castVars
  <2>3. /\ joined'[p] = Len(log) /\ Len(log) \in Nat /\ got[p] = <<>>
        /\ \A q \in Peers : q # p => joined'[q] = joined[q]
    BY <2>1, LenProperties DEF ConnType, CastType, FedInv, Serving
  <2>4. Fed(p)'
    <3>1. ~Owed(p)'
      BY <2>1 DEF Owed, castVars
    <3>2. SubSeq(log, Len(log) + 1, Len(log)) = <<>>
      BY <2>3, SubSeqEmpty
    <3> QED
      BY <2>1, <2>3, <3>1, <3>2 DEF Fed, castVars
  <2>5. ASSUME NEW q \in Peers, q # p, pc[q] \in Serving, fd[q] \in clients'
        PROVE  Fed(q)'
    <3>1. fd[q] \in clients
      BY <2>1, <2>5 DEF HandlersInv, HandlersOpen, OneOwner
    <3>2. Fed(q)
      BY <2>5, <3>1 DEF FedInv
    <3> QED
      BY <2>1, <2>3, <2>5, <3>2 DEF Fed, Owed, castVars
  <2>6. FedInv'
    BY <2>1, <2>3, <2>4, <2>5 DEF FedInv, castVars, Serving
  <2> QED
    BY <2>2, <2>6
<1>6. ASSUME NEW p \in Peers, ServeTop(p)
      PROVE  CastInv' /\ FedInv'
  BY <1>6, FedQuiet DEF ServeTop, Goto, HandlersType, Serving, listVars, connVars
<1>7. ASSUME NEW p \in Peers, RecvEnds(p)
      PROVE  CastInv' /\ FedInv'
  BY <1>7, FedQuiet DEF RecvEnds, Goto, HandlersType, Serving, listVars, connVars
<1>8. ASSUME NEW p \in Peers, BeginRelay(p)
      PROVE  CastInv' /\ FedInv'
  <2>1. p \in Casters /\ UNCHANGED <<clients, fd, got, joined>>
        /\ pc[p] = "relay" /\ pc'[p] = "relaying" /\ \A q \in Peers : q # p => pc'[q] = pc[q]
    BY <1>8 DEF BeginRelay, Goto, HandlersType, listVars, connVars, Casters
  <2>2. \A q \in Peers : pc'[q] \in Serving <=> pc[q] \in Serving
    BY <2>1 DEF Serving
  <2>3. \A q \in Peers : pc'[q] \notin Serving \cup {"close"} => pc[q] \notin Serving \cup {"close"}
    BY <2>1 DEF Serving
  <2> QED
    BY <1>8, <2>1, <2>2, <2>3, FedBegin DEF BeginRelay
<1>9. ASSUME NEW p \in Peers, Leave(p)
      PROVE  CastInv' /\ FedInv'
  <2>1. CASE pc[p] = "close" /\ EndHandler(p) /\ UNCHANGED listVars
    BY <1>9, <2>1, FedEnd DEF Leave
  <2>2. CASE pc[p] = "leave"
    <3>1. /\ lock = "nobody" /\ clients' = clients \ {fd[p]} /\ pc'[p] = "close"
          /\ UNCHANGED <<castVars, fd, got, joined>>
          /\ \A q \in Peers : q # p => pc'[q] = pc[q]
      BY <1>9, <2>2 DEF Leave, Goto, HandlersType, connVars
    <3>2. CastInv'
      <4>1. \A b \in Casters : todo[b] = {} /\ dead[b] = {}
        BY <3>1, NamesAssumption DEF CastInv, Casters
      <4> QED
        BY <3>1, <4>1 DEF CastInv, castVars
    <3>3. "close" \notin Serving
      BY DEF Serving
    <3>4. \A q \in Peers : Fed(q) => Fed(q)'
      BY <3>1 DEF Fed, Owed, castVars
    <3>5. FedInv'
      BY <3>1, <3>3, <3>4 DEF FedInv, castVars
    <3> QED
      BY <3>2, <3>5
  <2> QED
    BY <1>9, <2>1, <2>2 DEF Leave
<1>10. ASSUME NEW p \in Peers, Discard(p)
       PROVE  CastInv' /\ FedInv'
  BY <1>10, FedQuiet DEF Discard, Goto, HandlersType, Serving, listVars, connVars
<1>11. ASSUME NEW p \in Peers, RecvChunk(p)
       PROVE  CastInv' /\ FedInv'
  BY <1>11, FedQuiet DEF RecvChunk, Goto, HandlersType, Serving, listVars, connVars
<1>12. ASSUME NEW p \in Peers, Ask(p)
       PROVE  CastInv' /\ FedInv'
  BY <1>12, FedQuiet DEF Ask, listVars
<1>13. ASSUME NEW p \in Peers, HangUp(p)
       PROVE  CastInv' /\ FedInv'
  BY <1>13, FedQuiet DEF HangUp, listVars
<1>14. ASSUME NEW p \in Peers, Stall(p)
       PROVE  CastInv' /\ FedInv'
  BY <1>14, FedQuiet DEF Stall, listVars
<1>15. ASSUME NEW p \in Peers, Resume(p)
       PROVE  CastInv' /\ FedInv'
  BY <1>15, FedQuiet DEF Resume, listVars
<1>16. ASSUME NEW b \in Casters, EndCast(b)
       PROVE  CastInv' /\ FedInv'
  <2>1. /\ lock = b /\ todo[b] = {} /\ lock' = "nobody" /\ clients' = clients \ dead[b]
        /\ dead' = [dead EXCEPT ![b] = {}] /\ chunk' = [chunk EXCEPT ![b] = <<>>]
        /\ UNCHANGED <<todo, log, fd, got, joined>>
    BY <1>16 DEF EndCast, DropDead, CastInv
  <2>2. \A c \in Casters : todo'[c] = {} /\ dead'[c] = {} /\ chunk'[c] = <<>>
    BY <2>1 DEF CastInv, CastType
  <2>3. "nobody" \notin Casters
    BY NamesAssumption DEF Casters
  <2>4. CastInv'
    BY <2>1, <2>2, <2>3 DEF CastInv
  <2>5. \A q \in Peers : /\ pc'[q] \in Serving <=> pc[q] \in Serving
                         /\ pc'[q] \notin Serving \cup {"close"} =>
                               pc[q] \notin Serving \cup {"close"}
    BY <1>16, EndCastPc DEF Serving
  <2>6. ASSUME NEW q \in Peers, fd[q] \in clients', Fed(q)
        PROVE  Fed(q)'
    <3>1. ~Owed(q) /\ ~Owed(q)'
      BY <2>1, <2>6 DEF Owed
    <3> QED
      BY <2>1, <2>6, <3>1 DEF Fed
  <2>7. FedInv'
    BY <2>1, <2>5, <2>6 DEF FedInv
  <2> QED
    BY <2>4, <2>7
<1>17. ASSUME NEW b \in Casters, NEW f \in Fds, SendWorks(b, f)
       PROVE  CastInv' /\ FedInv'
  <2>1. PICK p \in Owner(f) : got' = [got EXCEPT ![p] = Append(got[p], chunk[b])]
    BY <1>17 DEF SendWorks
  <2>2. /\ f \in todo[b] /\ todo' = [todo EXCEPT ![b] = todo[b] \ {f}]
        /\ UNCHANGED <<clients, lock, dead, chunk, log, pc, fd, joined>>
    BY <1>17 DEF SendWorks, listVars
  <2>3. lock = b /\ lock # "nobody" /\ f \in clients /\ f \notin dead[b]
        /\ Len(log) > 0 /\ chunk[b] = log[Len(log)]
    BY <2>2, NamesAssumption DEF CastInv, Casters
  <2>4. p \in Peers /\ fd[p] = f /\ pc[p] \in Serving
    <3>1. p \in Peers /\ fd[p] = f /\ f # None
      BY <2>1, <2>3, FdsAssumption DEF Owner
    <3>2. PICK q \in Owner(f) : pc[q] \in Serving
      BY <2>3 DEF ListedAreServed
    <3>3. q = p
      BY <3>1, <3>2 DEF Owner, HandlersInv, OneOwner
    <3> QED
      BY <3>1, <3>2, <3>3
  <2>5. \A q \in Peers : q # p => fd[q] # f
    BY <2>3, <2>4, FdsAssumption DEF ListsType, HandlersInv, OneOwner
  <2>6. CastInv'
    BY <2>2, <2>3 DEF CastInv, CastType
  <2>7. Fed(p)'
    <3>1. /\ joined[p] < Len(log) /\ joined[p] \in Nat /\ log \in Seq(Chunks)
          /\ got[p] = SubSeq(log, joined[p] + 1, Len(log) - 1)
      BY <2>2, <2>3, <2>4 DEF FedInv, Fed, Owed, ConnType, CastType
    <3>2. got'[p] = SubSeq(log, joined[p] + 1, Len(log))
      BY <2>1, <2>3, <2>4, <3>1, LastAdded DEF ConnType
    <3>3. ~Owed(p)'
      BY <2>2, <2>3, <2>4 DEF Owed, CastType
    <3> QED
      BY <2>2, <3>2, <3>3 DEF Fed
  <2>8. ASSUME NEW q \in Peers, q # p, Fed(q)
        PROVE  Fed(q)' /\ got'[q] = got[q]
    <3>1. Owed(q)' <=> Owed(q)
      BY <2>2, <2>3, <2>5, <2>8 DEF Owed, CastType
    <3>2. got'[q] = got[q]
      BY <2>1, <2>4, <2>8 DEF ConnType
    <3> QED
      BY <2>2, <2>8, <3>1, <3>2 DEF Fed
  <2>9. \A q \in Peers : q # p => got'[q] = got[q]
    BY <2>1, <2>4 DEF ConnType
  <2>10. FedInv'
    BY <2>2, <2>4, <2>7, <2>8, <2>9 DEF FedInv
  <2> QED
    BY <2>6, <2>10
<1>18. ASSUME NEW b \in Casters, NEW f \in Fds, SendFails(b, f)
       PROVE  CastInv' /\ FedInv'
  <2>1. /\ f \in todo[b] /\ todo' = [todo EXCEPT ![b] = todo[b] \ {f}]
        /\ dead' = [dead EXCEPT ![b] = dead[b] \cup {f}]
        /\ UNCHANGED <<clients, lock, chunk, log, pc, fd, got, joined>>
    BY <1>18 DEF SendFails, listVars, connVars
  <2>2. lock = b
    BY <2>1 DEF CastInv
  <2>3. CastInv'
    BY <2>1, <2>2 DEF CastInv, CastType
  <2>4. \A q \in Peers : Owed(q)' <=> Owed(q)
    BY <2>1, <2>2 DEF Owed, CastType
  <2>5. FedInv'
    BY <2>1, <2>4 DEF FedInv, Fed
  <2> QED
    BY <2>3, <2>5
<1>19. CASE BeginFeed
  BY <1>19, FedBegin DEF BeginFeed, Casters, listVars, connVars
<1>20. CASE AcceptTop
  BY <1>20, FedQuiet DEF AcceptTop, listVars, connVars
<1>21. CASE AcceptFails
  BY <1>21, FedQuiet DEF AcceptFails, listVars, connVars
<1>22. CASE CallStop
  BY <1>22, FedQuiet DEF CallStop, listVars, connVars
<1>23. CASE CloseServer
  BY <1>23, FedQuiet DEF CloseServer, listVars, connVars
<1>24. CASE JoinAccept
  BY <1>24, FedQuiet DEF JoinAccept, listVars, connVars
<1>25. CASE ShutDown
  BY <1>25, FedQuiet DEF ShutDown, listVars, connVars
<1>26. CASE JoinHandlers
  <2>1. \A q \in Peers : pc'[q] = pc[q] \/ (pc[q] = "ended" /\ pc'[q] = "off")
    <3>1. \A q \in threads : pc[q] = "ended"
      BY <1>26 DEF JoinHandlers
    <3>2. pc' = [q \in Peers |-> IF q \in threads THEN "off" ELSE pc[q]]
      BY <1>26 DEF JoinHandlers
    <3> QED
      BY <3>1, <3>2
  <2> QED
    BY <1>26, <2>1, FedQuiet DEF JoinHandlers, listVars, connVars, Serving
<1>27. CASE ClearLists
  <2>1. lock = "nobody" /\ clients' = {} /\ UNCHANGED <<castVars, pc, fd, got, joined>>
    BY <1>27 DEF ClearLists, connVars
  <2>2. \A b \in Casters : todo[b] = {} /\ dead[b] = {}
    BY <2>1, NamesAssumption DEF CastInv, Casters
  <2> QED
    BY <2>1, <2>2 DEF CastInv, FedInv, castVars
<1>28. CASE StartAgain
  BY <1>28, FedQuiet DEF StartAgain, listVars, connVars
<1>29. CASE UNCHANGED vars
  BY <1>29, FedQuiet DEF vars, listVars, connVars
<1> QED
  BY <1>1, <1>2, <1>3, <1>4, <1>5, <1>6, <1>7, <1>8, <1>9, <1>10, <1>11, <1>12, <1>13,
     <1>14, <1>15, <1>16, <1>17, <1>18, <1>19, <1>20, <1>21, <1>22, <1>23, <1>24, <1>25,
     <1>26, <1>27, <1>28, <1>29
  DEF Next, AcceptStep, Handshake, Serve, PeerActs, Cast, StopStep, Casters

-----------------------------------------------------------------------------
(* The inductive invariant *)

Inv ==
    TypeOK /\ HandlersInv /\ StopPhase /\ ListedAreServed /\ NobodyForgotten /\ CastInv /\ FedInv

LEMMA InitInv == Init => Inv
<1> SUFFICES ASSUME Init PROVE Inv
  OBVIOUS
<1>1. TypeOK
  BY InitTypeOK
<1>2. HandlersInv /\ StopPhase
  BY DEF Init, HandlersInv, HandlersOpen, OneOwner, RequestKnown, ThreadsTracked, StopPhase,
         Casters
<1>3. ListedAreServed /\ NobodyForgotten
  BY DEF Init, ListedAreServed, NobodyForgotten
<1>4. CastInv /\ FedInv
  <2>1. "nobody" \notin Casters
    BY NamesAssumption DEF Casters
  <2> QED
    BY <2>1 DEF Init, CastInv, FedInv
<1> QED
  BY <1>1, <1>2, <1>3, <1>4 DEF Inv

LEMMA NextInv == Inv /\ [Next]_vars => Inv'
BY NextTypeOK, HandlersInvStep, StopPhaseStep, ListedAreServedStep, NobodyForgottenStep,
   FedStep
DEF Inv, HandlersInv

(* The state of the caster is well-typed for every number of connections,  *)
(* descriptors, clients and chunks.                                         *)
THEOREM CasterTypeCorrect == Spec => []TypeOK
<1>1. Inv => TypeOK
  BY DEF Inv
<1> QED
  BY <1>1, InitInv, NextInv, PTL DEF Spec

(* A descriptor on clients_ or sources_ is open and its handler serves it:  *)
(* no broadcast and no stop() reaches a number that belongs to somebody     *)
(* else by then.                                                            *)
THEOREM ListsAreServed == Spec => []ListedAreServed
<1>1. Inv => ListedAreServed
  BY DEF Inv
<1> QED
  BY <1>1, InitInv, NextInv, PTL DEF Spec

(* A connected client is on the list, or its handler was woken to end.      *)
THEOREM NoClientForgotten == Spec => []NobodyForgotten
<1>1. Inv => NobodyForgotten
  BY DEF Inv
<1> QED
  BY <1>1, InitInv, NextInv, PTL DEF Spec

(* feed() and the relay of a source: every listed client has been handed    *)
(* all chunks since it registered, whole and in the one order of the log,   *)
(* except that the broadcast under way may still owe it the last.           *)
THEOREM ClientsFedInOrder == Spec => []FedInOrder
<1>1. Inv => FedInOrder
  BY FedInOrderHolds DEF Inv
<1> QED
  BY <1>1, InitInv, NextInv, PTL DEF Spec

(* A stopped caster has no handlers, no clients and no open descriptors.    *)
THEOREM StoppedCasterIsQuiet == Spec => []StoppedIsQuiet
<1>1. Inv => StoppedIsQuiet
  BY DEF Inv, StopPhase, HandlersInv, HandlersOpen, StoppedIsQuiet
<1> QED
  BY <1>1, InitInv, NextInv, PTL DEF Spec

-----------------------------------------------------------------------------
(* NtripClient: what the application gets, as a function of the stream.     *)
(* S are the cells received since the buffers were cleared and those on     *)
(* their way, r how many were received, b the buffer, h the frames handed   *)
(* over and n how many the caster has sent.                                 *)

Cell == [msg : 1..MaxMessages, part : Nat \ {0}, claim : Nat, shape : Shapes]

(* A cell is of a frame that was sent, and claims what its shape says.      *)
WellFormed(S, n) ==
    \A i \in 1..Len(S) :
        /\ S[i].msg <= n /\ S[i].part <= Len(S[i].shape.claims)
        /\ S[i].claim = S[i].shape.claims[S[i].part]

(* Frames come in the order in which they were sent, and so do the cells of *)
(* a frame.                                                                 *)
CellsInOrder(S) ==
    \A i, j \in 1..Len(S) : i < j =>
        \/ S[i].msg < S[j].msg
        \/ S[i].msg = S[j].msg /\ S[i].shape = S[j].shape /\ S[i].part < S[j].part

(* parseBuffer_ is the end of what was received.                            *)
BufferIsRest(S, r, b) ==
    /\ Len(b) <= r
    /\ \A i \in 1..Len(b) : b[i] = S[(r - Len(b)) + i]

(* What was handed over is rising and from before the buffer.               *)
HandedBefore(S, off, h, n) ==
    /\ \A i, j \in 1..Len(h) : i < j => h[i] < h[j]
    /\ \A i \in 1..Len(h) : h[i] <= n /\ \A j \in (off + 1)..Len(S) : h[i] < S[j].msg

(* An intact frame begins at k.                                             *)
IntactAt(S, k) ==
    /\ S[k].shape.ok
    /\ \A j \in 1..Len(S[k].shape.claims) :
          k + j - 1 \in 1..Len(S) /\ S[k + j - 1].msg = S[k].msg /\ S[k + j - 1].part = j

(* It was handed over, or is still in the buffer from its first cell on.    *)
NoneSkipped(S, r, off, h) ==
    \A k \in 1..r : IntactAt(S, k) => k > off \/ \E i \in 1..Len(h) : h[i] = S[k].msg

Framed(S, r, b, h, n) ==
    /\ S \in Seq(Cell) /\ b \in Seq(Cell) /\ h \in Seq(Nat) /\ r \in 0..Len(S) /\ n \in Nat
    /\ WellFormed(S, n) /\ CellsInOrder(S) /\ BufferIsRest(S, r, b)
    /\ HandedBefore(S, r - Len(b), h, n) /\ NoneSkipped(S, r, r - Len(b), h)

(* What a cell of the stream is.                                            *)
LEMMA CellTypes ==
    ASSUME NEW S \in Seq(Cell), NEW i \in 1..Len(S)
    PROVE  /\ Len(S) \in Nat /\ S[i] \in Cell
           /\ S[i].msg \in 1..MaxMessages /\ S[i].part \in Nat \ {0} /\ S[i].claim \in Nat
           /\ S[i].shape \in Shapes /\ Len(S[i].shape.claims) \in Nat
<1>1. Len(S) \in Nat /\ S[i] \in Cell
  BY LenProperties, ElementOfSeq
<1>2. S[i].msg \in 1..MaxMessages /\ S[i].part \in Nat \ {0} /\ S[i].claim \in Nat /\ S[i].shape \in Shapes
  BY <1>1 DEF Cell
<1>3. S[i].shape.claims \in Seq(Nat \ {1})
  BY <1>2, ShapesAssumption
<1> QED
  BY <1>1, <1>2, <1>3, LenProperties

(* The lengths the invariant speaks of.                                     *)
LEMMA FramedTypes ==
    ASSUME NEW S, NEW r, NEW b, NEW h, NEW n, Framed(S, r, b, h, n)
    PROVE  /\ Len(S) \in Nat /\ Len(b) \in Nat /\ Len(h) \in Nat /\ r \in Nat /\ r <= Len(S) /\ n \in Nat
           /\ r - Len(b) \in Nat /\ r - Len(b) <= r
BY LenProperties DEF Framed, BufferIsRest

(* Framed, one part at a time.                                              *)
LEMMA FramedParts ==
    ASSUME NEW S, NEW r, NEW b, NEW h, NEW n, Framed(S, r, b, h, n)
    PROVE  /\ S \in Seq(Cell) /\ b \in Seq(Cell) /\ h \in Seq(Nat) /\ r \in 0..Len(S) /\ n \in Nat
           /\ WellFormed(S, n) /\ CellsInOrder(S) /\ BufferIsRest(S, r, b)
           /\ HandedBefore(S, r - Len(b), h, n) /\ NoneSkipped(S, r, r - Len(b), h)
BY DEF Framed

(* What is still on its way is lost, or some of it.                         *)
LEMMA FramedCut ==
    ASSUME NEW S, NEW r, NEW b, NEW h, NEW n, Framed(S, r, b, h, n),
           NEW T \in Seq(Cell), r <= Len(T), Len(T) <= Len(S), \A i \in 1..Len(T) : T[i] = S[i]
    PROVE  Framed(T, r, b, h, n)
<1>1. /\ Len(S) \in Nat /\ Len(b) \in Nat /\ Len(h) \in Nat /\ r \in Nat /\ r <= Len(S)
      /\ Len(T) \in Nat /\ r - Len(b) \in Nat
  BY FramedTypes, LenProperties
<1>a. \A i \in 1..Len(T) : i \in 1..Len(S) /\ T[i] = S[i]
  BY <1>1
<1>2. WellFormed(T, n)
  <2>1. WellFormed(S, n)
    BY FramedParts
  <2> QED
    BY <1>a, <2>1 DEF WellFormed
<1>3. CellsInOrder(T)
  <2>1. CellsInOrder(S)
    BY FramedParts
  <2> QED
    BY <1>a, <2>1 DEF CellsInOrder
<1>4. BufferIsRest(T, r, b)
  <2>1. \A i \in 1..Len(b) : (r - Len(b)) + i \in 1..Len(T)
    BY <1>1
  <2>2. Len(b) <= r /\ \A i \in 1..Len(b) : b[i] = S[(r - Len(b)) + i]
    BY FramedParts DEF BufferIsRest
  <2> QED
    BY <1>a, <2>1, <2>2 DEF BufferIsRest
<1>5. HandedBefore(T, r - Len(b), h, n)
  <2>1. \A j \in ((r - Len(b)) + 1)..Len(T) : j \in ((r - Len(b)) + 1)..Len(S) /\ T[j] = S[j]
    BY <1>1
  <2>2. /\ \A i, j \in 1..Len(h) : i < j => h[i] < h[j]
        /\ \A i \in 1..Len(h) : h[i] <= n /\ \A j \in ((r - Len(b)) + 1)..Len(S) : h[i] < S[j].msg
    BY FramedParts DEF HandedBefore
  <2> QED
    BY <2>1, <2>2 DEF HandedBefore
<1>6. NoneSkipped(T, r, r - Len(b), h)
  <2> SUFFICES ASSUME NEW k \in 1..r, IntactAt(T, k)
               PROVE  k > r - Len(b) \/ \E i \in 1..Len(h) : h[i] = T[k].msg
    BY DEF NoneSkipped
  <2>1. k \in 1..Len(T) /\ k \in 1..Len(S) /\ T[k] = S[k]
    BY <1>1
  <2>2. IntactAt(S, k)
    <3>1. /\ S[k].shape.ok
          /\ \A j \in 1..Len(S[k].shape.claims) :
                k + j - 1 \in 1..Len(T) /\ T[k + j - 1].msg = S[k].msg /\ T[k + j - 1].part = j
      BY <2>1 DEF IntactAt
    <3> QED
      BY <1>a, <3>1 DEF IntactAt
  <2> QED
    BY <2>1, <2>2, FramedParts DEF NoneSkipped
<1> QED
  BY <1>1, <1>2, <1>3, <1>4, <1>5, <1>6, FramedParts DEF Framed

(* The caster sends another frame.                                          *)
LEMMA FramedSend ==
    ASSUME NEW S, NEW r, NEW b, NEW h, NEW n, Framed(S, r, b, h, n), NEW sh \in Shapes,
           NEW T \in Seq(Cell), Len(T) = Len(S) + Len(sh.claims), \A i \in 1..Len(S) : T[i] = S[i],
           \A i \in (Len(S) + 1)..Len(T) :
               /\ T[i].msg = n + 1 /\ T[i].shape = sh /\ T[i].part = i - Len(S)
               /\ T[i].claim = sh.claims[i - Len(S)]
    PROVE  Framed(T, r, b, h, n + 1)
<1>0. Len(sh.claims) \in Nat
  BY ShapesAssumption, LenProperties
<1>1. /\ Len(S) \in Nat /\ Len(b) \in Nat /\ Len(h) \in Nat /\ r \in Nat /\ r <= Len(S) /\ n \in Nat
      /\ Len(T) \in Nat /\ r - Len(b) \in Nat /\ h \in Seq(Nat)
  BY FramedTypes, FramedParts, LenProperties
<1>2. \A i \in 1..Len(S) : /\ i \in 1..Len(T) /\ T[i] = S[i] /\ S[i].msg \in Nat /\ S[i].msg <= n
                            /\ Len(S[i].shape.claims) \in Nat /\ S[i].part \in Nat
  <2>1. \A i \in 1..Len(S) : i \in 1..Len(T)
    BY <1>0, <1>1
  <2>2. \A i \in 1..Len(S) : S[i].msg \in Nat /\ Len(S[i].shape.claims) \in Nat /\ S[i].part \in Nat
    <3>1. S \in Seq(Cell)
      BY FramedParts
    <3>2. ASSUME NEW i \in 1..Len(S)
          PROVE  S[i].msg \in 1..MaxMessages /\ Len(S[i].shape.claims) \in Nat /\ S[i].part \in Nat \ {0}
      BY <3>1, CellTypes
    <3> QED
      BY <3>2
  <2>3. \A i \in 1..Len(S) : S[i].msg <= n
    BY FramedParts DEF WellFormed
  <2> QED
    BY <2>1, <2>2, <2>3
<1>3. \A i \in 1..Len(T) : i \notin 1..Len(S) =>
         /\ T[i].msg = n + 1 /\ T[i].shape = sh /\ T[i].part = i - Len(S)
         /\ T[i].claim = sh.claims[i - Len(S)] /\ i - Len(S) <= Len(sh.claims)
  <2>1. PICK s, t, c : s = Len(S) /\ t = Len(T) /\ c = Len(sh.claims)
    OBVIOUS
  <2>2. s \in Nat /\ t \in Nat /\ c \in Nat /\ t = s + c
    BY <1>0, <1>1, <2>1
  <2>3. \A i \in 1..t : i \notin 1..s => i \in (s + 1)..t /\ i - s <= c
    BY <2>2
  <2>4. \A i \in 1..Len(T) : i \notin 1..Len(S) => i \in (Len(S) + 1)..Len(T) /\ i - Len(S) <= Len(sh.claims)
    BY <2>1, <2>3
  <2> QED
    BY <2>4
<1>4. WellFormed(T, n + 1)
  <2> SUFFICES ASSUME NEW i \in 1..Len(T)
               PROVE  /\ T[i].msg <= n + 1 /\ T[i].part <= Len(T[i].shape.claims)
                      /\ T[i].claim = T[i].shape.claims[T[i].part]
    BY DEF WellFormed
  <2>1. CASE i \in 1..Len(S)
    <3>1. S[i].part <= Len(S[i].shape.claims) /\ S[i].claim = S[i].shape.claims[S[i].part]
      BY <2>1, FramedParts DEF WellFormed
    <3>2. S[i].msg <= n + 1
      BY <1>1, <1>2, <2>1
    <3>3. T[i] = S[i]
      BY <2>1
    <3> QED
      BY <3>1, <3>2, <3>3
  <2>2. CASE i \notin 1..Len(S)
    <3>1. /\ T[i].msg = n + 1 /\ T[i].shape = sh /\ T[i].part = i - Len(S)
          /\ T[i].claim = sh.claims[i - Len(S)] /\ i - Len(S) <= Len(sh.claims)
      BY <1>3, <2>2
    <3>2. T[i].msg <= n + 1
      BY <1>1, <3>1
    <3> QED
      BY <3>1, <3>2
  <2> QED
    BY <2>1, <2>2
<1>5. CellsInOrder(T)
  <2> SUFFICES ASSUME NEW i \in 1..Len(T), NEW j \in 1..Len(T), i < j
               PROVE  \/ T[i].msg < T[j].msg
                      \/ T[i].msg = T[j].msg /\ T[i].shape = T[j].shape /\ T[i].part < T[j].part
    BY DEF CellsInOrder
  <2>1. CASE j \in 1..Len(S)
    <3>1. i \in 1..Len(S)
      BY <1>1, <2>1
    <3>2. \/ S[i].msg < S[j].msg
          \/ S[i].msg = S[j].msg /\ S[i].shape = S[j].shape /\ S[i].part < S[j].part
      BY <2>1, <3>1, FramedParts DEF CellsInOrder
    <3> QED
      BY <1>2, <2>1, <3>1, <3>2
  <2>2. CASE i \in 1..Len(S) /\ j \notin 1..Len(S)
    <3>1. T[j].msg = n + 1 /\ T[i] = S[i] /\ S[i].msg \in Nat /\ S[i].msg <= n
      BY <1>2, <1>3, <2>2
    <3>2. S[i].msg < n + 1
      BY <1>1, <3>1
    <3> QED
      BY <3>1, <3>2
  <2>3. CASE i \notin 1..Len(S) /\ j \notin 1..Len(S)
    <3>1. i - Len(S) < j - Len(S)
      BY <1>1
    <3> QED
      BY <1>3, <2>3, <3>1
  <2>4. i \notin 1..Len(S) => j \notin 1..Len(S)
    BY <1>1
  <2> QED
    BY <2>1, <2>2, <2>3, <2>4
<1>6. BufferIsRest(T, r, b)
  <2>1. \A i \in 1..Len(b) : (r - Len(b)) + i \in 1..Len(S)
    BY <1>1
  <2>2. Len(b) <= r /\ \A i \in 1..Len(b) : b[i] = S[(r - Len(b)) + i]
    BY FramedParts DEF BufferIsRest
  <2>3. ASSUME NEW i \in 1..Len(b) PROVE b[i] = T[(r - Len(b)) + i]
    BY <2>1, <2>2
  <2> QED
    BY <2>2, <2>3 DEF BufferIsRest
<1>7. HandedBefore(T, r - Len(b), h, n + 1)
  <2>1. /\ \A i, j \in 1..Len(h) : i < j => h[i] < h[j]
        /\ \A i \in 1..Len(h) : h[i] <= n /\ \A j \in ((r - Len(b)) + 1)..Len(S) : h[i] < S[j].msg
    BY FramedParts DEF HandedBefore
  <2>2. \A i \in 1..Len(h) : h[i] \in Nat
    BY <1>1, ElementOfSeq
  <2>3. \A i \in 1..Len(h) : h[i] < n + 1 /\ h[i] <= n + 1
    BY <1>1, <2>1, <2>2
  <2>4. ASSUME NEW i \in 1..Len(h), NEW j \in ((r - Len(b)) + 1)..Len(T) PROVE h[i] < T[j].msg
    <3>1. CASE j \in 1..Len(S)
      <4>1. j \in ((r - Len(b)) + 1)..Len(S)
        BY <1>1, <3>1
      <4> QED
        BY <1>2, <2>1, <3>1, <4>1
    <3>2. CASE j \notin 1..Len(S)
      <4>1. j \in 1..Len(T)
        BY <1>1
      <4> QED
        BY <1>3, <2>3, <3>2, <4>1
    <3> QED
      BY <3>1, <3>2
  <2> QED
    BY <2>1, <2>3, <2>4 DEF HandedBefore
<1>8. NoneSkipped(T, r, r - Len(b), h)
  <2> SUFFICES ASSUME NEW k \in 1..r, IntactAt(T, k)
               PROVE  k > r - Len(b) \/ \E i \in 1..Len(h) : h[i] = T[k].msg
    BY DEF NoneSkipped
  <2>1. k \in 1..Len(S)
    BY <1>1
  <2>2. T[k] = S[k] /\ S[k].msg # n + 1
    BY <1>1, <1>2, <2>1
  <2>3. /\ S[k].shape.ok
        /\ \A j \in 1..Len(S[k].shape.claims) :
              k + j - 1 \in 1..Len(T) /\ T[k + j - 1].msg = S[k].msg /\ T[k + j - 1].part = j
    BY <2>2 DEF IntactAt
  <2>4. ASSUME NEW j \in 1..Len(S[k].shape.claims) PROVE k + j - 1 \in 1..Len(S)
    <3>1. k + j - 1 \in 1..Len(T) /\ T[k + j - 1].msg = S[k].msg
      BY <2>3
    <3>2. T[k + j - 1].msg # n + 1
      BY <2>2, <3>1
    <3> QED
      BY <1>3, <3>1, <3>2
  <2>5. IntactAt(S, k)
    BY <1>2, <2>3, <2>4 DEF IntactAt
  <2> QED
    BY <2>2, <2>5, FramedParts DEF NoneSkipped
<1>9. r \in 0..Len(T) /\ n + 1 \in Nat /\ b \in Seq(Cell)
  BY <1>0, <1>1, FramedParts
<1> QED
  BY <1>1, <1>4, <1>5, <1>6, <1>7, <1>8, <1>9 DEF Framed

(* More was received: it is behind what is in the buffer.                   *)
LEMMA FramedReceive ==
    ASSUME NEW S, NEW r, NEW b, NEW h, NEW n, Framed(S, r, b, h, n),
           NEW m \in Nat, r + m <= Len(S), NEW c \in Seq(Cell), Len(c) = Len(b) + m,
           \A i \in 1..Len(b) : c[i] = b[i],
           \A i \in (Len(b) + 1)..Len(c) : c[i] = S[r + (i - Len(b))]
    PROVE  Framed(S, r + m, c, h, n)
<1>1. /\ Len(S) \in Nat /\ Len(b) \in Nat /\ r \in Nat /\ Len(c) \in Nat /\ r - Len(b) \in Nat
      /\ (r + m) - Len(c) = r - Len(b) /\ r + m \in 0..Len(S)
  BY FramedTypes, LenProperties
<1>2. BufferIsRest(S, r + m, c)
  <2>1. Len(b) <= r /\ \A i \in 1..Len(b) : b[i] = S[(r - Len(b)) + i]
    BY FramedParts DEF BufferIsRest
  <2>2. ASSUME NEW i \in 1..Len(c) PROVE c[i] = S[(r - Len(b)) + i]
    <3>1. CASE i \in 1..Len(b)
      BY <2>1, <3>1
    <3>2. CASE i \in (Len(b) + 1)..Len(c)
      <4>1. r + (i - Len(b)) = (r - Len(b)) + i
        BY <1>1
      <4> QED
        BY <3>2, <4>1
    <3> QED
      BY <1>1, <3>1, <3>2
  <2>3. Len(c) <= r + m
    BY <1>1, <2>1
  <2> QED
    BY <1>1, <2>2, <2>3 DEF BufferIsRest
<1>3. NoneSkipped(S, r + m, r - Len(b), h)
  <2> SUFFICES ASSUME NEW k \in 1..(r + m), IntactAt(S, k), ~(k > r - Len(b))
               PROVE  \E i \in 1..Len(h) : h[i] = S[k].msg
    BY DEF NoneSkipped
  <2>1. k \in 1..r
    BY <1>1
  <2> QED
    BY <2>1, FramedParts DEF NoneSkipped
<1>4. HandedBefore(S, (r + m) - Len(c), h, n) /\ NoneSkipped(S, r + m, (r + m) - Len(c), h)
  BY <1>1, <1>3, FramedParts
<1> QED
  BY <1>1, <1>2, <1>4, FramedParts DEF Framed

(* The buffer without its first m cells.                                    *)
IsRest(c, b, m) == Len(c) = Len(b) - m /\ \A i \in 1..Len(c) : c[i] = b[m + i]

(* Some cells leave the front of the buffer: `m` of them, and with them the *)
(* beginning of no intact frame that is not handed over.                    *)
LEMMA FramedConsume ==
    ASSUME NEW S, NEW r, NEW b, NEW h, NEW n, Framed(S, r, b, h, n),
           NEW m \in 1..Len(b), NEW c \in Seq(Cell), IsRest(c, b, m),
           NEW g \in Seq(Nat), HandedBefore(S, (r - Len(b)) + m, g, n),
           \A i \in 1..Len(h) : \E j \in 1..Len(g) : g[j] = h[i],
           \A k \in ((r - Len(b)) + 1)..((r - Len(b)) + m) :
               IntactAt(S, k) => \E j \in 1..Len(g) : g[j] = S[k].msg
    PROVE  Framed(S, r, c, g, n)
<1>1. /\ Len(S) \in Nat /\ Len(b) \in Nat /\ r \in Nat /\ Len(c) \in Nat /\ r - Len(b) \in Nat
      /\ r - Len(c) = (r - Len(b)) + m /\ Len(c) = Len(b) - m
  BY FramedTypes, LenProperties DEF IsRest
<1>a. \A i \in 1..Len(c) : c[i] = b[m + i]
  BY DEF IsRest
<1>2. BufferIsRest(S, r, c)
  <2>1. Len(b) <= r /\ \A i \in 1..Len(b) : b[i] = S[(r - Len(b)) + i]
    BY FramedParts DEF BufferIsRest
  <2>2. ASSUME NEW i \in 1..Len(c) PROVE c[i] = S[(r - Len(c)) + i]
    <3>1. m + i \in 1..Len(b) /\ (r - Len(b)) + (m + i) = (r - Len(c)) + i
      BY <1>1
    <3>2. b[m + i] = S[(r - Len(b)) + (m + i)]
      BY <2>1, <3>1
    <3> QED
      BY <1>a, <3>1, <3>2
  <2>3. Len(c) <= r
    BY <1>1, <2>1
  <2> QED
    BY <2>2, <2>3 DEF BufferIsRest
<1>3. NoneSkipped(S, r, r - Len(c), g)
  <2> SUFFICES ASSUME NEW k \in 1..r, IntactAt(S, k), ~(k > r - Len(c))
               PROVE  \E j \in 1..Len(g) : g[j] = S[k].msg
    BY DEF NoneSkipped
  <2>1. CASE k > r - Len(b)
    <3>1. k \in ((r - Len(b)) + 1)..((r - Len(b)) + m)
      BY <1>1, <2>1
    <3> QED
      BY <3>1
  <2>2. CASE ~(k > r - Len(b))
    <3>1. \E i \in 1..Len(h) : h[i] = S[k].msg
      BY <2>2, FramedParts DEF NoneSkipped
    <3> QED
      BY <3>1
  <2> QED
    BY <2>1, <2>2
<1>4. HandedBefore(S, r - Len(c), g, n)
  BY <1>1
<1> QED
  BY <1>2, <1>3, <1>4, FramedParts DEF Framed

(* The intact frame at the front of the buffer.                             *)
LEMMA IntactInFront ==
    ASSUME NEW S, NEW r, NEW b, NEW h, NEW n, Framed(S, r, b, h, n), Len(b) >= 1,
           IntactAt(S, (r - Len(b)) + 1)
    PROVE  /\ b[1].shape.ok /\ b[1].claim = Len(b[1].shape.claims) /\ b[1].claim \in Nat \ {0}
           /\ b[1].claim <= FieldLimit
           /\ b[1].claim <= Len(b) =>
                 \A k \in 1..b[1].claim : b[k].msg = b[1].msg /\ b[k].part = k
<1>1. Len(S) \in Nat /\ Len(b) \in Nat /\ r \in Nat /\ r <= Len(S) /\ r - Len(b) \in Nat
  BY FramedTypes
<1>2. \A i \in 1..Len(b) : (r - Len(b)) + i \in 1..Len(S) /\ b[i] = S[(r - Len(b)) + i]
  <2>1. \A i \in 1..Len(b) : (r - Len(b)) + i \in 1..Len(S)
    BY <1>1
  <2> QED
    BY <2>1, FramedParts DEF BufferIsRest
<1> DEFINE q == (r - Len(b)) + 1
<1>3. q \in 1..Len(S) /\ b[1] = S[q]
  BY <1>1, <1>2
<1>4. /\ S[q].shape.ok
      /\ \A j \in 1..Len(S[q].shape.claims) :
            q + j - 1 \in 1..Len(S) /\ S[q + j - 1].msg = S[q].msg /\ S[q + j - 1].part = j
  BY DEF IntactAt
<1> HIDE DEF q
<1>5. S[q].shape \in Shapes /\ Len(S[q].shape.claims) \in Nat
  <2>1. S \in Seq(Cell)
    BY FramedParts
  <2> QED
    BY <1>3, <2>1, CellTypes
<1>6. /\ S[q].shape.claims # <<>> /\ S[q].shape.claims[1] = Len(S[q].shape.claims)
      /\ Len(S[q].shape.claims) <= FieldLimit /\ S[q].shape.claims \in Seq(Nat \ {1})
  BY <1>4, <1>5, ShapesAssumption
<1>7. Len(S[q].shape.claims) \in Nat \ {0}
  BY <1>6, EmptySeq
<1>8. S[q].part = 1
  <2>1. PICK j : j = 1
    OBVIOUS
  <2>2. j \in 1..Len(S[q].shape.claims) /\ q + j - 1 = q
    BY <1>1, <1>3, <1>7, <2>1
  <2>3. S[q + j - 1].part = j
    BY <1>4, <2>2
  <2> QED
    BY <2>1, <2>2, <2>3
<1>9. S[q].claim = Len(S[q].shape.claims)
  BY <1>3, <1>6, <1>8, FramedParts DEF WellFormed
<1>10. ASSUME b[1].claim <= Len(b), NEW k \in 1..b[1].claim
       PROVE  b[k].msg = b[1].msg /\ b[k].part = k
  <2>1. k \in 1..Len(b) /\ k \in 1..Len(S[q].shape.claims)
    BY <1>1, <1>3, <1>7, <1>9, <1>10
  <2>2. (q + k) - 1 = (r - Len(b)) + k
    BY <1>1 DEF q
  <2>3. b[k] = S[(q + k) - 1]
    BY <1>2, <2>1, <2>2
  <2> QED
    BY <1>3, <1>4, <2>1, <2>3
<1> QED
  BY <1>3, <1>4, <1>6, <1>7, <1>9, <1>10

(* A cell that begins no intact frame is skipped.                           *)
LEMMA FramedSkip ==
    ASSUME NEW S, NEW r, NEW b, NEW h, NEW n, Framed(S, r, b, h, n), Len(b) >= 1,
           NEW c \in Seq(Cell), IsRest(c, b, 1),
           ~IntactAt(S, (r - Len(b)) + 1)
    PROVE  Framed(S, r, c, h, n)
<1>1. Len(S) \in Nat /\ Len(b) \in Nat /\ r - Len(b) \in Nat /\ 1 \in 1..Len(b) /\ h \in Seq(Nat)
  BY FramedTypes, FramedParts
<1>2. HandedBefore(S, (r - Len(b)) + 1, h, n)
  <2>1. \A j \in (((r - Len(b)) + 1) + 1)..Len(S) : j \in ((r - Len(b)) + 1)..Len(S)
    BY <1>1
  <2>2. /\ \A i, j \in 1..Len(h) : i < j => h[i] < h[j]
        /\ \A i \in 1..Len(h) : h[i] <= n /\ \A j \in ((r - Len(b)) + 1)..Len(S) : h[i] < S[j].msg
    BY FramedParts DEF HandedBefore
  <2> QED
    BY <2>1, <2>2 DEF HandedBefore
<1>3. \A k \in ((r - Len(b)) + 1)..((r - Len(b)) + 1) : k = (r - Len(b)) + 1
  BY <1>1
<1> QED
  BY <1>1, <1>2, <1>3, FramedConsume

(* The first m cells are a whole frame.                                     *)
OneFrame(b, m) ==
    Len(b[1].shape.claims) <= m /\ \A k \in 1..m : b[k].msg = b[1].msg /\ b[k].part = k

(* A frame is taken: it is the first of what was not handed over yet, and   *)
(* no other frame loses a cell.                                             *)
LEMMA FramedTake ==
    ASSUME NEW S, NEW r, NEW b, NEW h, NEW n, Framed(S, r, b, h, n),
           NEW m \in 1..Len(b), OneFrame(b, m), NEW c \in Seq(Cell), IsRest(c, b, m)
    PROVE  Framed(S, r, c, Append(h, b[1].msg), n)
<1>1. /\ Len(S) \in Nat /\ Len(b) \in Nat /\ r - Len(b) \in Nat /\ r \in Nat /\ r <= Len(S) /\ n \in Nat
      /\ 1 \in 1..Len(b) /\ h \in Seq(Nat) /\ Len(h) \in Nat /\ b \in Seq(Cell) /\ S \in Seq(Cell)
  BY FramedTypes, FramedParts
<1>a. PICK off : off = r - Len(b)
  OBVIOUS
<1>b. off \in Nat /\ off + Len(b) = r /\ m \in Nat /\ 1 <= m /\ m <= Len(b)
  BY <1>1, <1>a
<1>2. \A i \in 1..Len(b) : off + i \in 1..Len(S) /\ b[i] = S[off + i]
  <2>1. \A i \in 1..Len(b) : off + i \in 1..Len(S)
    BY <1>1, <1>b
  <2> QED
    BY <1>a, <2>1, FramedParts DEF BufferIsRest
<1>c. off + 1 \in 1..Len(S) /\ b[1] = S[off + 1]
  BY <1>1, <1>2
<1>d. off + m \in 1..Len(S) /\ b[m] = S[off + m]
  BY <1>2
<1> DEFINE x == b[1].msg
           g == Append(h, x)
<1>3. x \in Nat /\ x <= n
  <2>1. x \in Nat
    BY <1>1, CellTypes
  <2>2. x <= n
    BY <1>c, FramedParts DEF WellFormed
  <2> QED
    BY <2>1, <2>2
<1>4. /\ g \in Seq(Nat) /\ Len(g) = Len(h) + 1 /\ g[Len(h) + 1] = x
      /\ \A i \in 1..Len(h) : g[i] = h[i] /\ h[i] \in Nat
  BY <1>1, <1>3, AppendProperties, ElementOfSeq
<1> HIDE DEF x, g
<1>5. /\ \A i, j \in 1..Len(h) : i < j => h[i] < h[j]
      /\ \A i \in 1..Len(h) : h[i] <= n /\ \A j \in (off + 1)..Len(S) : h[i] < S[j].msg
  BY <1>a, FramedParts DEF HandedBefore
<1>6. off + 1 \in (off + 1)..Len(S) /\ S[off + 1].msg = x
  BY <1>1, <1>b, <1>c DEF x
<1>7. \A i \in 1..Len(h) : h[i] < x
  BY <1>5, <1>6
<1>8. ASSUME NEW j \in ((off + m) + 1)..Len(S) PROVE x < S[j].msg
  <2>1. off + m \in 1..Len(S) /\ j \in 1..Len(S) /\ off + m < j /\ S[off + m] = b[m]
    BY <1>1, <1>b, <1>d
  <2>2. S[off + m].msg = x /\ S[off + m].part = m
    <3>1. \A k \in 1..m : b[k].msg = x /\ b[k].part = k
      BY DEF x, OneFrame
    <3>2. m \in 1..m
      BY <1>b
    <3>3. b[m].msg = x /\ b[m].part = m
      BY <3>1, <3>2
    <3> QED
      BY <2>1, <3>3
  <2>3. CASE S[off + m].msg < S[j].msg
    BY <2>2, <2>3
  <2>4. CASE S[off + m].shape = S[j].shape /\ S[off + m].part < S[j].part
    <3>1. S[off + 1].shape = S[off + m].shape
      <4>1. CASE m = 1
        BY <1>1, <4>1
      <4>2. CASE m # 1
        <5>1. off + 1 \in 1..Len(S) /\ off + 1 < off + m /\ S[off + 1] = b[1]
          BY <1>b, <1>c, <4>2
        <5>2. ~(S[off + 1].msg < S[off + m].msg)
          BY <1>3, <2>2, <5>1 DEF x
        <5> QED
          BY <2>1, <5>1, <5>2, FramedParts DEF CellsInOrder
      <4> QED
        BY <4>1, <4>2
    <3>2. S[off + 1] = b[1]
      BY <1>c
    <3>3. S[j].shape = b[1].shape
      BY <2>4, <3>1, <3>2
    <3>4. S[j].part <= m
      <4>1. S[j].part <= Len(b[1].shape.claims)
        BY <2>1, <3>3, FramedParts DEF WellFormed
      <4>2. S[j].part \in Nat /\ Len(b[1].shape.claims) \in Nat
        BY <1>1, <2>1, CellTypes
      <4> QED
        BY <1>b, <4>1, <4>2 DEF OneFrame
    <3>5. S[j].part \in Nat
      BY <1>1, <2>1, CellTypes
    <3> QED
      BY <2>2, <2>4, <3>4, <3>5
  <2> QED
    BY <2>1, <2>3, <2>4, FramedParts DEF CellsInOrder
<1>9. HandedBefore(S, off + m, g, n)
  <2>1. ASSUME NEW i \in 1..Len(g), NEW j \in 1..Len(g), i < j PROVE g[i] < g[j]
    <3>1. CASE j \in 1..Len(h)
      <4>1. i \in 1..Len(h)
        BY <1>1, <2>1, <3>1
      <4> QED
        BY <1>4, <1>5, <2>1, <3>1, <4>1
    <3>2. CASE j = Len(h) + 1
      <4>1. i \in 1..Len(h)
        BY <1>1, <2>1, <3>2
      <4> QED
        BY <1>4, <1>7, <3>2, <4>1
    <3> QED
      BY <1>1, <1>4, <3>1, <3>2
  <2>2. ASSUME NEW i \in 1..Len(g)
        PROVE  g[i] <= n /\ \A j \in ((off + m) + 1)..Len(S) : g[i] < S[j].msg
    <3>1. CASE i \in 1..Len(h)
      <4>1. \A j \in ((off + m) + 1)..Len(S) : j \in (off + 1)..Len(S)
        <5>1. off \in Int /\ m \in Int /\ m >= 0
          BY <1>b
        <5> QED
          BY <5>1, <1>1
      <4> QED
        BY <1>4, <1>5, <3>1, <4>1
    <3>2. CASE i = Len(h) + 1
      BY <1>3, <1>4, <1>8, <3>2
    <3> QED
      BY <1>1, <1>4, <3>1, <3>2
  <2> QED
    BY <2>1, <2>2 DEF HandedBefore
<1>10. \A i \in 1..Len(h) : \E j \in 1..Len(g) : g[j] = h[i]
  BY <1>1, <1>4
<1>11. ASSUME NEW k \in (off + 1)..(off + m) PROVE \E j \in 1..Len(g) : g[j] = S[k].msg
  <2>1. k - off \in 1..m /\ k - off \in 1..Len(b) /\ off + (k - off) = k
    BY <1>1, <1>b
  <2>2. b[k - off] = S[k]
    BY <1>2, <2>1
  <2>3. S[k].msg = x
    BY <2>1, <2>2 DEF x, OneFrame
  <2>4. Len(h) + 1 \in 1..Len(g)
    BY <1>1, <1>4
  <2> QED
    BY <1>4, <2>3, <2>4
<1>12. \A k \in (off + 1)..(off + m) : IntactAt(S, k) => \E j \in 1..Len(g) : g[j] = S[k].msg
  BY <1>11
<1>13. Framed(S, r, c, g, n)
  <2>1. HandedBefore(S, (r - Len(b)) + m, g, n)
    BY <1>9, <1>a
  <2>2. \A k \in ((r - Len(b)) + 1)..((r - Len(b)) + m) :
           IntactAt(S, k) => \E j \in 1..Len(g) : g[j] = S[k].msg
    BY <1>12, <1>a
  <2> QED
    BY <1>4, <1>10, <2>1, <2>2, FramedConsume
<1> QED
  BY <1>13 DEF g, x

Begins(g, h) == Len(g) <= Len(h) /\ \A i \in 1..Len(g) : g[i] = h[i]

(* disconnect() forgets what is not collected; what is on its way, if       *)
(* anything, is later.                                                      *)
LEMMA FramedClear ==
    ASSUME NEW S, NEW r, NEW b, NEW h, NEW n, Framed(S, r, b, h, n),
           NEW T \in Seq(Cell), IsRest(T, S, r), NEW g \in Seq(Nat), Begins(g, h)
    PROVE  Framed(T, 0, <<>>, g, n)
<1>1. /\ Len(S) \in Nat /\ Len(b) \in Nat /\ r - Len(b) \in Nat /\ r \in Nat /\ r <= Len(S) /\ n \in Nat
      /\ Len(T) \in Nat /\ Len(g) \in Nat /\ Len(h) \in Nat /\ S \in Seq(Cell)
  BY FramedTypes, FramedParts, LenProperties
<1>2. Len(T) = Len(S) - r /\ \A i \in 1..Len(T) : r + i \in 1..Len(S) /\ T[i] = S[r + i]
  <2>1. Len(T) = Len(S) - r /\ \A i \in 1..Len(T) : T[i] = S[r + i]
    BY DEF IsRest
  <2>2. \A i \in 1..Len(T) : r + i \in 1..Len(S)
    BY <1>1, <2>1
  <2> QED
    BY <2>1, <2>2
<1>3. WellFormed(T, n)
  <2>1. \A i \in 1..Len(S) :
           /\ S[i].msg <= n /\ S[i].part <= Len(S[i].shape.claims)
           /\ S[i].claim = S[i].shape.claims[S[i].part]
    BY FramedParts DEF WellFormed
  <2> QED
    BY <1>2, <2>1 DEF WellFormed
<1>4. CellsInOrder(T)
  <2> SUFFICES ASSUME NEW i \in 1..Len(T), NEW j \in 1..Len(T), i < j
               PROVE  \/ T[i].msg < T[j].msg
                      \/ T[i].msg = T[j].msg /\ T[i].shape = T[j].shape /\ T[i].part < T[j].part
    BY DEF CellsInOrder
  <2>1. r + i < r + j /\ r + i \in 1..Len(S) /\ r + j \in 1..Len(S) /\ T[i] = S[r + i] /\ T[j] = S[r + j]
    BY <1>1, <1>2
  <2>2. \/ S[r + i].msg < S[r + j].msg
        \/ /\ S[r + i].msg = S[r + j].msg /\ S[r + i].shape = S[r + j].shape
           /\ S[r + i].part < S[r + j].part
    BY <2>1, FramedParts DEF CellsInOrder
  <2> QED
    BY <2>1, <2>2
<1>5. <<>> \in Seq(Cell) /\ Len(<<>>) = 0
  BY EmptySeq
<1>6. BufferIsRest(T, 0, <<>>)
  BY <1>5 DEF BufferIsRest
<1>7. HandedBefore(T, 0, g, n)
  <2>1. /\ \A i, j \in 1..Len(h) : i < j => h[i] < h[j]
        /\ \A i \in 1..Len(h) : h[i] <= n /\ \A j \in ((r - Len(b)) + 1)..Len(S) : h[i] < S[j].msg
    BY FramedParts DEF HandedBefore
  <2>2. \A i \in 1..Len(g) : i \in 1..Len(h) /\ g[i] = h[i]
    BY <1>1 DEF Begins
  <2>3. \A j \in 1..Len(T) : r + j \in ((r - Len(b)) + 1)..Len(S) /\ T[j] = S[r + j]
    BY <1>1, <1>2
  <2>4. \A i \in 1..Len(g) : g[i] <= n /\ \A j \in 1..Len(T) : g[i] < T[j].msg
    BY <2>1, <2>2, <2>3
  <2>5. (0 + 1)..Len(T) = 1..Len(T)
    OBVIOUS
  <2> QED
    BY <2>1, <2>2, <2>4, <2>5 DEF HandedBefore
<1>8. NoneSkipped(T, 0, 0, g)
  BY DEF NoneSkipped
<1>9. 0 - Len(<<>>) = 0 /\ 0 \in 0..Len(T)
  <2>1. Len(<<>>) = 0
    BY <1>5
  <2>2. 0 - 0 = 0 /\ 0 \in 0..Len(T)
    BY <1>1
  <2> QED
    BY <2>1, <2>2
<1>10. HandedBefore(T, 0 - Len(<<>>), g, n) /\ NoneSkipped(T, 0, 0 - Len(<<>>), g)
  BY <1>7, <1>8, <1>9
<1> QED
  BY <1>1, <1>3, <1>4, <1>5, <1>6, <1>9, <1>10 DEF Framed

(* The first m of a sequence, and the others.                               *)
LEMMA PrefixOf ==
    ASSUME NEW X, NEW s \in Seq(X), NEW m \in 0..Len(s)
    PROVE  Prefix(s, m) \in Seq(X) /\ Len(Prefix(s, m)) = m /\ \A i \in 1..m : Prefix(s, m)[i] = s[i]
<1>1. Len(s) \in Nat /\ \A i \in 1..m : s[i] \in X
  BY LenProperties, ElementOfSeq
<1>2. /\ SubSeq(s, 1, m) \in Seq(X)
      /\ Len(SubSeq(s, 1, m)) = IF 1 <= m THEN m - 1 + 1 ELSE 0
      /\ \A i \in 1..(m - 1 + 1) : SubSeq(s, 1, m)[i] = s[1 + i - 1]
  BY <1>1, SubSeqProperties
<1>3. m - 1 + 1 = m /\ \A i \in 1..m : 1 + i - 1 = i
  BY <1>1
<1>4. Len(SubSeq(s, 1, m)) = m
  BY <1>1, <1>2
<1> QED
  BY <1>2, <1>3, <1>4 DEF Prefix

(* What is behind the first m of a sequence.                                *)
LEMMA RestOf ==
    ASSUME NEW X, NEW s \in Seq(X), NEW m \in 0..Len(s)
    PROVE  /\ Rest(s, m) \in Seq(X) /\ Len(Rest(s, m)) = Len(s) - m
           /\ \A i \in 1..(Len(s) - m) : Rest(s, m)[i] = s[m + i]
<1>0. Len(s) \in Nat
  BY LenProperties
<1>1. \A i \in (m + 1)..Len(s) : s[i] \in X
  BY <1>0, ElementOfSeq
<1>2. /\ SubSeq(s, m + 1, Len(s)) \in Seq(X)
      /\ Len(SubSeq(s, m + 1, Len(s))) = IF m + 1 <= Len(s) THEN Len(s) - (m + 1) + 1 ELSE 0
      /\ \A i \in 1..(Len(s) - (m + 1) + 1) : SubSeq(s, m + 1, Len(s))[i] = s[(m + 1) + i - 1]
  BY <1>0, <1>1, SubSeqProperties
<1>3. Len(s) - (m + 1) + 1 = Len(s) - m /\ \A i \in 1..(Len(s) - m) : (m + 1) + i - 1 = m + i
  BY <1>0
<1>4. Len(SubSeq(s, m + 1, Len(s))) = Len(s) - m
  BY <1>0, <1>2
<1> QED
  BY <1>2, <1>3, <1>4 DEF Rest

(* The same, as FramedConsume wants it.                                     *)
LEMMA RestIsRest ==
    ASSUME NEW X, NEW s \in Seq(X), NEW m \in 0..Len(s)
    PROVE  Rest(s, m) \in Seq(X) /\ IsRest(Rest(s, m), s, m)
<1>1. /\ Rest(s, m) \in Seq(X) /\ Len(Rest(s, m)) = Len(s) - m
      /\ \A i \in 1..(Len(s) - m) : Rest(s, m)[i] = s[m + i]
  BY RestOf
<1> QED
  BY <1>1 DEF IsRest

(* The cells of a frame.                                                    *)
LEMMA CellsTypes ==
    ASSUME NEW m \in 1..MaxMessages, NEW sh \in Shapes
    PROVE  /\ Cells(m, sh) \in Seq(Cell) /\ Len(Cells(m, sh)) = Len(sh.claims)
           /\ \A k \in 1..Len(sh.claims) :
                 /\ Cells(m, sh)[k].msg = m /\ Cells(m, sh)[k].part = k
                 /\ Cells(m, sh)[k].claim = sh.claims[k] /\ Cells(m, sh)[k].shape = sh
<1>1. sh.claims \in Seq(Nat \ {1})
  BY ShapesAssumption
<1>2. Len(sh.claims) \in Nat /\ \A k \in 1..Len(sh.claims) : sh.claims[k] \in Nat
  BY <1>1, LenProperties, ElementOfSeq
<1>3. \A k \in 1..Len(sh.claims) :
         [msg |-> m, part |-> k, claim |-> sh.claims[k], shape |-> sh] \in Cell
  BY <1>2 DEF Cell
<1>4. Cells(m, sh) \in [1..Len(sh.claims) -> Cell]
  BY <1>3 DEF Cells
<1>5. Cells(m, sh) \in Seq(Cell) /\ Len(Cells(m, sh)) = Len(sh.claims)
  BY <1>2, <1>4, SMTT(30)
<1>6. \A k \in 1..Len(sh.claims) :
         Cells(m, sh)[k] = [msg |-> m, part |-> k, claim |-> sh.claims[k], shape |-> sh]
  BY DEF Cells
<1>7. ASSUME NEW k \in 1..Len(sh.claims)
      PROVE  /\ Cells(m, sh)[k].msg = m /\ Cells(m, sh)[k].part = k
             /\ Cells(m, sh)[k].claim = sh.claims[k] /\ Cells(m, sh)[k].shape = sh
  <2>1. Cells(m, sh)[k] = [msg |-> m, part |-> k, claim |-> sh.claims[k], shape |-> sh]
    BY <1>6
  <2> QED
    BY <2>1
<1> QED
  BY <1>5, <1>7

(* The invariant: the stream is what was received and what is on its way.   *)
StreamOK(w, p, b, h, n) == w \in Seq(Cell) /\ p \in Seq(Cell) /\ Framed(w \o p, Len(w), b, h, n)

(* Two pieces of the stream, one after the other.                           *)
LEMMA StreamTypes ==
    ASSUME NEW w \in Seq(Cell), NEW p \in Seq(Cell)
    PROVE  /\ Len(w) \in Nat /\ Len(p) \in Nat /\ w \o p \in Seq(Cell) /\ Len(w \o p) = Len(w) + Len(p)
           /\ \A i \in 1..Len(w) : (w \o p)[i] = w[i]
           /\ \A i \in 1..Len(p) : (w \o p)[Len(w) + i] = p[i]
<1>1. Len(w) \in Nat /\ Len(p) \in Nat
  BY LenProperties
<1>2. /\ w \o p \in Seq(Cell) /\ Len(w \o p) = Len(w) + Len(p)
      /\ \A i \in 1..Len(w) + Len(p) : (w \o p)[i] = IF i <= Len(w) THEN w[i] ELSE p[i - Len(w)]
  BY ConcatProperties
<1>3. ASSUME NEW i \in 1..Len(w) PROVE (w \o p)[i] = w[i]
  <2>1. i \in 1..Len(w) + Len(p) /\ i <= Len(w)
    BY <1>1
  <2> QED
    BY <1>2, <2>1
<1>4. ASSUME NEW i \in 1..Len(p) PROVE (w \o p)[Len(w) + i] = p[i]
  <2>1. Len(w) + i \in 1..Len(w) + Len(p) /\ ~(Len(w) + i <= Len(w)) /\ (Len(w) + i) - Len(w) = i
    BY <1>1
  <2> QED
    BY <1>2, <2>1
<1> QED
  BY <1>1, <1>2, <1>3, <1>4

(* Drop(), and a connection that is given up.                               *)
LEMMA StreamCut ==
    ASSUME NEW w, NEW p, NEW b, NEW h, NEW n, StreamOK(w, p, b, h, n), NEW m \in 0..Len(p)
    PROVE  StreamOK(w, Prefix(p, m), b, h, n)
<1>1. w \in Seq(Cell) /\ p \in Seq(Cell) /\ Framed(w \o p, Len(w), b, h, n)
  BY DEF StreamOK
<1> DEFINE q == Prefix(p, m)
<1>2. q \in Seq(Cell) /\ Len(q) = m /\ \A i \in 1..m : q[i] = p[i]
  BY <1>1, PrefixOf
<1> HIDE DEF q
<1>3. /\ Len(w) \in Nat /\ Len(p) \in Nat /\ w \o p \in Seq(Cell) /\ Len(w \o p) = Len(w) + Len(p)
      /\ \A i \in 1..Len(w) : (w \o p)[i] = w[i]
      /\ \A i \in 1..Len(p) : (w \o p)[Len(w) + i] = p[i]
  BY <1>1, StreamTypes
<1>4. /\ w \o q \in Seq(Cell) /\ Len(w \o q) = Len(w) + Len(q)
      /\ \A i \in 1..Len(w) : (w \o q)[i] = w[i]
      /\ \A i \in 1..Len(q) : (w \o q)[Len(w) + i] = q[i]
  BY <1>1, <1>2, StreamTypes
<1>5. Len(w) <= Len(w \o q) /\ Len(w \o q) <= Len(w \o p)
  BY <1>2, <1>3, <1>4
<1>6. ASSUME NEW i \in 1..Len(w \o q) PROVE (w \o q)[i] = (w \o p)[i]
  <2>1. CASE i \in 1..Len(w)
    BY <1>3, <1>4, <2>1
  <2>2. CASE i \notin 1..Len(w)
    <3>1. i - Len(w) \in 1..m /\ i - Len(w) \in 1..Len(p) /\ Len(w) + (i - Len(w)) = i
      BY <1>2, <1>3, <1>4, <2>2
    <3> QED
      BY <1>2, <1>3, <1>4, <3>1
  <2> QED
    BY <2>1, <2>2
<1>7. Framed(w \o q, Len(w), b, h, n)
  BY <1>1, <1>4, <1>5, <1>6, FramedCut
<1> QED
  BY <1>1, <1>2, <1>7 DEF StreamOK, q

(* CasterSends().                                                           *)
LEMMA StreamSend ==
    ASSUME NEW w, NEW p, NEW b, NEW h, NEW n, StreamOK(w, p, b, h, n), n + 1 \in 1..MaxMessages,
           NEW sh \in Shapes
    PROVE  StreamOK(w, p \o Cells(n + 1, sh), b, h, n + 1)
<1>1. w \in Seq(Cell) /\ p \in Seq(Cell) /\ Framed(w \o p, Len(w), b, h, n)
  BY DEF StreamOK
<1> DEFINE c == Cells(n + 1, sh)
           S == w \o p
           T == w \o (p \o c)
<1>2. /\ c \in Seq(Cell) /\ Len(c) = Len(sh.claims)
      /\ \A k \in 1..Len(sh.claims) : c[k].msg = n + 1 /\ c[k].part = k /\ c[k].claim = sh.claims[k]
                                      /\ c[k].shape = sh
  BY CellsTypes
<1> HIDE DEF c
<1>3. p \o c \in Seq(Cell) /\ S \in Seq(Cell) /\ Len(S) \in Nat
  BY <1>1, <1>2, ConcatProperties, LenProperties
<1>4. T = S \o c
  BY <1>1, <1>2, ConcatAssociative
<1> HIDE DEF S, T
<1>5. /\ T \in Seq(Cell) /\ Len(T) = Len(S) + Len(c) /\ Len(c) \in Nat
      /\ \A i \in 1..Len(S) : T[i] = S[i]
      /\ \A i \in 1..Len(c) : T[Len(S) + i] = c[i]
  BY <1>2, <1>3, <1>4, StreamTypes
<1>6. ASSUME NEW i \in (Len(S) + 1)..Len(T)
      PROVE  /\ T[i].msg = n + 1 /\ T[i].shape = sh /\ T[i].part = i - Len(S)
             /\ T[i].claim = sh.claims[i - Len(S)]
  <2>1. i - Len(S) \in 1..Len(c) /\ Len(S) + (i - Len(S)) = i
    BY <1>3, <1>5
  <2>2. T[i] = c[i - Len(S)]
    BY <1>5, <2>1
  <2> QED
    BY <1>2, <2>1, <2>2
<1>7. Framed(T, Len(w), b, h, n + 1)
  <2>1. Framed(S, Len(w), b, h, n)
    BY <1>1 DEF S
  <2>2. Len(T) = Len(S) + Len(sh.claims)
    BY <1>2, <1>5
  <2> QED
    BY <1>5, <1>6, <2>1, <2>2, FramedSend
<1> QED
  BY <1>1, <1>3, <1>7 DEF StreamOK, T, c

(* Receive().                                                               *)
LEMMA StreamReceive ==
    ASSUME NEW w, NEW p, NEW b, NEW h, NEW n, StreamOK(w, p, b, h, n), NEW m \in 0..Len(p)
    PROVE  StreamOK(w \o Prefix(p, m), Rest(p, m), b \o Prefix(p, m), h, n)
<1>1. w \in Seq(Cell) /\ p \in Seq(Cell) /\ Framed(w \o p, Len(w), b, h, n)
  BY DEF StreamOK
<1> DEFINE q == Prefix(p, m)
           t == Rest(p, m)
           S == w \o p
<1>2. /\ q \in Seq(Cell) /\ Len(q) = m /\ \A i \in 1..m : q[i] = p[i]
      /\ t \in Seq(Cell) /\ Len(t) = Len(p) - m /\ \A i \in 1..(Len(p) - m) : t[i] = p[m + i]
  BY <1>1, PrefixOf, RestOf
<1> HIDE DEF q, t
<1>3. Len(p) \in Nat /\ m \in Nat /\ m <= Len(p)
  BY <1>1, LenProperties
<1>4. q \o t = p
  <2>1. /\ q \o t \in Seq(Cell) /\ Len(q \o t) = Len(q) + Len(t)
        /\ \A i \in 1..Len(q) : (q \o t)[i] = q[i]
        /\ \A i \in 1..Len(t) : (q \o t)[Len(q) + i] = t[i]
    BY <1>2, StreamTypes
  <2>2. Len(q \o t) = Len(p)
    BY <1>2, <1>3, <2>1
  <2>3. ASSUME NEW i \in 1..Len(q \o t) PROVE (q \o t)[i] = p[i]
    <3>1. CASE i \in 1..m
      BY <1>2, <2>1, <3>1
    <3>2. CASE i \notin 1..m
      <4>1. i - m \in 1..(Len(p) - m) /\ m + (i - m) = i
        BY <1>3, <2>2, <3>2
      <4> QED
        BY <1>2, <2>1, <4>1
    <3> QED
      BY <3>1, <3>2
  <2> QED
    BY <1>1, <2>1, <2>2, <2>3, SeqEqual
<1>5. (w \o q) \o t = S
  <2>0. w \in Seq(Cell) /\ q \in Seq(Cell) /\ t \in Seq(Cell)
    BY <1>1, <1>2
  <2>1. (w \o q) \o t = w \o (q \o t)
    BY <2>0, ConcatAssociative
  <2>2. w \o (q \o t) = w \o p
    BY <1>4
  <2> QED
    BY <2>1, <2>2 DEF S
<1>6. w \o q \in Seq(Cell) /\ Len(w \o q) = Len(w) + m
  BY <1>1, <1>2, StreamTypes
<1>7. /\ Len(w) \in Nat /\ Len(S) = Len(w) + Len(p)
      /\ \A i \in 1..Len(p) : S[Len(w) + i] = p[i]
  BY <1>1, StreamTypes
<1> HIDE DEF S
<1>8. b \in Seq(Cell) /\ Framed(S, Len(w), b, h, n)
  BY <1>1, FramedParts DEF S
<1>9. /\ b \o q \in Seq(Cell) /\ Len(b \o q) = Len(b) + m /\ Len(b) \in Nat
      /\ \A i \in 1..Len(b) : (b \o q)[i] = b[i]
      /\ \A i \in 1..m : (b \o q)[Len(b) + i] = q[i]
  BY <1>2, <1>8, StreamTypes
<1>10. ASSUME NEW i \in (Len(b) + 1)..Len(b \o q) PROVE (b \o q)[i] = S[Len(w) + (i - Len(b))]
  <2>1. i - Len(b) \in 1..m /\ i - Len(b) \in 1..Len(p) /\ Len(b) + (i - Len(b)) = i
    BY <1>3, <1>9
  <2>2. (b \o q)[i] = q[i - Len(b)]
    BY <1>9, <2>1
  <2> QED
    BY <1>2, <1>7, <2>1, <2>2
<1>11. Framed(S, Len(w) + m, b \o q, h, n)
  <2>1. Len(w) + m <= Len(S)
    BY <1>3, <1>7
  <2> QED
    BY <1>3, <1>8, <1>9, <1>10, <2>1, FramedReceive
<1>12. Framed((w \o q) \o t, Len(w \o q), b \o q, h, n)
  BY <1>5, <1>6, <1>11
<1> QED
  BY <1>2, <1>6, <1>12 DEF StreamOK, q, t

(* CrcMatches on the front of the buffer.                                   *)
LEMMA CrcMeans ==
    ASSUME NEW b \in Seq(Cell), NEW m \in 1..Len(b)
    PROVE  CrcMatches(Prefix(b, m)) <=>
              /\ b[1].shape.ok /\ m = Len(b[1].shape.claims)
              /\ \A k \in 1..m : b[k].msg = b[1].msg /\ b[k].part = k
<1>1. Len(b) \in Nat /\ m \in 0..Len(b) /\ 1 \in 1..m
  BY LenProperties
<1> DEFINE q == Prefix(b, m)
<1>2. Len(q) = m /\ \A i \in 1..m : q[i] = b[i]
  BY <1>1, PrefixOf
<1> HIDE DEF q
<1>3. q[1] = b[1]
  BY <1>1, <1>2
<1>4. CrcMatches(q) <=> /\ q[1].shape.ok /\ Len(q) = Len(q[1].shape.claims)
                        /\ \A k \in 1..Len(q) : q[k].msg = q[1].msg /\ q[k].part = k
  BY DEF CrcMatches
<1>5. CrcMatches(q) <=>
         /\ b[1].shape.ok /\ m = Len(b[1].shape.claims)
         /\ \A k \in 1..m : b[k].msg = b[1].msg /\ b[k].part = k
  BY <1>2, <1>3, <1>4
<1> QED
  BY <1>5 DEF q

(* SkipToPreamble and SkipPreamble: no intact frame begins in front.        *)
LEMMA StreamSkip ==
    ASSUME NEW w, NEW p, NEW b, NEW h, NEW n, StreamOK(w, p, b, h, n), Len(b) >= 1,
           \/ ~(b[1].claim > 0)
           \/ b[1].claim > FieldLimit
           \/ b[1].claim <= Len(b) /\ ~CrcMatches(Prefix(b, b[1].claim))
    PROVE  StreamOK(w, p, Rest(b, 1), h, n)
<1>1. w \in Seq(Cell) /\ p \in Seq(Cell) /\ Framed(w \o p, Len(w), b, h, n)
  BY DEF StreamOK
<1> DEFINE S == w \o p
           r == Len(w)
<1>2. Framed(S, r, b, h, n)
  BY <1>1
<1> HIDE DEF S, r
<1>3. b \in Seq(Cell) /\ Len(b) \in Nat /\ 1 \in 0..Len(b)
  BY <1>2, FramedParts, FramedTypes
<1>4. ASSUME IntactAt(S, (r - Len(b)) + 1) PROVE FALSE
  <2>1. /\ b[1].shape.ok /\ b[1].claim = Len(b[1].shape.claims) /\ b[1].claim \in Nat \ {0}
        /\ b[1].claim <= FieldLimit
        /\ b[1].claim <= Len(b) => \A k \in 1..b[1].claim : b[k].msg = b[1].msg /\ b[k].part = k
    BY <1>2, <1>4, IntactInFront
  <2>2. b[1].claim > 0 /\ ~(b[1].claim > FieldLimit)
    BY <2>1, BoundsAssumption
  <2>3. b[1].claim <= Len(b) /\ ~CrcMatches(Prefix(b, b[1].claim))
    BY <2>2
  <2>4. b[1].claim \in 1..Len(b)
    BY <1>3, <2>1, <2>3
  <2> QED
    BY <1>3, <2>1, <2>3, <2>4, CrcMeans
<1>5. Rest(b, 1) \in Seq(Cell) /\ IsRest(Rest(b, 1), b, 1)
  BY <1>3, RestIsRest
<1>6. Framed(S, r, Rest(b, 1), h, n)
  BY <1>2, <1>4, <1>5, FramedSkip
<1> QED
  BY <1>1, <1>6 DEF StreamOK, S, r

(* TakeFrame().                                                             *)
LEMMA StreamTake ==
    ASSUME NEW w, NEW p, NEW b, NEW h, NEW n, StreamOK(w, p, b, h, n),
           NEW m \in 1..Len(b), CrcMatches(Prefix(b, m))
    PROVE  StreamOK(w, p, Rest(b, m), Append(h, b[1].msg), n)
<1>1. w \in Seq(Cell) /\ p \in Seq(Cell) /\ Framed(w \o p, Len(w), b, h, n)
  BY DEF StreamOK
<1>2. b \in Seq(Cell) /\ Len(b) \in Nat /\ m \in 0..Len(b)
  BY <1>1, FramedParts, FramedTypes
<1>3. OneFrame(b, m)
  <2>1. /\ m = Len(b[1].shape.claims)
        /\ \A k \in 1..m : b[k].msg = b[1].msg /\ b[k].part = k
    BY <1>2, CrcMeans
  <2> QED
    BY <1>2, <2>1 DEF OneFrame
<1>4. Rest(b, m) \in Seq(Cell) /\ IsRest(Rest(b, m), b, m)
  BY <1>2, RestIsRest
<1>5. Framed(w \o p, Len(w), Rest(b, m), Append(h, b[1].msg), n)
  BY <1>1, <1>3, <1>4, FramedTake
<1> QED
  BY <1>1, <1>5 DEF StreamOK

(* disconnect().                                                            *)
LEMMA StreamClear ==
    ASSUME NEW w, NEW p, NEW b, NEW g \in Seq(Nat), NEW d \in Seq(Nat), NEW n,
           StreamOK(w, p, b, g \o d, n)
    PROVE  StreamOK(<<>>, p, <<>>, g, n)
<1>1. w \in Seq(Cell) /\ p \in Seq(Cell) /\ Framed(w \o p, Len(w), b, g \o d, n)
  BY DEF StreamOK
<1>2. /\ Len(w \o p) = Len(w) + Len(p) /\ Len(w) \in Nat /\ Len(p) \in Nat
      /\ \A i \in 1..Len(p) : (w \o p)[Len(w) + i] = p[i]
  BY <1>1, StreamTypes
<1> DEFINE S == w \o p
           h == g \o d
<1> HIDE DEF S
<1>3. Len(g) \in Nat /\ Len(d) \in Nat /\ Len(h) = Len(g) + Len(d)
      /\ \A i \in 1..Len(g) + Len(d) : h[i] = IF i <= Len(g) THEN g[i] ELSE d[i - Len(g)]
  BY LenProperties, ConcatProperties
<1>4. Framed(S, Len(w), b, h, n) /\ IsRest(p, S, Len(w))
  BY <1>1, <1>2 DEF IsRest, S
<1> HIDE DEF h
<1>5. Begins(g, h)
  BY <1>3 DEF Begins
<1>6. Framed(p, 0, <<>>, g, n)
  BY <1>1, <1>4, <1>5, FramedClear
<1>7. <<>> \o p = p /\ <<>> \in Seq(Cell) /\ Len(<<>>) = 0
  BY <1>1, ConcatEmptySeq, EmptySeq
<1> QED
  BY <1>1, <1>6, <1>7 DEF StreamOK

-----------------------------------------------------------------------------
(* NtripClient: the steps                                                   *)

StreamInv == StreamOK(wire, pipe, buf, collected \o pending, sent)
ClientInv == ClientTypeOK /\ StreamInv

(* Nothing was sent, received or handed over.                               *)
LEMMA ClientInitOK == ClientInit => ClientInv
<1> SUFFICES ASSUME ClientInit PROVE ClientInv
  OBVIOUS
<1>1. MaxMessages \in Nat /\ MaxFaults \in Nat
  BY BoundsAssumption
<1>2. /\ <<>> \in Seq(1..MaxMessages) /\ <<>> \in Seq(Cell) /\ <<>> \in Seq(Nat) /\ Len(<<>>) = 0
  BY EmptySeq
<1>3. <<>> \o <<>> = <<>>
  BY <1>2, ConcatEmptySeq
<1>4. ClientTypeOK
  <2>1. /\ ctl = "idle" /\ rx = "none" /\ link = "none"
        /\ sent = 0 /\ faults = 0 /\ pending = <<>> /\ collected = <<>>
    BY DEF ClientInit
  <2>2. stop \in BOOLEAN /\ connected \in BOOLEAN /\ auto \in BOOLEAN /\ was \in BOOLEAN
    BY DEF ClientInit
  <2>3. sent \in 0..MaxMessages /\ faults \in 0..MaxFaults
    BY <1>1, <2>1
  <2> QED
    BY <1>2, <2>1, <2>2, <2>3 DEF ClientTypeOK
<1>5. Framed(<<>>, 0, <<>>, <<>>, 0)
  <2> DEFINE e == <<>>
  <2>1. e \in Seq(Cell) /\ e \in Seq(Nat) /\ Len(e) = 0
    BY <1>2
  <2> HIDE DEF e
  <2>2. 0 - Len(e) = 0 /\ 0 \in 0..Len(e)
    BY <2>1
  <2>3. \A i \in 1..Len(e) : FALSE
    BY <2>1
  <2>4. WellFormed(e, 0)
    BY <2>3 DEF WellFormed
  <2>5. CellsInOrder(e)
    BY <2>3 DEF CellsInOrder
  <2>6. BufferIsRest(e, 0, e)
    BY <2>1, <2>3 DEF BufferIsRest
  <2>7. HandedBefore(e, 0, e, 0)
    BY <2>3 DEF HandedBefore
  <2>8. NoneSkipped(e, 0, 0, e)
    BY DEF NoneSkipped
  <2>9. Framed(e, 0, e, e, 0)
    BY <2>1, <2>2, <2>4, <2>5, <2>6, <2>7, <2>8 DEF Framed
  <2> QED
    BY <2>9 DEF e
<1>6. /\ wire = <<>> /\ pipe = <<>> /\ buf = <<>> /\ collected = <<>> /\ pending = <<>> /\ sent = 0
  BY DEF ClientInit
<1>7. StreamInv
  BY <1>2, <1>3, <1>5, <1>6 DEF StreamInv, StreamOK
<1> QED
  BY <1>4, <1>7 DEF ClientInv

(* What was handed over are frames that exist.                              *)
LEMMA HandedTypes ==
    ASSUME ClientInv
    PROVE  /\ collected \in Seq(Nat) /\ pending \in Seq(Nat) /\ collected \o pending \in Seq(Nat)
           /\ collected \in Seq(1..MaxMessages) /\ pending \in Seq(1..MaxMessages)
           /\ buf \in Seq(Cell) /\ Len(buf) \in Nat /\ pipe \in Seq(Cell) /\ Len(pipe) \in Nat
           /\ sent \in 0..MaxMessages /\ MaxMessages \in Nat
<1>1. collected \in Seq(1..MaxMessages) /\ pending \in Seq(1..MaxMessages) /\ sent \in 0..MaxMessages
  BY DEF ClientInv, ClientTypeOK
<1>2. ASSUME NEW s \in Seq(1..MaxMessages) PROVE s \in Seq(Nat)
  <2>1. Len(s) \in Nat /\ s \in [1..Len(s) -> 1..MaxMessages]
    BY LenProperties
  <2>2. s \in [1..Len(s) -> Nat]
    BY <2>1
  <2> QED
    BY <2>1, <2>2
<1>3. pipe \in Seq(Cell) /\ Framed(wire \o pipe, Len(wire), buf, collected \o pending, sent)
  BY DEF ClientInv, StreamInv, StreamOK
<1>4. buf \in Seq(Cell) /\ collected \o pending \in Seq(Nat)
  BY <1>3, FramedParts
<1> QED
  BY <1>1, <1>2, <1>3, <1>4, BoundsAssumption, LenProperties

(* Nothing moves.                                                           *)
LEMMA StreamKept ==
    ASSUME StreamInv, wire' = wire, pipe' = pipe, buf' = buf, collected' = collected, pending' = pending,
           sent' = sent
    PROVE  StreamInv'
BY DEF StreamInv

(* The connection is given up.                                              *)
LEMMA PipeGone ==
    ASSUME StreamInv, wire' = wire, pipe' = <<>>, buf' = buf, collected' = collected, pending' = pending,
           sent' = sent
    PROVE  StreamInv'
<1>1. StreamOK(wire, pipe, buf, collected \o pending, sent)
  BY DEF StreamInv
<1>2. 0 \in 0..Len(pipe)
  <2>1. Len(pipe) \in Nat
    BY <1>1, LenProperties DEF StreamOK
  <2> QED
    BY <2>1
<1>3. StreamOK(wire, Prefix(pipe, 0), buf, collected \o pending, sent)
  BY <1>1, <1>2, StreamCut
<1>4. Prefix(pipe, 0) = <<>>
  BY SubSeqEmpty DEF Prefix
<1> QED
  BY <1>3, <1>4 DEF StreamInv

(* The connection is lost; what was still on its way is cut.                *)
LEMMA DropOK == ASSUME ClientInv, NEW n \in 0..Backlog + FieldLimit, Drop(n) PROVE StreamInv'
<1>1. n \in 0..Len(pipe)
  BY HandedTypes, BoundsAssumption DEF Drop
<1>2. StreamOK(wire, Prefix(pipe, n), buf, collected \o pending, sent)
  BY <1>1, StreamCut DEF ClientInv, StreamInv
<1> QED
  BY <1>2 DEF Drop, dataVars, StreamInv

(* The caster sends a frame later than all others.                          *)
LEMMA CasterSendsOK == ASSUME ClientInv, NEW sh \in Shapes, CasterSends(sh) PROVE StreamInv'
<1>1. sent + 1 \in 1..MaxMessages
  BY HandedTypes DEF CasterSends
<1>2. StreamOK(wire, pipe \o Cells(sent + 1, sh), buf, collected \o pending, sent + 1)
  BY <1>1, StreamSend DEF ClientInv, StreamInv
<1> QED
  BY <1>2 DEF CasterSends, dataVars, StreamInv

(* Cells move from the way to the end of the buffer.                        *)
LEMMA ReceiveOK == ASSUME ClientInv, NEW n \in 1..Backlog + FieldLimit, Receive(n) PROVE StreamInv'
<1>1. n \in 0..Len(pipe)
  BY HandedTypes, BoundsAssumption DEF Receive
<1>2. StreamOK(wire \o Prefix(pipe, n), Rest(pipe, n), buf \o Prefix(pipe, n), collected \o pending, sent)
  BY <1>1, StreamReceive DEF ClientInv, StreamInv
<1> QED
  BY <1>2 DEF Receive, StreamInv

(* The cell that is skipped begins no intact frame.                         *)
LEMMA SkipOK == ASSUME ClientInv, SkipToPreamble \/ SkipPreamble PROVE StreamInv'
<1>1. Len(buf) >= 1
  BY HandedTypes, BoundsAssumption DEF SkipToPreamble, SkipPreamble
<1>2. \/ ~(buf[1].claim > 0)
      \/ buf[1].claim > FieldLimit
      \/ buf[1].claim <= Len(buf) /\ ~CrcMatches(Prefix(buf, buf[1].claim))
  BY DEF SkipToPreamble, SkipPreamble, AtPreamble, Reserved, Claimed
<1>3. StreamOK(wire, pipe, Rest(buf, 1), collected \o pending, sent)
  BY <1>1, <1>2, StreamSkip DEF ClientInv, StreamInv
<1> QED
  BY <1>3 DEF SkipToPreamble, SkipPreamble, netVars, StreamInv

(* The frame in front is handed over, and is one that was sent.             *)
LEMMA TakeFrameOK ==
    ASSUME ClientInv, TakeFrame
    PROVE  StreamInv' /\ buf[1].msg \in 1..MaxMessages
<1>1. /\ Len(buf) >= 1 /\ buf[1].claim > 0 /\ buf[1].claim <= Len(buf)
      /\ CrcMatches(Prefix(buf, buf[1].claim))
  BY HandedTypes, BoundsAssumption DEF TakeFrame, AtPreamble, Claimed
<1>2. 1 \in 1..Len(buf) /\ buf[1].claim \in Nat /\ buf[1].msg \in 1..MaxMessages
  <2>1. 1 \in 1..Len(buf) /\ buf \in Seq(Cell)
    BY <1>1, HandedTypes
  <2> QED
    BY <2>1, CellTypes
<1>3. buf[1].claim \in 1..Len(buf)
  BY <1>1, <1>2
<1>4. StreamOK(wire, pipe, Rest(buf, buf[1].claim), Append(collected \o pending, buf[1].msg), sent)
  BY <1>1, <1>3, StreamTake DEF ClientInv, StreamInv
<1>5. Append(collected \o pending, buf[1].msg) = collected \o Append(pending, buf[1].msg)
  <2>1. /\ collected \in Seq(Nat) /\ pending \in Seq(Nat) /\ collected \o pending \in Seq(Nat)
        /\ buf[1].msg \in Nat
    BY <1>2, HandedTypes
  <2>2. Append(collected \o pending, buf[1].msg) = (collected \o pending) \o <<buf[1].msg>>
    BY <2>1, AppendIsConcat
  <2>3. Append(pending, buf[1].msg) = pending \o <<buf[1].msg>> /\ <<buf[1].msg>> \in Seq(Nat)
    BY <2>1, AppendIsConcat
  <2>4. (collected \o pending) \o <<buf[1].msg>> = collected \o (pending \o <<buf[1].msg>>)
    BY <2>1, <2>3, ConcatAssociative
  <2> QED
    BY <2>2, <2>3, <2>4
<1>6. /\ wire' = wire /\ pipe' = pipe /\ sent' = sent /\ collected' = collected
      /\ pending' = Append(pending, buf[1].msg) /\ buf' = Rest(buf, buf[1].claim)
  BY DEF TakeFrame, netVars, Claimed
<1>7. StreamInv'
  BY <1>4, <1>5, <1>6 DEF StreamInv
<1> QED
  BY <1>2, <1>7

(* The application collects what is pending, in its order.                  *)
LEMMA ReceiveFramesOK ==
    ASSUME ClientInv, ReceiveFrames
    PROVE  StreamInv' /\ collected' \in Seq(1..MaxMessages)
<1>1. /\ wire' = wire /\ pipe' = pipe /\ sent' = sent /\ buf' = buf
      /\ collected' = collected \o pending /\ pending' = <<>>
  BY DEF ReceiveFrames, netVars
<1>2. collected \in Seq(1..MaxMessages) /\ pending \in Seq(1..MaxMessages)
  BY HandedTypes
<1>3. collected \o pending \in Seq(1..MaxMessages)
  BY <1>2, ConcatProperties
<1>4. (collected \o pending) \o <<>> = collected \o pending
  BY <1>3, ConcatEmptySeq
<1> QED
  BY <1>1, <1>3, <1>4 DEF ClientInv, StreamInv

(* disconnect() ends, with or without forgetting the buffers.               *)
LEMMA JoinOK == ASSUME ClientInv, Join PROVE StreamInv'
<1>1. pipe' = pipe /\ sent' = sent /\ collected' = collected
  BY DEF Join, netVars
<1>2. CASE was
  <2>1. buf' = <<>> /\ pending' = <<>> /\ wire' = <<>>
    BY <1>2 DEF Join
  <2>2. collected \in Seq(Nat) /\ pending \in Seq(Nat)
    BY HandedTypes
  <2>3. StreamOK(<<>>, pipe, <<>>, collected, sent)
    BY <2>2, StreamClear DEF ClientInv, StreamInv
  <2>4. collected \o <<>> = collected
    BY <2>2, ConcatEmptySeq
  <2> QED
    BY <1>1, <2>1, <2>3, <2>4 DEF StreamInv
<1>3. CASE ~was
  BY <1>1, <1>3, StreamKept DEF Join, ClientInv
<1> QED
  BY <1>2, <1>3

(* connect() starts on an empty connection.                                 *)
LEMMA ConnectingOK == ASSUME ClientInv, Connecting PROVE StreamInv'
<1>1. /\ wire' = wire /\ buf' = buf /\ collected' = collected /\ pending' = pending
      /\ sent' = sent /\ (pipe' = pipe \/ pipe' = <<>>)
  BY DEF Connecting, Refused, Accepted, Established, dataVars
<1> QED
  BY <1>1, StreamKept, PipeGone DEF ClientInv

(* And so does the receive thread.                                          *)
LEMMA ReconnectingOK == ASSUME ClientInv, Reconnecting PROVE StreamInv'
<1>1. /\ wire' = wire /\ buf' = buf /\ collected' = collected /\ pending' = pending
      /\ sent' = sent /\ (pipe' = pipe \/ pipe' = <<>>)
  BY DEF Reconnecting, Refused, Stopped, Accepted, Established, dataVars
<1> QED
  BY <1>1, StreamKept, PipeGone DEF ClientInv

(* A socket is closed.                                                      *)
LEMMA GivenUpOK == ASSUME ClientInv, PauseEnds \/ CloseSocket PROVE StreamInv'
<1>1. /\ wire' = wire /\ buf' = buf /\ collected' = collected /\ pending' = pending
      /\ sent' = sent /\ (pipe' = pipe \/ pipe' = <<>>)
  BY DEF PauseEnds, CloseSocket, dataVars
<1> QED
  BY <1>1, StreamKept, PipeGone DEF ClientInv

(* The steps that touch no byte of the stream.                              *)
LEMMA QuietOK ==
    ASSUME ClientInv,
           \/ SetAutoReconnect \/ Connect \/ Disconnect \/ StartReceiving \/ Exchange \/ RequestStop
           \/ LoopEnds \/ ConnectionLost \/ Decide \/ NeedMoreData \/ UNCHANGED clientVars
    PROVE  StreamInv'
<1>1. /\ wire' = wire /\ buf' = buf /\ collected' = collected /\ pending' = pending
      /\ sent' = sent /\ pipe' = pipe
  BY DEF SetAutoReconnect, Connect, Disconnect, StartReceiving, Exchange, RequestStop, LoopEnds,
         ConnectionLost, Decide, NeedMoreData, clientVars, dataVars, netVars
<1> QED
  BY <1>1, StreamKept DEF ClientInv

(* Every step keeps the stream and what came of it in order.                *)
LEMMA StreamStep == ASSUME ClientInv, [ClientNext]_clientVars PROVE StreamInv'
<1>1. CASE \E n \in 0..Backlog + FieldLimit : Drop(n)
  BY <1>1, DropOK
<1>2. CASE \E sh \in Shapes : CasterSends(sh)
  BY <1>2, CasterSendsOK
<1>3. CASE \E n \in 1..Backlog + FieldLimit : Receive(n)
  BY <1>3, ReceiveOK
<1>4. CASE SkipToPreamble \/ SkipPreamble
  BY <1>4, SkipOK
<1>5. CASE TakeFrame
  BY <1>5, TakeFrameOK
<1>6. CASE ReceiveFrames
  BY <1>6, ReceiveFramesOK
<1>7. CASE Join
  BY <1>7, JoinOK
<1>8. CASE Connecting
  BY <1>8, ConnectingOK
<1>9. CASE Reconnecting
  BY <1>9, ReconnectingOK
<1>10. CASE PauseEnds \/ CloseSocket
  BY <1>10, GivenUpOK
<1>11. CASE \/ SetAutoReconnect \/ Connect \/ Disconnect \/ StartReceiving \/ Exchange \/ RequestStop
            \/ LoopEnds \/ ConnectionLost \/ Decide \/ NeedMoreData \/ UNCHANGED clientVars
  BY <1>11, QuietOK
<1> QED
  BY <1>1, <1>2, <1>3, <1>4, <1>5, <1>6, <1>7, <1>8, <1>9, <1>10, <1>11
     DEF ClientNext, CtlStep, RxStep

(* What the stream leaves to the types: the flags and the counters.         *)
LEMMA ClientTypeStep == ASSUME ClientInv, [ClientNext]_clientVars PROVE ClientTypeOK'
<1>1. /\ collected \in Seq(1..MaxMessages) /\ pending \in Seq(1..MaxMessages)
      /\ sent \in 0..MaxMessages /\ MaxMessages \in Nat
      /\ faults \in 0..MaxFaults /\ MaxFaults \in Nat
  BY HandedTypes, BoundsAssumption DEF ClientInv, ClientTypeOK
<1>2. /\ ctl \in {"idle", "dial", "accepted", "spawn", "session", "exchange", "request", "close", "join"}
      /\ rx \in {"none", "done"} \cup Receiving
      /\ stop \in BOOLEAN /\ connected \in BOOLEAN /\ auto \in BOOLEAN /\ was \in BOOLEAN
      /\ link \in {"none", "up", "gone"}
  BY DEF ClientInv, ClientTypeOK
<1>3. /\ faults' = faults \/ Fails => faults' \in 0..MaxFaults
      /\ sent' = sent \/ (sent < MaxMessages /\ sent' = sent + 1) => sent' \in 0..MaxMessages
  BY <1>1 DEF Fails
<1>4. <<>> \in Seq(1..MaxMessages)
  BY EmptySeq
<1> DEFINE Flags ==
        /\ ctl' \in {"idle", "dial", "accepted", "spawn", "session", "exchange", "request", "close", "join"}
        /\ rx' \in {"none", "done"} \cup Receiving
        /\ stop' \in BOOLEAN /\ connected' \in BOOLEAN /\ auto' \in BOOLEAN /\ was' \in BOOLEAN
        /\ link' \in {"none", "up", "gone"}
           Frames == pending' \in Seq(1..MaxMessages) /\ collected' \in Seq(1..MaxMessages)
           Counters == sent' \in 0..MaxMessages /\ faults' \in 0..MaxFaults
<1>5. Flags /\ Frames /\ Counters => ClientTypeOK'
  BY DEF ClientTypeOK
<1> HIDE DEF Flags, Frames, Counters
<1>6. pending' = pending /\ collected' = collected => Frames
  BY <1>1 DEF Frames
<1>7. sent' = sent /\ faults' = faults => Counters
  BY <1>1 DEF Counters
<1>8. CASE \E n \in 0..Backlog + FieldLimit : Drop(n)
  <2>1. Flags
    BY <1>2, <1>8 DEF Drop, Flags, threadVars, flagVars
  <2>2. Frames /\ Counters
    BY <1>1, <1>3, <1>6, <1>8 DEF Drop, dataVars, Counters
  <2> QED
    BY <1>5, <2>1, <2>2
<1>9. CASE \E sh \in Shapes : CasterSends(sh)
  <2>1. Flags
    BY <1>2, <1>9 DEF CasterSends, Flags, threadVars, flagVars
  <2>2. Frames /\ Counters
    BY <1>3, <1>6, <1>9 DEF CasterSends, dataVars, Counters
  <2> QED
    BY <1>5, <2>1, <2>2
<1>10. CASE TakeFrame
  <2>1. Flags
    BY <1>2, <1>10 DEF TakeFrame, Flags, threadVars, flagVars, netVars
  <2>2. Counters
    BY <1>7, <1>10 DEF TakeFrame, netVars
  <2>3. Frames
    <3>1. buf[1].msg \in 1..MaxMessages
      BY <1>10, TakeFrameOK
    <3>2. pending' = Append(pending, buf[1].msg) /\ collected' = collected
      BY <1>10 DEF TakeFrame
    <3> QED
      BY <1>1, <3>1, <3>2, AppendProperties DEF Frames
  <2> QED
    BY <1>5, <2>1, <2>2, <2>3
<1>11. CASE ReceiveFrames
  <2>1. Flags
    BY <1>2, <1>11 DEF ReceiveFrames, Flags, threadVars, flagVars, netVars
  <2>2. Counters
    BY <1>7, <1>11 DEF ReceiveFrames, netVars
  <2>3. Frames
    BY <1>4, <1>11, ReceiveFramesOK DEF ReceiveFrames, Frames
  <2> QED
    BY <1>5, <2>1, <2>2, <2>3
<1>12. CASE Join
  <2>1. Flags
    BY <1>2, <1>12 DEF Join, Flags, flagVars, netVars
  <2>2. Counters
    BY <1>7, <1>12 DEF Join, netVars
  <2>3. Frames
    <3>1. collected' = collected /\ (pending' = pending \/ pending' = <<>>)
      BY <1>12 DEF Join
    <3> QED
      BY <1>1, <1>4, <3>1 DEF Frames
  <2> QED
    BY <1>5, <2>1, <2>2, <2>3
<1>13. CASE Connecting \/ Reconnecting
  <2>1. Flags
    BY <1>2, <1>13 DEF Connecting, Reconnecting, Refused, Stopped, Accepted, Established, Flags, Receiving
  <2>2. sent' = sent /\ (faults' = faults \/ Fails) /\ pending' = pending /\ collected' = collected
    BY <1>13 DEF Connecting, Reconnecting, Refused, Stopped, Accepted, Established, dataVars
  <2>3. Frames /\ Counters
    BY <1>1, <1>3, <1>6, <2>2 DEF Counters
  <2> QED
    BY <1>5, <2>1, <2>3
<1>14. CASE \E n \in 1..Backlog + FieldLimit : Receive(n)
  <2>1. Flags
    BY <1>2, <1>14 DEF Receive, Flags, flagVars, Receiving
  <2>2. Frames /\ Counters
    BY <1>6, <1>7, <1>14 DEF Receive
  <2> QED
    BY <1>5, <2>1, <2>2
<1>15. CASE \/ SkipToPreamble \/ SkipPreamble \/ NeedMoreData \/ PauseEnds \/ CloseSocket
            \/ SetAutoReconnect \/ Connect \/ Disconnect \/ StartReceiving \/ Exchange \/ RequestStop
            \/ LoopEnds \/ ConnectionLost \/ Decide \/ UNCHANGED clientVars
  <2>1. Flags
    BY <1>2, <1>15
       DEF SkipToPreamble, SkipPreamble, NeedMoreData, PauseEnds, CloseSocket, SetAutoReconnect, Connect,
           Disconnect, StartReceiving, Exchange, RequestStop, LoopEnds, ConnectionLost, Decide, clientVars,
           threadVars, flagVars, netVars, Flags, Receiving
  <2>2. sent' = sent /\ faults' = faults /\ pending' = pending /\ collected' = collected
    BY <1>15
       DEF SkipToPreamble, SkipPreamble, NeedMoreData, PauseEnds, CloseSocket, SetAutoReconnect, Connect,
           Disconnect, StartReceiving, Exchange, RequestStop, LoopEnds, ConnectionLost, Decide, clientVars,
           netVars, dataVars
  <2>3. Frames /\ Counters
    BY <1>6, <1>7, <2>2
  <2> QED
    BY <1>5, <2>1, <2>3
<1> QED
  BY <1>8, <1>9, <1>10, <1>11, <1>12, <1>13, <1>14, <1>15 DEF ClientNext, CtlStep, RxStep

(* The invariant holds in every reachable state.                            *)
LEMMA ClientInvHolds == ClientSpec => []ClientInv
<1>1. ClientInit => ClientInv
  BY ClientInitOK
<1>2. ClientInv /\ [ClientNext]_clientVars => ClientInv'
  BY StreamStep, ClientTypeStep DEF ClientInv
<1> QED
  BY <1>1, <1>2, PTL DEF ClientSpec

(* NtripClient keeps its types: a flag, a counter within its bound, frames  *)
(* that were sent.                                                          *)
THEOREM ClientTypeCorrect == ClientSpec => []ClientTypeOK
<1>1. ClientInv => ClientTypeOK
  BY DEF ClientInv
<1> QED
  BY <1>1, ClientInvHolds, PTL

(* receiveFrames(): whatever tears the stream and however often it is       *)
(* reconnected, every frame comes at most once and in the stream's order.   *)
THEOREM FramesComeInOrder == ClientSpec => []FramesInOrder
<1>1. ClientInv => FramesInOrder
  <2> SUFFICES ASSUME ClientInv PROVE FramesInOrder
    OBVIOUS
  <2>1. Framed(wire \o pipe, Len(wire), buf, collected \o pending, sent)
    BY DEF ClientInv, StreamInv, StreamOK
  <2>2. HandedBefore(wire \o pipe, Len(wire) - Len(buf), collected \o pending, sent)
    BY <2>1, FramedParts
  <2> QED
    BY <2>2 DEF HandedBefore, FramesInOrder
<1> QED
  BY <1>1, ClientInvHolds, PTL

(* An intact frame begins behind what was handed over or skipped, and so    *)
(* all its cells are still in the buffer.                                   *)
LEMMA IntactIsKept == ASSUME ClientInv PROVE NoIntactFrameLost
<1> SUFFICES ASSUME NEW m \in 1..sent, Whole(m), ~Handed(m), NEW k2 \in CellsOf(m, wire)
             PROVE  \E j \in CellsOf(m, buf) : buf[j] = wire[k2]
  BY DEF NoIntactFrameLost
<1> DEFINE S == wire \o pipe
           h == collected \o pending
<1>1. wire \in Seq(Cell) /\ pipe \in Seq(Cell) /\ Framed(S, Len(wire), buf, h, sent)
  BY DEF ClientInv, StreamInv, StreamOK
<1>2. /\ Len(wire) \in Nat /\ Len(pipe) \in Nat /\ Len(S) = Len(wire) + Len(pipe) /\ S \in Seq(Cell)
      /\ \A i \in 1..Len(wire) : S[i] = wire[i]
  BY <1>1, StreamTypes
<1> HIDE DEF S
<1>3. PICK k \in CellsOf(m, wire) :
         /\ wire[k].part = 1 /\ wire[k].shape.ok
         /\ \A j \in 1..Len(wire[k].shape.claims) :
               k + j - 1 \in CellsOf(m, wire) /\ wire[k + j - 1].part = j
  BY DEF Whole
<1>4. /\ k \in 1..Len(wire) /\ k \in 1..Len(S) /\ wire[k].msg = m /\ S[k] = wire[k]
      /\ k2 \in 1..Len(wire) /\ k2 \in 1..Len(S) /\ wire[k2].msg = m /\ S[k2] = wire[k2]
  BY <1>2 DEF CellsOf
<1>5. IntactAt(S, k)
  <2>1. ASSUME NEW j \in 1..Len(S[k].shape.claims)
        PROVE  k + j - 1 \in 1..Len(S) /\ S[k + j - 1].msg = S[k].msg /\ S[k + j - 1].part = j
    <3>1. k + j - 1 \in CellsOf(m, wire) /\ wire[k + j - 1].part = j
      BY <1>3, <1>4
    <3>2. k + j - 1 \in 1..Len(wire) /\ wire[k + j - 1].msg = m
      BY <3>1 DEF CellsOf
    <3>3. S[k + j - 1] = wire[k + j - 1] /\ k + j - 1 \in 1..Len(S)
      BY <1>2, <3>2
    <3> QED
      BY <1>4, <3>1, <3>2, <3>3
  <2> QED
    BY <1>3, <1>4, <2>1 DEF IntactAt
<1>6. k > Len(wire) - Len(buf)
  <2>1. ~\E i \in 1..Len(h) : h[i] = m
    BY DEF Handed
  <2> HIDE DEF h
  <2>2. k > Len(wire) - Len(buf) \/ \E i \in 1..Len(h) : h[i] = S[k].msg
    <3>1. NoneSkipped(S, Len(wire), Len(wire) - Len(buf), h)
      BY <1>1, FramedParts
    <3> QED
      BY <1>4, <1>5, <3>1 DEF NoneSkipped
  <2> QED
    BY <1>4, <2>1, <2>2
<1>7. ~(k2 < k)
  <2> SUFFICES ASSUME k2 < k PROVE FALSE
    OBVIOUS
  <2>1. \/ S[k2].msg < S[k].msg
        \/ S[k2].msg = S[k].msg /\ S[k2].shape = S[k].shape /\ S[k2].part < S[k].part
    BY <1>1, <1>4, FramedParts DEF CellsInOrder
  <2>2. S[k2].part \in Nat \ {0} /\ S[k2].msg \in Nat
    BY <1>2, <1>4, CellTypes
  <2>3. S[k2].msg = S[k].msg /\ S[k].part = 1
    BY <1>3, <1>4
  <2> QED
    BY <2>1, <2>2, <2>3
<1>8. Len(buf) \in Nat /\ Len(wire) - Len(buf) \in Nat
  BY <1>1, FramedTypes
<1> DEFINE i == k2 - (Len(wire) - Len(buf))
<1>9. i \in 1..Len(buf) /\ (Len(wire) - Len(buf)) + i = k2
  BY <1>2, <1>4, <1>6, <1>7, <1>8
<1>10. buf[i] = wire[k2]
  <2> HIDE DEF i
  <2>1. buf[i] = S[(Len(wire) - Len(buf)) + i]
    BY <1>1, <1>9, FramedParts DEF BufferIsRest
  <2> QED
    BY <1>4, <1>9, <2>1
<1>11. i \in CellsOf(m, buf)
  BY <1>4, <1>9, <1>10 DEF CellsOf
<1> QED
  BY <1>10, <1>11

(* extractFrames: no frame that arrived whole and undamaged is lost to what *)
(* came before it, be it a torn end, a damaged frame or bytes like a        *)
(* preamble.                                                                *)
THEOREM IntactFramesArrive == ClientSpec => []NoIntactFrameLost
BY IntactIsKept, ClientInvHolds, PTL
=============================================================================
