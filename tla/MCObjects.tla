------------------------------ MODULE MCObjects ------------------------------
(* The instances of the objects whose threads wait for each other's locks:  *)
(* the public caster, and the Python object around any object of the        *)
(* library. They share nothing: a behaviour is one of one of them, and the  *)
(* other stays as it begins.                                               *)
EXTENDS MCPublicCaster, MCPythonBinding

CONSTANTS t1, t2, h1, h2

VARIABLE part

ObjectsInit ==
    /\ part \in {"public", "python"}
    /\ PublicInit /\ (part # "public" => acceptPc = "accept")
    /\ Init /\ (part # "python" => kind = "hat")

ObjectsNext ==
    \/ part = "public" /\ PublicNext /\ UNCHANGED <<part, vars>>
    \/ part = "python" /\ Next /\ UNCHANGED <<part, publicVars>>

(* PublicFairness and Fairness: a condition of one part says nothing of a   *)
(* behaviour of the other, so one formula can hold one of each, which keeps *)
(* their number, and TLC's time, down.                                      *)
objectsVars == <<publicVars, vars>>
OfPublic(action) == part = "public" /\ action /\ UNCHANGED vars
OfPython(action) == part = "python" /\ action /\ UNCHANGED publicVars

Unblocked == SocketsShut \/ NoClients

ObjectsFairness ==
    /\ SF_objectsVars(OfPublic(HandlerStep(p1)) \/ OfPython(Native(t1) \/ Return(t1)))
    /\ SF_objectsVars(OfPublic(HandlerStep(p2)) \/ OfPython(Native(t2) \/ Return(t2)))
    /\ SF_objectsVars(OfPublic(StopStep) \/ OfPython(Handler(h1)))
    /\ SF_objectsVars(OfPython(Handler(h2)))
    /\ SF_objectsVars(OfPython(SocketsShut /\ Ends(TheWorker)))
    /\ WF_objectsVars(OfPublic(AcceptTop \/ AcceptFails) \/ OfPython(SocketsShut /\ Ends(h1)))
    /\ WF_objectsVars(OfPublic(EndCast(p1)) \/ OfPython(SocketsShut /\ Ends(h2)))
    /\ WF_objectsVars(OfPublic(EndCast(p2)) \/ OfPython(Unblocked /\ Sent(t1)))
    /\ WF_objectsVars(OfPublic(EndCast(App)) \/ OfPython(Unblocked /\ Sent(t2)))
    /\ WF_objectsVars(OfPython(NoClients /\ Relayed(h1)))
    /\ WF_objectsVars(OfPython(NoClients /\ Relayed(h2)))

ObjectsSpec == ObjectsInit /\ [][ObjectsNext]_<<part, objectsVars>> /\ ObjectsFairness
=============================================================================
