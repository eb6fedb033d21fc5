---------------------------- MODULE MCCorrections ----------------------------
(* The instances on the way of the RTK corrections: the store of a base or  *)
(* a rover, and the NTRIP server through which a base sends what it reads   *)
(* from the store. They share nothing: a behaviour is one of one of them,   *)
(* and the other stays as it begins; fairness is that of whichever it is    *)
(* (a server nobody calls has no fair action to take).                      *)
EXTENDS MCRtcm3Corrections, MCNtripServer

VARIABLE part

CorrectionsInit ==
    /\ part \in {"store", "server"}
    /\ Init /\ (part # "store" => mode = "base")
    /\ ServerInit /\ (part # "server" => ~auto)

CorrectionsNext ==
    \/ part = "store" /\ Next /\ UNCHANGED <<part, serverStateVars>>
    \/ part = "server" /\ ServerNext /\ UNCHANGED <<part, vars>>

CorrectionsSpec ==
    /\ CorrectionsInit /\ [][CorrectionsNext]_<<part, vars, serverStateVars>>
    /\ WF_vars(part = "store" /\ UartStep) /\ WF_vars(part = "store" /\ CallStep)
    /\ ServerFairness
=============================================================================
