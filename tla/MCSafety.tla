------------------------------- MODULE MCSafety -------------------------------
(* The instances that have safety properties only: the data of a HAT, the   *)
(* NTRIP caster and the NTRIP client. They share nothing: a behaviour is    *)
(* one of one of them, and the others stay as they begin.                  *)
EXTENDS MCHatData, MCNtripCaster, MCNtripClient

VARIABLE part

SafetyInit ==
    /\ part \in {"data", "caster", "client"}
    /\ DataInit /\ (part # "data" => scope.name = "ntrip")
    /\ Init
    /\ ClientInit /\ (part # "client" => ~auto)

SafetyNext ==
    \/ part = "data" /\ DataNext /\ UNCHANGED <<part, vars, clientVars>>
    \/ part = "caster" /\ Next /\ UNCHANGED <<part, hatDataVars, clientVars>>
    \/ part = "client" /\ ClientNext /\ UNCHANGED <<part, hatDataVars, vars>>

SafetySpec == SafetyInit /\ [][SafetyNext]_<<part, hatDataVars, vars, clientVars>>
=============================================================================
