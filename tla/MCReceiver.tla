------------------------------ MODULE MCReceiver ------------------------------
(* The instances of a HAT and its receiver: the objects and threads of the  *)
(* HAT, start(), which configures the receiver, and the receive loops. A    *)
(* behaviour is one of one of them, and the others stay as they begin;      *)
(* fairness is that of whichever it is (a HAT nobody made has no fair       *)
(* action to take).                                                        *)
EXTENDS MCReceiveLoop, MCStartup, MCHatLifecycle

VARIABLE part

QuietStart ==
    /\ hat = UartHat(F10TPlan, TRUE, 1) /\ ram = MCKeys \ {"spi", "uart1"} /\ flash = {}
    /\ oldPort = Expected /\ ~engine /\ replies = <<>>

ReceiverInit ==
    /\ part \in {"receive", "start", "objects"}
    /\ ReceiveInit /\ (part # "receive" => link = "uart" /\ out = <<>> /\ ~epochSeen)
    /\ StartupInit /\ (part # "start" => QuietStart)
    /\ LifecycleInit /\ (part # "objects" => product = "L1")

ReceiverNext ==
    \/ part = "receive" /\ ReceiveNext /\ UNCHANGED <<part, startupVars, lifecycleVars>>
    \/ part = "start" /\ StartupNext /\ UNCHANGED <<part, allVars, lifecycleVars>>
    \/ /\ part = "objects" /\ (LifecycleNext \/ (state = "destroyed" /\ UNCHANGED lifecycleVars))
       /\ UNCHANGED <<part, allVars, startupVars>>

ReceiverSpec ==
    /\ ReceiverInit /\ [][ReceiverNext]_<<part, allVars, startupVars, lifecycleVars>>
    /\ WF_allVars(part = "receive" /\ link = "spi" /\ UbloxStep /\ UNCHANGED link)
    /\ WF_allVars(part = "receive" /\ link = "spi" /\ TxStep /\ UNCHANGED link)
    /\ WF_allVars(part = "receive" /\ link = "uart" /\ PollStep)
    /\ SF_allVars(part = "receive" /\ link = "uart" /\ \E n \in 1..BufSize : PollReads(n))
    /\ WF_startupVars(part = "start" /\ HostStep)
    /\ WF_startupVars(part = "start" /\ (Answer \/ Refuse))
    /\ LifecycleFairness

(* StartReturns, of the behaviours that are a start. *)
EveryStartReturns == []<>(part = "start" => at = "done")
=============================================================================
