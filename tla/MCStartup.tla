------------------------------ MODULE MCStartup ------------------------------
(* Instances of Startup: the strategies of the library, and a short plan    *)
(* with every kind of step for two faults.                                  *)
EXTENDS Startup, TLC

SpiHat(plan, save, budget) ==
    [plan |-> plan, probed |-> <<"port1", "port2">>, flushes |-> FALSE, save |-> save,
     faults |-> budget]
UartHat(plan, save, budget) ==
    [plan |-> plan, probed |-> <<"port1">>, flushes |-> TRUE, save |-> save,
     faults |-> budget]

ShortPlan == <<
    Port({"spi"}), Configure({"useFence", "fenceArea"}), Do("save"), Do("startGnss"),
    Do("monVer"), Do("dontSave"), Configure({"tmode"}), Do("save") >>

KeysOf(plan) == UNION {plan[i].keys : i \in 1..Len(plan)}
MCKeys == KeysOf(F9PPlan("base")) \cup KeysOf(F9PPlan("rover")) \cup KeysOf(F10TPlan)

MCHats == {SpiHat(F9PPlan("base"), TRUE, 1), SpiHat(F9PPlan("rover"), FALSE, 0),
           SpiHat(ShortPlan, TRUE, 2), UartHat(F10TPlan, TRUE, 1)}

(* Right but for the port; right but for a group of either half of the plan.*)
MCStartRams == {MCKeys \ {"spi", "uart1"}, MCKeys \ {"fenceArea", "tmode"}}
=============================================================================
