----------------------------- MODULE StartupPlans -----------------------------
(***************************************************************************)
(* What the startup strategies do, step by step. A configure() call names  *)
(* the groups of configuration keys it polls and writes together.          *)
(***************************************************************************)
EXTENDS Sequences

Configure(keys) == [kind |-> "configure", keys |-> keys]
Port(keys)      == [kind |-> "port", keys |-> keys]
Do(kind)        == [kind |-> kind, keys |-> {}]

M9NPlan == <<
    Port({"spi"}), Configure({"spiInProt"}), Configure({"spiOutProt"}),
    Configure({"txReady"}), Configure({"dynModel"}), Configure({"navFilter"}),
    Configure({"geofence"}), Configure({"useFence", "fenceArea"}), Configure({"rate"}),
    Configure({"timepulse"}), Configure({"msgout"}),
    Do("save"), Do("startGnss"), Do("monVer") >>

(* role: "base", "rover" or "plain", from config.rtk *)
F9PPlan(role) ==
    M9NPlan \o
    << Do("dontSave"), Configure({"l5"}), Configure({"spiProtF9P"}), Configure({"monSys"}),
       Configure({"uart2"}), Configure({"tmode"}) >> \o
    (CASE role = "base"  -> << Configure({"uart2ProtOut"}), Configure({"rtcm3Msg"}) >>
       [] role = "rover" -> << Configure({"uart2ProtIn"}) >>
       [] role = "plain" -> << >>) \o
    << Do("save") >>

F10TPlan == <<
    Do("dontSave"), Port({"uart1"}), Configure({"uart1OutProt"}), Configure({"l5"}),
    Configure({"navFilter"}), Configure({"msgCfg"}), Configure({"tmode"}),
    Do("save"), Do("monVer") >>
=============================================================================
