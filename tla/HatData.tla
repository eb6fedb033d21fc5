------------------------------- MODULE HatData -------------------------------
(***************************************************************************)
(* The data of a HAT over its life: an application in Python, C or C++     *)
(* asks for a configuration, start() writes it group by group into the     *)
(* receiver's registers and may fail anywhere, the receiver is reset to    *)
(* what its flash holds, the next start() asks for something else; in      *)
(* between the receiver's messages are parsed, stored and shown. What the  *)
(* conversions do is GnssConfiguration and NavigationData; how one group   *)
(* gets through a bad link is Startup.                                     *)
(*                                                                         *)
(* The base station tool is an application too, whose user says in a file  *)
(* or on the command line what is meant; and a list that an application    *)
(* asks for, or hands over, is Handover.                                   *)
(*                                                                         *)
(* External: the receiver's registers and messages, and the application,   *)
(* which says what it means in the form its language has for it. start()   *)
(* is not called on a running HAT.                                         *)
(***************************************************************************)
EXTENDS RtkBaseTool, NavigationData, NtripStatistics

CONSTANT Histories     \* name -> [hat, requests, messages, calls, starts, faults, told]
                       \* with bounds on the starts, the faults, and the messages and calls

Tools == {"file", "options"}     \* the ways to tell gnsshat-rtk-base
Languages == {"python", "c", "cpp"} \cup Tools

VARIABLES
    scope,       \* the history's name and what it may still contain
    ram, flash,  \* the receiver's registers; Absent: as the receiver was made
    status,      \* "new", "starting", "running", "refused", "failed", "thrown"
    cfg,         \* config_
    at,          \* step of the startup plan
    save,        \* shouldSaveConfigToFlash_
    objects,     \* messages of the parser's UbxFactory
    store,       \* navigationStore_
    intended,       \* history: what the application meant in the last start()
    before,      \* history: ram when the last start() began
    inForce,     \* history: intended, since a start() succeeded and until a reset
    clean,       \* history: the last start() began with ram as in flash
    kept,        \* history: intended and before, of a saving start() that had reason to save
    told,        \* history: the last message of each kind that says something
    handed       \* history: the last list handed over: the call, what came of it, and
                 \* what the HAT was

startVars == <<status, cfg, at, save>>
history == <<intended, before, inForce, clean, kept>>
hatDataVars == <<scope, ram, flash, startVars, objects, store, history, told, handed>>

History == Histories[scope.name]
Hat == History.hat
Registers == FixedGroups \cup Range(FilterNames) \cup Range(UseFence \o FenceLat \o FenceLon \o FenceRad)
             \cup Range(EcefKeys \o EcefHpKeys \o LlaKeys \o LlaHpKeys)
             \cup {"rateMeas", "tpEna", "tpPol", "freq", "freqLock", "duty", "dutyLock", "dynModel",
                   "confLvl", "usePio", "pinPol", "pin", "tmode", "svinMinDur", "svinAccLimit",
                   "posType", "fixedPosAcc", "timTm2"}

-----------------------------------------------------------------------------
(* The application says what it means: a dictionary in Python, a structure *)
(* that jp_gnss_gnss_config_init prepared in C. Both leave out what is not *)
(* asked for.                                                              *)

BaseDict(b) ==
    IF b.mode = "survey"
    THEN [base_mode |-> "survey_in",
          survey_in |-> [minimum_observation_time_s |-> b.time,
                         required_position_accuracy_m |-> b.accuracy]]
    ELSE [base_mode |-> "fixed_position",
          fixed_position |->
              [position_type |-> b.type, position_accuracy_m |-> b.accuracy]
              @@ (b.type :> [x |-> b.position[1], y |-> b.position[2], z |-> b.position[3]])]

Maybe(name, value) == IF value = Absent THEN << >> ELSE name :> value

AsDict(c) ==
    [measurement_rate_hz |-> c.rate, dynamic_model |-> c.model, save_to_flash |-> c.save,
     timepulse_pin_config |->
         [active |-> c.pulse.active, polarity |-> c.pulse.polarity, fixed_pulse |-> c.pulse.fixed]
         @@ Maybe("pulse_when_no_fix", c.pulse.no_fix)]
    @@ (IF c.geofencing = Absent THEN << >>
        ELSE "geofencing" :> ([confidence_level |-> c.geofencing.level,
                               geofences |-> c.geofencing.fences]
                              @@ Maybe("pin_polarity", c.geofencing.polarity)))
    @@ (IF c.rtk = Absent THEN << >>
        ELSE "rtk" :> ([mode |-> c.rtk.mode]
                       @@ (IF c.rtk.base = Absent THEN << >> ELSE "base" :> BaseDict(c.rtk.base))))
    @@ (IF c.timing = Absent THEN << >>
        ELSE "timing" :> ([enable_time_mark |-> c.timing.mark]
                          @@ (IF c.timing.base = Absent THEN << >>
                              ELSE "time_base" :> BaseDict(c.timing.base))))
    @@ Maybe("navigation_filters", c.filters)

BaseStruct(b) ==
    LET zero == PopulateBase([base_mode |-> "survey_in"])
    IN  IF b.mode = "survey"
        THEN [zero EXCEPT !.survey_in = [time |-> b.time, accuracy |-> b.accuracy]]
        ELSE [zero EXCEPT !.base_mode = "fixed_position",
                          !.fixed_position = [position_type |-> b.type, position |-> b.position,
                                              accuracy |-> b.accuracy]]

AsStruct(c) ==
    LET Base(b) == IF b = Absent THEN Absent ELSE BaseStruct(b)
        fenced  == [confidence_level |-> c.geofencing.level,
                    pin_polarity |-> c.geofencing.polarity, geofences |-> << >>]
    IN  [InitConfig EXCEPT
            !.measurement_rate_hz = c.rate, !.dynamic_model = c.model, !.save = c.save,
            !.timepulse = c.pulse, !.filters = c.filters,
            !.geofencing = IF c.geofencing = Absent THEN Absent
                           ELSE FoldLeft(AddGeofence, fenced, c.geofencing.fences),
            !.rtk = IF c.rtk = Absent THEN Absent ELSE [mode |-> c.rtk.mode, base |-> Base(c.rtk.base)],
            !.timing = IF c.timing = Absent THEN Absent
                       ELSE [enable_time_mark |-> c.timing.mark, time_base |-> Base(c.timing.base)]]

(* The tool's user, who wants a base: in the file, or in a file that says   *)
(* something else about the base and on the command line.                  *)
FileBase(b) ==
    IF b.mode = "survey"
    THEN [mode |-> "survey_in",
          survey_in |-> [min_observation_time_s |-> b.time, required_accuracy_m |-> b.accuracy]]
    ELSE LET Of(keys) == [k \in Range(keys) |-> b.position[CHOOSE i \in 1..3 : keys[i] = k]]
         IN  [mode |-> "fixed",
              fixed_position |->
                  [type |-> b.type, accuracy_m |-> b.accuracy]
                  @@ Of(IF b.type = "lla" THEN <<"latitude_deg", "longitude_deg", "height_m">>
                                          ELSE <<"x_m", "y_m", "z_m">>)]

OtherBase(b) ==
    IF b.mode = "survey" THEN [FileBase(b) EXCEPT !.mode = "fixed"]
    ELSE [mode |-> "survey_in",
          fixed_position |-> [type |-> IF b.type = "lla" THEN "ecef" ELSE "lla", accuracy_m |-> 1]]

AsFile(c, base) ==
    [measurement_rate_hz |-> c.rate, dynamic_model |-> ModelNames[c.model + 1], base |-> base,
     timepulse |-> [active |-> c.pulse.active, frequency_hz |-> c.pulse.fixed.frequency,
                    duty_cycle |-> c.pulse.fixed.pulse_width,
                    polarity |-> IF c.pulse.polarity = 0 THEN "falling" ELSE "rising"]]

Option(name, value) == [name |-> name, value |-> value]

BaseOptions(b) ==
    IF b.mode = "survey" THEN << Option("--survey-in", "") >>
    ELSE << Option(IF b.type = "lla" THEN "--fixed-lla" ELSE "--fixed-ecef", b.position),
            Option("--accuracy", b.accuracy) >>

ForTool(c) ==
    /\ Hat = "F9P" /\ c.rtk # Absent /\ c.rtk.mode = "base" /\ c.rtk.base # Absent
    /\ c.geofencing = Absent /\ c.filters = Absent /\ c.timing = Absent /\ ~c.save /\ c.pulse.no_fix = Absent

ToolCommand(language, request) ==
    IF request.means = Absent THEN request.tool
    ELSE IF language = "file"
    THEN [file |-> AsFile(request.means, FileBase(request.means.rtk.base)), options |-> << >>]
    ELSE [file |-> AsFile(request.means, OtherBase(request.means.rtk.base)),
          options |-> BaseOptions(request.means.rtk.base)]

Speaks(language, request) ==
    /\ request.dict # Absent => language = "python"
    /\ request.tool # Absent => language \in Tools
    /\ language \in Tools /\ request.tool = Absent => ForTool(request.means)

ToolSettings(language, request) ==
    LET command == ToolCommand(language, request) IN ToolConfig(command.file, command.options)

(* What start() of GnssHat gets, Absent when the binding refuses. A request  *)
(* is what the application means, or a dictionary or a command line that   *)
(* means nothing.                                                          *)
Given2Hat(language, request) ==
    LET Converted(d) == IF ValidateConfig(d) THEN ConvertGnssConfig(PopulateConfig(d)) ELSE Absent
    IN  CASE language \in Tools ->
                 LET settings == ToolSettings(language, request)
                 IN  IF settings = Absent THEN Absent ELSE BuildGnssConfig(settings)
          [] language = "python" ->
                 Converted(IF request.means = Absent THEN request.dict ELSE AsDict(request.means))
          [] language = "c"   -> ConvertGnssConfig(AsStruct(request.means))
          [] language = "cpp" -> request.means

-----------------------------------------------------------------------------
(* start()                                                                 *)

Idle == status \notin {"starting", "running"}

(* The tool resets the receiver first, unless told not to. *)
ResetFirst(language, request) ==
    /\ language \in Tools
    /\ LET settings == ToolSettings(language, request)
       IN  settings # Absent /\ settings.reset # "none"

(* GnssHat::start: nothing changes when the configuration is refused; a new *)
(* registry, parser and strategies otherwise.                              *)
Start(language, request) ==
    /\ Idle /\ scope.starts > 0 /\ Speaks(language, request)
    /\ scope' = [scope EXCEPT !.starts = @ - 1]
    /\ intended' = request.means
    /\ ram' = IF ResetFirst(language, request) THEN flash ELSE ram
    /\ \E c \in {Given2Hat(language, request)} :
           IF c = Absent \/ ~ValidForHat(Hat, c)
           THEN /\ status' = "refused"
                /\ inForce' = IF ram' = ram THEN inForce ELSE Absent
                /\ UNCHANGED <<cfg, at, save, objects, before, clean, kept>>
           ELSE /\ status' = "starting" /\ cfg' = c /\ at' = 1 /\ save' = FALSE
                /\ objects' = FreshObjects
                /\ before' = ram' /\ clean' = (ram' = flash)
                /\ inForce' = Absent
                /\ kept' = IF c.save THEN Absent ELSE kept
    /\ UNCHANGED <<flash, store, told, handed>>

Steps == Plan(Hat, cfg)
Keys == IF Steps[at].kind \in {"configure", "port"} THEN StepKeys(Hat, cfg, Steps[at].keys)
        ELSE << >>

Advance == at' = at + 1 /\ UNCHANGED <<status, cfg>>
EndsAs(outcome) == status' = outcome /\ UNCHANGED <<at, cfg>>

(* One configure(): poll the keys, write those that differ, poll again. An *)
(* answer that cannot be cut right has no value for some key: after three  *)
(* attempts start() fails. An unknown key throws out of start().           *)
Configure2Registers ==
    /\ status = "starting" /\ at <= Len(Steps) /\ Keys # << >>
    /\ \E parsed \in {ParseAsResponse(Answer(Keys))}, expected \in {ExpectedValues(Hat, cfg)} :
           LET differ == {k \in Range(Keys) : k \notin parsed \/ ram[k] # expected[k]}
           IN  IF parsed = Garbage \/ ~Range(Keys) \subseteq DOMAIN expected
               THEN /\ EndsAs(IF parsed = Garbage THEN "thrown" ELSE "failed")
                    /\ UNCHANGED <<ram, save>>
               ELSE /\ ram' = [k \in Registers |-> IF k \in differ THEN expected[k] ELSE ram[k]]
                    /\ save' = (save \/ differ # {})
                    /\ IF Range(Keys) \subseteq parsed THEN Advance ELSE EndsAs("failed")
    /\ UNCHANGED <<scope, flash, objects, store, history, told, handed>>

(* A group the receiver does not take or confirm: the write may have taken *)
(* effect or not.                                                          *)
ConfigureFails ==
    /\ status = "starting" /\ at <= Len(Steps) /\ Keys # << >> /\ scope.faults > 0
    /\ scope' = [scope EXCEPT !.faults = @ - 1]
    /\ \E expected \in {ExpectedValues(Hat, cfg)} :
           \/ ram' = ram
           \/ /\ Range(Keys) \subseteq DOMAIN expected \ Unsized
              /\ ram' = [k \in Registers |-> IF k \in Range(Keys) THEN expected[k] ELSE ram[k]]
    /\ EndsAs("failed")
    /\ UNCHANGED <<flash, save, objects, store, history, told, handed>>

(* The steps between: CFG-CFG copies all registers to flash when asked to  *)
(* and something was written.                                              *)
SaveCurrentConfigToFlash ==
    /\ status = "starting" /\ at <= Len(Steps) /\ Keys = << >>
    /\ flash' = IF Steps[at].kind = "save" /\ cfg.save /\ save THEN ram ELSE flash
    /\ save' = IF Steps[at].kind = "dontSave" THEN FALSE ELSE save
    /\ Advance
    /\ UNCHANGED <<scope, ram, objects, store, history, told, handed>>

SaveFails ==
    /\ status = "starting" /\ at <= Len(Steps) /\ scope.faults > 0
    /\ Steps[at].kind = "save" /\ cfg.save /\ save
    /\ scope' = [scope EXCEPT !.faults = @ - 1]
    /\ flash' \in {flash, ram}
    /\ EndsAs("failed")
    /\ UNCHANGED <<ram, save, objects, store, history, told, handed>>

GeofencingCfg(g) ==
    IF g = Absent THEN NoGeofencing
    ELSE [level |-> g.level, enabled |-> g.polarity # Absent, pin |-> PinNumber,
          polarity |-> IF g.polarity = Absent THEN 0 ELSE g.polarity, fences |-> g.fences]

(* Startup is done: the geofencing configuration is stored, the thread runs. *)
Started ==
    /\ status = "starting" /\ at > Len(Steps)
    /\ EndsAs("running")
    /\ store' = Store(store, "cfg", GeofencingCfg(cfg.geofencing))
    /\ inForce' = intended
    /\ kept' = IF cfg.save /\ (clean \/ save) THEN [means |-> intended, before |-> before] ELSE kept
    /\ UNCHANGED <<scope, ram, flash, save, objects, intended, before, clean, told, handed>>

(* hardResetUbloxSom_ColdStart(), softResetUbloxSom_HotStart() or a power  *)
(* cut: the receiver boots from flash.                                     *)
Reset ==
    /\ status # "starting" /\ ram # flash
    /\ ram' = flash
    /\ inForce' = Absent
    /\ UNCHANGED <<scope, flash, startVars, objects, store, intended, before, clean, kept, told, handed>>

(* The HAT is destroyed and created again.                                 *)
Recreate ==
    /\ status # "starting" /\ scope.starts > 0
    /\ status' = "new"
    /\ store' = FreshStore
    /\ objects' = FreshObjects
    /\ told' = [k \in MessageKinds |-> Absent]
    /\ UNCHANGED <<scope, ram, flash, cfg, at, save, history, handed>>

-----------------------------------------------------------------------------
(* A frame is parsed: its object is deserialized, its callback stores it.  *)

SaysSomething(m) == ~(m.kind \in {"sys", "ver"} /\ m.short)

ReceiveMessage(m) ==
    /\ status \in {"starting", "running"} /\ scope.told > 0
    /\ scope' = [scope EXCEPT !.told = @ - 1]
    /\ objects' = [objects EXCEPT ![m.kind] = Deserialize(@, m)]
    /\ store' = Store(store, m.kind, objects'[m.kind])
    /\ told' = IF SaysSomething(m) THEN [told EXCEPT ![m.kind] = m] ELSE told
    /\ UNCHANGED <<ram, flash, startVars, history, handed>>

(* A list is handed over: what the library holds for it, or the list, is    *)
(* call.items, and its call.fails-th allocation fails. There are            *)
(* corrections in a running base, and a rover takes some.                  *)
Rtk(mode) == status = "running" /\ cfg.rtk # Absent /\ cfg.rtk.mode = mode

Outcome(call) ==
    LET store2 == IF Rtk("base") THEN call.items ELSE << >>
    IN  CASE call.name = "full" -> RtkGetFullCorrections(store2, call.fails)
          [] call.name = "tiny" -> RtkGetTinyCorrections(store2, call.fails)
          [] call.name = "frame" -> RtkGetRtcm3Frame(store2, call.id, call.fails)
          [] call.name = "receive" -> Receive2List(call.items, call.fails)
          [] call.name = "apply" -> RtkApplyCorrections(call.items, call.fails, Rtk("rover"))
          [] call.name = "caster" -> CasterFeed(call.items, call.fails)
          [] call.name = "server" -> ServerFeed(call.items, call.fails)
          [] call.name = "table" -> SourcetableInPython(call.items, call.step, call.fails)
          [] call.name = "stats" -> GetStatsInPython(call.items, call.fails)

Hand(call) ==
    /\ status \in {"new", "running"} /\ scope.told > 0
    /\ scope' = [scope EXCEPT !.told = @ - 1]
    /\ handed' = [call |-> call, outcome |-> Outcome(call),
                  hat |-> IF Rtk("base") THEN "base" ELSE IF Rtk("rover") THEN "rover" ELSE "none"]
    /\ UNCHANGED <<ram, flash, startVars, objects, store, history, told>>

(* The histories end when their bounds are used up. *)
HistoryEnds ==
    /\ (Idle \/ (status = "running" /\ scope.told = 0))
    /\ scope.starts = 0 /\ ram = flash
    /\ UNCHANGED hatDataVars

DataInit ==
    /\ \E name \in DOMAIN Histories :
           scope = [name |-> name, starts |-> Histories[name].starts,
                    faults |-> Histories[name].faults, told |-> Histories[name].told]
    /\ ram = [k \in Registers |-> Absent] /\ flash = ram
    /\ status = "new" /\ cfg = Absent /\ at = 0 /\ save = FALSE
    /\ objects = FreshObjects /\ store = FreshStore
    /\ intended = Absent /\ before = ram /\ inForce = Absent /\ clean = TRUE /\ kept = Absent
    /\ told = [k \in MessageKinds |-> Absent] /\ handed = Absent

DataNext ==
    \/ \E language \in Languages, request \in History.requests : Start(language, request)
    \/ Configure2Registers \/ ConfigureFails \/ SaveCurrentConfigToFlash \/ SaveFails \/ Started
    \/ Reset \/ Recreate
    \/ \E m \in History.messages : ReceiveMessage(m)
    \/ \E call \in History.calls : Hand(call)
    \/ HistoryEnds

DataSpec == DataInit /\ [][DataNext]_hatDataVars
-----------------------------------------------------------------------------
(* Settings                                                                *)

Byte(n) == IF n < 0 THEN n + 256 ELSE n

FiltersInForce(regs, filters, earlier) ==
    \A f \in Range(FilterNames) :
        IF filters # Absent /\ f \in DOMAIN filters THEN regs[f] = Byte(filters[f])
                                                  ELSE regs[f] = earlier[f]

PulseInForce(regs, pulse) ==
    IF ~pulse.active THEN regs["tpEna"] = 0
    ELSE /\ regs["tpEna"] = 1 /\ regs["tpPol"] = pulse.polarity
         /\ regs["freqLock"] = pulse.fixed.frequency
         /\ regs["dutyLock"] = pulse.fixed.pulse_width
         /\ IF pulse.no_fix = Absent THEN regs["duty"] = 0
            ELSE regs["freq"] = pulse.no_fix.frequency /\ regs["duty"] = pulse.no_fix.pulse_width

FencesInForce(regs, geofencing) ==
    {<<regs[FenceLat[i]], regs[FenceLon[i]], regs[FenceRad[i]]>> :
        i \in {j \in 1..MaxGeofences : regs[UseFence[j]] = 1}}
    = IF geofencing = Absent THEN {}
      ELSE {<<f.lat, f.lon, f.radius>> : f \in Range(geofencing.fences)}

LevelInForce(regs, geofencing) == geofencing # Absent => regs["confLvl"] = geofencing.level

PinInForce(regs, geofencing) ==
    IF geofencing = Absent \/ geofencing.polarity = Absent THEN regs["usePio"] = 0
    ELSE regs["usePio"] = 1 /\ regs["pinPol"] = geofencing.polarity

PositionInForce(regs, coarse, fine, position) ==
    \A i \in 1..3 : 100 * regs[coarse[i]] + regs[fine[i]] = position[i]

BaseInForce(regs, base) ==
    IF base = Absent THEN regs["tmode"] = 0
    ELSE IF base.mode = "survey"
    THEN regs["tmode"] = 1 /\ regs["svinMinDur"] = base.time /\ regs["svinAccLimit"] = base.accuracy
    ELSE /\ regs["tmode"] = 2 /\ regs["fixedPosAcc"] = base.accuracy
         /\ IF base.type = "ecef"
            THEN regs["posType"] = 0 /\ PositionInForce(regs, EcefKeys, EcefHpKeys, base.position)
            ELSE regs["posType"] = 1 /\ PositionInForce(regs, LlaKeys, LlaHpKeys, base.position)

BasicsInForce(regs, means) ==
    /\ regs["rateMeas"] = 1000 \div means.rate /\ regs["dynModel"] = means.model
    /\ PulseInForce(regs, means.pulse)

Basics == {"rateMeas", "dynModel", "tpEna", "tpPol", "freq", "freqLock", "duty", "dutyLock"}

(* start() of an F10T has rate, dynamic model and time pulse checked and    *)
(* writes none of them.                                                    *)
InForce(regs, means, earlier) ==
    /\ FiltersInForce(regs, means.filters, earlier)
    /\ Hat = "F10T" =>
           /\ regs["timTm2"] = IF means.timing # Absent /\ means.timing.mark THEN 1 ELSE 0
           /\ BaseInForce(regs, IF means.timing = Absent THEN Absent ELSE means.timing.base)
           /\ \A k \in Basics : regs[k] = earlier[k]
    /\ Hat # "F10T" =>
           /\ BasicsInForce(regs, means)
           /\ FencesInForce(regs, means.geofencing) /\ PinInForce(regs, means.geofencing)
           /\ LevelInForce(regs, means.geofencing)
    /\ Hat = "F9P" =>
           BaseInForce(regs, IF means.rtk # Absent /\ means.rtk.mode = "base" THEN means.rtk.base
                             ELSE Absent)

(* After a start() that succeeded the receiver does exactly what the        *)
(* application meant, in whatever language it said it and whatever earlier  *)
(* starts, complete or not, left in the registers: no fence, time pulse,    *)
(* base or rate of theirs survives, and a filter that is not asked for      *)
(* keeps its value. But for an F10T's rate, dynamic model and time pulse,   *)
(* which stay as they were, whatever was meant.                            *)
InForceAsAsked == inForce # Absent => InForce(ram, inForce, before)

(* README.md lists rate, dynamic model and time pulse among the fields of   *)
(* GnssConfig, for every HAT: after a start() that succeeded they are in    *)
(* force. On an F10T they are not.                                          *)
BasicsAsAsked == inForce # Absent => BasicsInForce(ram, inForce)

(* With saveToFlash the settings also survive every later reset, until      *)
(* another saving start(): if the registers were as in the flash, or if     *)
(* start() had anything to write. (It saves nothing when an earlier start() *)
(* that did not save has left everything as it is meant.)                   *)
SavedSurvives == kept # Absent => InForce(flash, kept.means, kept.before)

(* Both: what the application meant is what the receiver does, now and      *)
(* after it has lost its registers.                                        *)
SettingsAsAsked == InForceAsAsked /\ SavedSurvives

-----------------------------------------------------------------------------
(* Refusals                                                                *)

GoodBase(b) ==
    /\ b.accuracy >= 1 /\ (b.mode = "survey" => b.time >= 1)
    /\ b.mode = "fixed" /\ b.type = "lla" =>
           /\ -90 * Degree <= b.position[1] /\ b.position[1] <= 90 * Degree
           /\ -180 * Degree <= b.position[2] /\ b.position[2] <= 180 * Degree

GoodFence(f) ==
    /\ f.radius >= 1 /\ -90 * Degree <= f.lat /\ f.lat <= 90 * Degree
    /\ -180 * Degree <= f.lon /\ f.lon <= 180 * Degree

GoodFilter(f, n) ==
    CASE f \in {"min_svs", "max_svs"} -> 3 <= n /\ n <= 32
      [] f \in {"min_cno_dbhz", "cno_thrs_dbhz"} -> n <= 63
      [] f = "min_elev_deg" -> -90 <= n /\ n <= 90
      [] f = "fix_mode" -> 1 <= n /\ n <= 3
      [] f \in {"pdop_mask_x10", "tdop_mask_x10"} -> n <= 9999
      [] OTHER -> TRUE

(* What the product can do, as the headers document it.                    *)
Acceptable(c) ==
    /\ 1 <= c.rate /\ c.rate <= 25
    /\ c.pulse.active => /\ c.pulse.fixed.pulse_width < 100
                         /\ c.pulse.no_fix # Absent => c.pulse.no_fix.pulse_width < 100
    /\ c.filters # Absent =>
           /\ \A f \in DOMAIN c.filters : GoodFilter(f, c.filters[f])
           /\ {"min_svs", "max_svs"} \subseteq DOMAIN c.filters =>
                  c.filters["min_svs"] <= c.filters["max_svs"]
    /\ c.geofencing # Absent =>
           /\ Hat # "F10T" /\ c.geofencing.level <= 5
           /\ 1 <= Len(c.geofencing.fences) /\ Len(c.geofencing.fences) <= 4
           /\ \A i \in DOMAIN c.geofencing.fences : GoodFence(c.geofencing.fences[i])
    /\ c.rtk # Absent => Hat # "F10T"
    /\ c.timing # Absent =>
           /\ Hat = "F10T"
           /\ c.timing.mark \/ c.timing.base # Absent
           /\ c.timing.base # Absent => GoodBase(c.timing.base)

(* GnssHat.h offers a fix mode and four solution-output masks among the     *)
(* navigation filters and gives the range of each: a start() that has       *)
(* accepted a configuration returns, true or false. With one of those five  *)
(* it throws: the answer to their poll cannot be cut.                       *)
AcceptedNeverThrows == status # "thrown"

AsksUnsized(c) == c.filters # Absent /\ DOMAIN c.filters \cap Unsized # {}

(* The same configuration has the same fate in every language: what is out  *)
(* of range or makes no sense is refused before the receiver hears of it,   *)
(* and what is in range starts, on a link without faults. A configuration   *)
(* that asks for a filter of AcceptedNeverThrows never starts; no other     *)
(* makes start() throw.                                                     *)
RefusedExactlyWhenWrong ==
    /\ status = "refused" <=> (status # "new" /\ (intended = Absent \/ ~Acceptable(intended)))
    /\ status = "thrown" => AsksUnsized(intended)
    /\ status = "running" => ~AsksUnsized(intended)
    /\ status = "failed" => scope.faults < History.faults

-----------------------------------------------------------------------------
(* Messages                                                                *)

Bool(b) == IF b THEN "True" ELSE "False"

SatellitesShown(blocks, nav) ==
    /\ Len(nav) = IF Len(blocks) > 64 THEN 64 ELSE Len(blocks)
    /\ \A i \in DOMAIN nav :
           /\ <<nav[i].gnss, nav[i].sv, nav[i].cno, nav[i].v>>
              = <<blocks[i].gnss, blocks[i].sv, blocks[i].cno, blocks[i].v>>
           /\ nav[i].used = Bool(blocks[i].used)
           /\ nav[i].healthy = Bool(blocks[i].health = 1)

(* While geofencing is not active no fence has a state. Of the blocks that  *)
(* are claimed those that are there are shown as they are.                 *)
AsTold(shown, m) ==
    /\ Len(shown) = m.claimed
    /\ Take(shown, Len(m.blocks)) = Take(m.blocks, m.claimed)

StatesShown(m, nav) ==
    /\ nav.status = m.status /\ nav.v = m.v
    /\ IF m.status = "Active" THEN AsTold(nav.states, m) ELSE nav.states = << >>

BlocksShown(m, shown) ==
    /\ Len(shown) = Min({m.claimed, 2})
    /\ \A i \in DOMAIN shown : i <= Len(m.blocks) => shown[i].v = m.blocks[i].v

VersionShown(m, ver) ==
    ver.valid = 1 =>
        /\ ver.sw = m.sw /\ ver.hw = m.hw
        /\ ver.extensions = Take(SelectSeq(m.extensions, LAMBDA e : e # ""), 16)

(* Recombined, the fields of a time mark are its flags.                    *)
TimeMarkShown(m, tm) ==
    LET Flag(f) == IF tm[f] = "True" THEN 1 ELSE 0
    IN  /\ tm.v = m.v
        /\ m.flags = tm.mode + 2 * tm.run + 4 * Flag("new_falling_edge") + 8 * tm.time_base
                     + 32 * Flag("utc_available") + 64 * Flag("time_valid")
                     + 128 * Flag("new_rising_edge")

TalkerOf(gnss) ==
    IF gnss \in {"GPS", "SBAS"} THEN "GP"
    ELSE CHOOSE t \in {"GL", "GA", "GB", "GQ"} : TalkerId(gnss) = t

(* gpsd is told every satellite but IMES's, once and in the order of the    *)
(* frame, in numbered sentences of at most four.                            *)
GpsdHears(blocks, gsv) ==
    \A talker \in {"GP", "GL", "GA", "GB", "GQ"} :
        LET mine == SelectSeq(blocks, LAMBDA b : b.gnss # "IMES" /\ TalkerOf(b.gnss) = talker)
            said == SelectSeq(gsv, LAMBDA s : s.talker = talker)
        IN  /\ FlattenSeq([i \in DOMAIN said |-> [j \in DOMAIN said[i].sats |-> said[i].sats[j].v]])
               = [i \in DOMAIN mine |-> mine[i].v]
            /\ \A i \in DOMAIN said :
                   /\ said[i].number = i /\ said[i].total = Len(said)
                   /\ said[i].inView = Len(mine) /\ Len(said[i].sats) \in 1..4

(* The satellites in use, twelve of each system at most.                   *)
GpsdHearsUse(blocks, gsa) ==
    LET used(sys) == SelectSeq(blocks, LAMBDA b : b.used /\ b.gnss # "IMES" /\ SystemId(b.gnss) = sys)
    IN  \A sys \in Systems :
            LET said == SelectSeq(gsa, LAMBDA s : s.system = sys /\ s.prns # << >>)
            IN  /\ Len(said) = IF used(sys) = << >> THEN 0 ELSE 1
                /\ said # << >> => Len(said[1].prns) = Len(Take(used(sys), 12))

(* What the application and gpsd are shown is what the receiver told last:  *)
(* nothing of an earlier frame shines through, whichever kind followed,     *)
(* however short it was, and however often the HAT was started. A frame's   *)
(* count is believed: where it claims more fences or RF blocks than it      *)
(* brings, so many are shown, and only those it brings are what was told.   *)
(* Satellites that are not there are not shown.                            *)
ShownIsTold ==
    LET nav == ConvertNavigationToPython(ConvertNavigation(store))
        health == SystemHealthInPython(GetSystemHealth(store))
        mark == GetTimeMark(store)
        Told(k) == told[k] # Absent
        satellites == Take(told["sat"].blocks, told["sat"].claimed)
    IN  /\ Told("sat") => /\ SatellitesShown(satellites, nav.sat)
                          /\ GpsdHears(satellites, Nmea(store).gsv)
                          /\ GpsdHearsUse(satellites, Nmea(store).gsa)
        /\ Told("geofence") => StatesShown(told["geofence"], nav.geofence)
        /\ Told("rf") => BlocksShown(told["rf"], nav.rf)
        /\ Told("span") => BlocksShown(told["span"], nav.span)
        /\ health.valid = 1 => Told("sys") /\ health.v = told["sys"].v
        /\ MonVerInPython(GetMonVer(store)).valid = 1 =>
               Told("ver") /\ VersionShown(told["ver"], MonVerInPython(GetMonVer(store)))
        /\ (mark # Unset) = Told("tm2")
        /\ Told("tm2") => TimeMarkShown(told["tm2"], ConvertTimeMarkToPython(mark))
        /\ Told("pvt") => /\ nav.pvt.v = told["pvt"].v
                          /\ Nmea(store).rmc.time = told["pvt"].time
                          /\ Nmea(store).zda.date = told["pvt"].date
                          /\ Nmea(store).gga.quality = FixQuality(told["pvt"].fixType, told["pvt"].flags)
        /\ Told("dop") => nav.dop = told["dop"].v /\ Nmea(store).gga.dop = told["dop"].v
        /\ status = "running" =>
               nav.cfg.fences = IF intended.geofencing = Absent THEN << >> ELSE intended.geofencing.fences

-----------------------------------------------------------------------------
(* Lists *)

Wanted(call) ==
    CASE call.name = "full" -> SelectSeq(call.items, LAMBDA f : f.id \in FullIds)
      [] call.name = "tiny" -> SelectSeq(call.items, LAMBDA f : f.id \in TinyIds)
      [] call.name = "frame" -> SelectSeq(call.items, LAMBDA f : f.id = call.id)
      [] call.name = "table" -> ParseSourcetable(call.items)
      [] call.name \in {"receive", "stats"} -> call.items
      [] OTHER -> [i \in DOMAIN call.items |-> call.items[i].frame]

(* What a caster or client has sent and received since it was last stopped. *)
SinceStop(recorded) ==
    LET stops == {i \in DOMAIN recorded : recorded[i].how = "stop"}
        last == CHOOSE i \in stops \cup {0} : \A j \in stops : j <= i
    IN  SubSeq(recorded, last + 1, Len(recorded))

(* The frames that lie whole in a read, and those that begin in it.         *)
WholeIn(read) == {i \in DOMAIN read : read[i].part = 1 /\ i + read[i].frame.len - 1 <= Len(read)}
BegunIn(read) == {i \in DOMAIN read : read[i].part = 1}

Told(recorded, id, In(_)) ==
    LET OfFrames(r) == Cardinality({i \in DOMAIN r.frames : r.frames[i].id = id /\ r.frames[i].len >= 5})
        OfRead(r) == Cardinality({i \in In(ReadOf(r)) : ReadOf(r)[i].frame.id = id})
    IN  FoldLeft(LAMBDA sum, r : sum + IF r.how = "relay" THEN OfRead(r) ELSE OfFrames(r), 0, recorded)

(* The numbers of get_stats(): what was fed is counted exactly; of what was *)
(* relayed, the frames that a read had whole, and at most those that began  *)
(* in one, unless a read starts inside a frame and the rest of it looks     *)
(* like another. Too many types leave out the largest.                      *)
Misleading(read) == read # << >> /\ read[1].part # 1 /\ \E i \in DOMAIN read : read[i].frame.shams # {}

CountsTold(recorded, dict) ==
    LET now == SinceStop(recorded)
        ids == UNION {{r.frames[i].id : i \in DOMAIN r.frames} : r \in ToSet(now)}
        length(r) == IF r.how = "relay" THEN Len(ReadOf(r))
                     ELSE IF r.how = "feed" THEN LenOf(r.frames) ELSE 0
        count(id) == IF id \in DOMAIN dict.message_types THEN dict.message_types[id] ELSE 0
    IN  /\ dict.bytes_tx = FoldLeft(LAMBDA sum, r : sum + length(r), 0, now)
        /\ dict.frames_rx = Len(SelectSeq(now, LAMBDA r : r.how = "received"))
        /\ (\A r \in ToSet(now) : r.how = "relay" => ~Misleading(ReadOf(r))) =>
            /\ \A id \in ids :
                   \/ Told(now, id, WholeIn) <= count(id) /\ count(id) <= Told(now, id, BegunIn)
                   \/ count(id) = 0 /\ Cardinality({o \in DOMAIN dict.message_types : o < id})
                                            = MaxMessageTypes
            /\ DOMAIN dict.message_types \subseteq ids

(* What receive() and fetch_sourcetable(), which have no exception for a    *)
(* failed allocation in C, make of it: nothing arrives, or all but one      *)
(* frame, in whose place something unwritten stands, or all but one text.   *)
SpoiltByOne(call, list) ==
    /\ call.fails # 0
    /\ \/ list = << >>
       \/ /\ Len(list) = Len(Wanted(call))
          /\ Cardinality({i \in DOMAIN list : list[i] # Wanted(call)[i]}) <= 1
          /\ \A i \in DOMAIN list :
                 IF call.name = "receive" THEN list[i] \in {Wanted(call)[i], Garbled}
                 ELSE \A f \in DOMAIN list[i] : list[i][f] \in {Wanted(call)[i][f], ""}

(* Whatever fails on the way of a list from one language to another,       *)
(* nothing of it stays allocated, and the list arrives whole or the caller  *)
(* gets an exception; statistics arrive as they were counted. The code has  *)
(* three exceptions to this, and they go just so far: receive() and         *)
(* fetch_sourcetable() may spoil one element of a list that is long enough; *)
(* get_stats() keeps a reference to each of the dictionary's eight numbers, *)
(* but to none of the types; and it brings the interpreter down when        *)
(* another object than the dictionary cannot be allocated.                  *)
HandedWhole ==
    handed # Absent =>
        LET call == handed.call
            outcome == handed.outcome
            whole == IF call.name = "table" /\ call.step # "" THEN << >> ELSE Wanted(call)
        IN  /\ outcome.held = IF outcome.outcome = "dict"
                              THEN {NumberRef(i) : i \in DOMAIN Numbers} ELSE {}
            /\ outcome.outcome = "list" =>
                   \/ outcome.list = whole
                   \/ call.name \in {"receive", "table"} /\ SpoiltByOne(call, outcome.list)
            /\ outcome.outcome = "dict" => CountsTold(call.items, outcome.list)
            /\ outcome.outcome = "crash" => call.name = "stats" /\ call.fails > 1
            /\ outcome.outcome = "error" =>
                   \/ call.fails # 0 \/ Wanted(call) = << >>
                   \/ call.name \in {"full", "tiny", "frame"} /\ handed.hat # "base"
                   \/ call.name = "apply" /\ handed.hat # "rover"
                   \/ \E i \in DOMAIN call.items :
                          call.name \in {"apply", "caster", "server"} /\ ~call.items[i].bytes
=============================================================================
