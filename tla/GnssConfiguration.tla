--------------------------- MODULE GnssConfiguration ---------------------------
(***************************************************************************)
(* What becomes of a configuration on its way from the application to the  *)
(* receiver's registers: the Python dictionary is checked and copied into  *)
(* the C structure (jp_gnss_module.c), that one is converted to the C++    *)
(* GnssConfig (GnssHat_C.cpp), GnssHat::start() checks it (GnssConfig.cpp, *)
(* BaseConfig.cpp), the startup strategy turns it into register values     *)
(* (the constructors in Startup.cpp), and what the receiver answers is cut *)
(* into values again (UBX-CFG-VALGET).                                     *)
(*                                                                         *)
(* Numbers are in the registers' units: a pulse width in percent, an       *)
(* accuracy in 0.1 mm, a radius in cm, a position in the unit of the high  *)
(* precision registers, of which a degree has Degree. A register group     *)
(* that always has the same contents is one register with the value Fixed. *)
(* Optional values that are not set are Absent.                              *)
(***************************************************************************)
EXTENDS Integers, Sequences, FiniteSets, SequencesExt, StartupPlans

CONSTANTS
    Absent,    \* an absent value, Python's Absent
    Wrong,   \* a Python object of a type the field does not take
    Degree   \* units of a position per degree

ASSUME DegreeAssumption == Degree \in Nat \ {0}

Narrow(n, bits) == n % 2 ^ bits                                \* to an unsigned integer
SignedByte(n) == ((n + 128) % 256) - 128
Quotient(n, m) == IF n < 0 THEN - ((-n) \div m) ELSE n \div m  \* C's division
Remainder(n, m) == n - m * Quotient(n, m)

-----------------------------------------------------------------------------
(* Python: validate_config                                                 *)

Typed(d, f) == f \in DOMAIN d => d[f] \notin {Absent, Wrong}
TypedOrNone(d, f) == f \in DOMAIN d => d[f] # Wrong
Given(d, f) == f \in DOMAIN d /\ d[f] # Absent
Required(d, f) == f \in DOMAIN d /\ Typed(d, f)
AllTyped(d, fields) == \A f \in fields : Typed(d, f)

FilterNames ==
    <<"min_svs", "max_svs", "min_cno_dbhz", "min_elev_deg", "n_cno_thrs", "cno_thrs_dbhz",
      "fix_mode", "pdop_mask_x10", "tdop_mask_x10", "p_acc_mask_m", "t_acc_mask_m">>

ValidPosition(fp) ==
    /\ Required(fp, "position_type")
    /\ fp.position_type \in {"ecef", "lla"}
    /\ Required(fp, fp.position_type)
    /\ AllTyped(fp[fp.position_type], {"x", "y", "z"})
    /\ Typed(fp, "position_accuracy_m")

ValidBase(b) ==
    /\ Required(b, "base_mode")
    /\ \/ /\ b.base_mode = "survey_in"
          /\ Required(b, "survey_in")
          /\ AllTyped(b.survey_in,
                      {"minimum_observation_time_s", "required_position_accuracy_m"})
       \/ /\ b.base_mode = "fixed_position"
          /\ Required(b, "fixed_position")
          /\ ValidPosition(b.fixed_position)

ValidPulses(t) ==
    /\ Typed(t, "fixed_pulse")
    /\ "fixed_pulse" \in DOMAIN t => AllTyped(t.fixed_pulse, {"frequency", "pulse_width"})
    /\ TypedOrNone(t, "pulse_when_no_fix")
    /\ Given(t, "pulse_when_no_fix") =>
           AllTyped(t.pulse_when_no_fix, {"frequency", "pulse_width"})
    /\ Typed(t, "polarity")

MaxGeofences == 4     \* UBLOX_MAX_GEOFENCES

AnyNumberOfGeofences(g) ==      \* mutant: a fifth fence is not noticed
    /\ AllTyped(g, {"confidence_level", "geofences"})
    /\ "geofences" \in DOMAIN g => \A i \in DOMAIN g.geofences :
           g.geofences[i] # Wrong /\ AllTyped(g.geofences[i], {"lat", "lon", "radius"})
    /\ TypedOrNone(g, "pin_polarity")

ValidGeofencing(g) ==
    /\ AllTyped(g, {"confidence_level", "geofences"})
    /\ "geofences" \in DOMAIN g =>
           /\ Len(g.geofences) <= MaxGeofences
           /\ \A i \in DOMAIN g.geofences :
                  g.geofences[i] # Wrong /\ AllTyped(g.geofences[i], {"lat", "lon", "radius"})
    /\ TypedOrNone(g, "pin_polarity")

ValidRtk(r) ==
    /\ Required(r, "mode") /\ r.mode \in {"base", "rover"}
    /\ TypedOrNone(r, "base")
    /\ Given(r, "base") => ValidBase(r.base)

ValidTiming(t) ==
    /\ Typed(t, "enable_time_mark")
    /\ TypedOrNone(t, "time_base")
    /\ Given(t, "time_base") => ValidBase(t.time_base)

ValidFilters(filters) == \A f \in Range(FilterNames) : TypedOrNone(filters, f)

ValidateConfig(d) ==
    /\ d # Wrong
    /\ AllTyped(d, {"measurement_rate_hz", "dynamic_model", "save_to_flash"})
    /\ \A f \in {"timepulse_pin_config", "geofencing", "rtk", "timing", "navigation_filters"} :
           TypedOrNone(d, f)
    /\ Given(d, "timepulse_pin_config") => ValidPulses(d.timepulse_pin_config)
    /\ Given(d, "geofencing") => ValidGeofencing(d.geofencing)
    /\ Given(d, "rtk") => ValidRtk(d.rtk)
    /\ Given(d, "timing") => ValidTiming(d.timing)
    /\ Given(d, "navigation_filters") => ValidFilters(d.navigation_filters)

-----------------------------------------------------------------------------
(* Python: populate_config_from_dict, into the structure that              *)
(* jp_gnss_gnss_config_init prepared.                                      *)

ZeroPulse == [frequency |-> 0, pulse_width |-> 0]

InitConfig ==
    [measurement_rate_hz |-> 1, dynamic_model |-> 0,
     timepulse |-> [active |-> TRUE, polarity |-> 1, no_fix |-> Absent,
                    fixed |-> [frequency |-> 1, pulse_width |-> 10]],
     geofencing |-> Absent, rtk |-> Absent, timing |-> Absent, filters |-> Absent, save |-> FALSE]

Field(d, f, otherwise) == IF f \in DOMAIN d THEN d[f] ELSE otherwise

PopulatePosition(p) == << Field(p, "x", 0), Field(p, "y", 0), Field(p, "z", 0) >>

(* The structure has been zeroed: what base_mode or position_type does not  *)
(* name stays 0.                                                            *)
PopulateBase(b) ==
    LET survey == Field(b, "survey_in", << >>)
        fixed  == Field(b, "fixed_position", << >>)
        type   == Field(fixed, "position_type", "ecef")
    IN  [base_mode |-> b.base_mode,
         survey_in |->
             IF b.base_mode # "survey_in" THEN [time |-> 0, accuracy |-> 0]
             ELSE [time |-> Field(survey, "minimum_observation_time_s", 0),
                   accuracy |-> Field(survey, "required_position_accuracy_m", 0)],
         fixed_position |->
             IF b.base_mode = "survey_in"
             THEN [position_type |-> "ecef", position |-> <<0, 0, 0>>, accuracy |-> 0]
             ELSE [position_type |-> type,
                   position |-> PopulatePosition(Field(fixed, type, << >>)),
                   accuracy |-> Field(fixed, "position_accuracy_m", 0)]]

PopulatePulse(p, zero) ==
    [frequency |-> Field(p, "frequency", zero.frequency),
     pulse_width |-> Field(p, "pulse_width", zero.pulse_width)]

PopulateTimepulse(t, init) ==
    [active |-> Field(t, "active", FALSE),
     polarity |-> Field(t, "polarity", init.polarity),
     fixed |-> PopulatePulse(Field(t, "fixed_pulse", << >>), init.fixed),
     no_fix |-> IF Given(t, "pulse_when_no_fix")
                THEN PopulatePulse(t.pulse_when_no_fix, ZeroPulse) ELSE Absent]

PopulateGeofencing(g) ==
    [confidence_level |-> Narrow(Field(g, "confidence_level", 0), 8),
     pin_polarity |-> Field(g, "pin_polarity", Absent),
     geofences |->
         LET fences == Field(g, "geofences", << >>)
         IN  [i \in 1..Len(fences) |->
                 [f \in {"lat", "lon", "radius"} |-> Field(fences[i], f, 0)]]]

FilterValue(f, n) ==
    CASE f = "min_elev_deg" -> SignedByte(n)
      [] f \in {"pdop_mask_x10", "tdop_mask_x10", "p_acc_mask_m", "t_acc_mask_m"} -> Narrow(n, 16)
      [] OTHER -> Narrow(n, 8)

PopulateFilters(d) ==
    [f \in {g \in Range(FilterNames) : Given(d, g)} |-> FilterValue(f, d[f])]

PopulateTiming(t) ==
    [enable_time_mark |-> Field(t, "enable_time_mark", FALSE),
     time_base |-> IF Given(t, "time_base") THEN PopulateBase(t.time_base) ELSE Absent]

PopulateRtk(r) ==
    [mode |-> r.mode, base |-> IF Given(r, "base") THEN PopulateBase(r.base) ELSE Absent]

PopulateConfig(d) ==
    LET init == [InitConfig EXCEPT !.timepulse.active = FALSE]
        Copy(f, Copied(_)) == IF Given(d, f) THEN Copied(d[f]) ELSE Absent
    IN  [measurement_rate_hz |->
             Narrow(Field(d, "measurement_rate_hz", init.measurement_rate_hz), 16),
         dynamic_model |-> Field(d, "dynamic_model", init.dynamic_model),
         timepulse |-> IF Given(d, "timepulse_pin_config")
                       THEN PopulateTimepulse(d.timepulse_pin_config, init.timepulse)
                       ELSE init.timepulse,
         geofencing |-> Copy("geofencing", PopulateGeofencing),
         timing |-> Copy("timing", PopulateTiming),
         rtk |-> Copy("rtk", PopulateRtk),
         filters |-> Copy("navigation_filters", PopulateFilters),
         save |-> Field(d, "save_to_flash", FALSE)]

-----------------------------------------------------------------------------
(* C: the structure an application fills, and what becomes of it.          *)

(* jp_gnss_gnss_config_add_geofence: refuses a fifth one *)
AddGeofence(g, fence) ==
    IF Len(g.geofences) >= MaxGeofences THEN g
    ELSE [g EXCEPT !.geofences = Append(@, fence)]

ConvertBase(b) ==
    CASE b.base_mode = "survey_in" ->
             [mode |-> "survey", time |-> b.survey_in.time, accuracy |-> b.survey_in.accuracy]
      [] b.base_mode = "fixed_position" /\ b.fixed_position.position_type \in {"ecef", "lla"} ->
             [mode |-> "fixed", type |-> b.fixed_position.position_type,
              position |-> b.fixed_position.position, accuracy |-> b.fixed_position.accuracy]
      [] OTHER -> Absent

ConvertRtk(r) == [mode |-> r.mode, base |-> IF r.base = Absent THEN Absent ELSE ConvertBase(r.base)]

ConvertTimepulse(t) ==
    [active |-> t.active, polarity |-> t.polarity, fixed |-> t.fixed, no_fix |-> t.no_fix]

ConvertGeofencing(g) ==
    IF g = Absent \/ g.geofences = << >> THEN Absent
    ELSE [level |-> g.confidence_level, polarity |-> g.pin_polarity,
          fences |-> SubSeq(g.geofences, 1, IF Len(g.geofences) < MaxGeofences
                                            THEN Len(g.geofences) ELSE MaxGeofences)]

(* A base that cannot be converted fails the conversion. *)
Convertible(c) ==
    /\ c.rtk # Absent /\ c.rtk.base # Absent => ConvertBase(c.rtk.base) # Absent
    /\ c.timing # Absent /\ c.timing.time_base # Absent => ConvertBase(c.timing.time_base) # Absent

ConvertGnssConfig(c) ==
    IF ~Convertible(c) THEN Absent
    ELSE [rate |-> c.measurement_rate_hz, model |-> Narrow(c.dynamic_model, 8),
          pulse |-> ConvertTimepulse(c.timepulse),
          geofencing |-> ConvertGeofencing(c.geofencing),
          rtk |-> IF c.rtk = Absent THEN Absent ELSE ConvertRtk(c.rtk),
          timing |-> IF c.timing = Absent THEN Absent
                     ELSE [mark |-> c.timing.enable_time_mark,
                           base |-> IF c.timing.time_base = Absent THEN Absent
                                    ELSE ConvertBase(c.timing.time_base)],
          filters |-> c.filters, save |-> c.save]

-----------------------------------------------------------------------------
(* C++: GnssHat::start() checks the configuration.                         *)

Latitude == (-90 * Degree)..(90 * Degree)
Longitude == (-180 * Degree)..(180 * Degree)

CheckMeasurementRate(rate) == rate \in 1..25

CheckTimepulsePinConfig(p) ==
    p.active =>
        /\ p.fixed.pulse_width \in 0..99
        /\ p.no_fix # Absent => p.no_fix.pulse_width \in 0..99

CheckGeofencing(g) ==
    g # Absent =>
        /\ g.level <= 5
        /\ Len(g.fences) \in 1..4
        /\ \A i \in DOMAIN g.fences :
               /\ g.fences[i].lat \in Latitude
               /\ g.fences[i].lon \in Longitude
               /\ g.fences[i].radius > 0

CheckBaseConfig(b) ==
    /\ b.accuracy > 0
    /\ b.mode = "survey" => b.time # 0
    /\ b.mode = "fixed" /\ b.type = "lla" =>
           b.position[1] \in Latitude /\ b.position[2] \in Longitude

CheckTiming(t) ==
    t # Absent =>
        /\ t.mark \/ t.base # Absent
        /\ t.base # Absent => CheckBaseConfig(t.base)

CheckNavigationFilters(filters) ==
    filters # Absent =>
        LET Within(f, S) == f \in DOMAIN filters => filters[f] \in S
        IN  /\ Within("min_svs", 3..32)
            /\ Within("max_svs", 3..32)
            /\ {"min_svs", "max_svs"} \subseteq DOMAIN filters =>
                   filters["max_svs"] >= filters["min_svs"]
            /\ Within("min_cno_dbhz", 0..63)
            /\ Within("cno_thrs_dbhz", 0..63)
            /\ Within("min_elev_deg", -90..90)
            /\ Within("fix_mode", 1..3)
            /\ Within("pdop_mask_x10", 0..9999)
            /\ Within("tdop_mask_x10", 0..9999)

ValidForHat(hat, config) ==
    /\ CheckMeasurementRate(config.rate)
    /\ CheckTimepulsePinConfig(config.pulse)
    /\ CheckNavigationFilters(config.filters)
    /\ CASE hat \in {"M9N", "F9P"} -> config.timing = Absent /\ CheckGeofencing(config.geofencing)
         [] hat = "F10T" -> config.geofencing = Absent /\ config.rtk = Absent /\ CheckTiming(config.timing)

-----------------------------------------------------------------------------
(* The startup strategy: the keys each step configures, and their expected *)
(* values.                                                                 *)

Fixed == 1     \* the contents of a group that never change
FixedGroups == {"spi", "spiInProt", "spiOutProt", "txReady", "msgout", "l5", "spiProtF9P",
                "monSys", "uart1", "uart1OutProt", "uart2", "uart2ProtOut", "uart2ProtIn",
                "rtcm3Msg", "msgCfg", "pulseDef", "rateNav"}

UseFence == <<"useFence1", "useFence2", "useFence3", "useFence4">>
FenceLat == <<"fence1Lat", "fence2Lat", "fence3Lat", "fence4Lat">>
FenceLon == <<"fence1Lon", "fence2Lon", "fence3Lon", "fence4Lon">>
FenceRad == <<"fence1Rad", "fence2Rad", "fence3Rad", "fence4Rad">>
EcefKeys == <<"ecefX", "ecefY", "ecefZ">>
EcefHpKeys == <<"ecefXHp", "ecefYHp", "ecefZHp">>
LlaKeys == <<"lat", "lon", "height">>
LlaHpKeys == <<"latHp", "lonHp", "heightHp">>

Rate2Registers(rate) == ("rateMeas" :> (1000 \div rate))

TimepulseKeys(p) ==
    <<"tpEna">> \o (IF p.active THEN <<"pulseDef", "freq", "freqLock", "duty", "dutyLock", "tpPol">>
                               ELSE << >>)

SwapsLock(p) ==      \* mutant: the registers for a fix get the pulse without one
    IF ~p.active THEN "tpEna" :> 0
    ELSE LET noFix == IF p.no_fix = Absent THEN ZeroPulse ELSE p.no_fix
         IN  ("tpEna" :> 1) @@ ("tpPol" :> p.polarity)
             @@ ("freqLock" :> noFix.frequency) @@ ("freq" :> p.fixed.frequency)
             @@ ("dutyLock" :> noFix.pulse_width) @@ ("duty" :> p.fixed.pulse_width)

TimepulsePinConfig2Registers(p) ==
    IF ~p.active THEN "tpEna" :> 0
    ELSE LET noFix == IF p.no_fix = Absent THEN ZeroPulse ELSE p.no_fix
         IN  ("tpEna" :> 1) @@ ("tpPol" :> p.polarity)
             @@ ("freq" :> noFix.frequency) @@ ("freqLock" :> p.fixed.frequency)
             @@ ("duty" :> noFix.pulse_width) @@ ("dutyLock" :> p.fixed.pulse_width)

NavigationFilterKeys(filters) ==
    IF filters = Absent THEN << >> ELSE SelectSeq(FilterNames, LAMBDA f : f \in DOMAIN filters)

(* min_elev_deg is stored as its two's complement byte. *)
NavigationFilters2Registers(filters) ==
    IF filters = Absent THEN << >>
    ELSE [f \in DOMAIN filters |-> IF f = "min_elev_deg" THEN Narrow(filters[f], 8) ELSE filters[f]]

PinNumber == 6     \* geofencingPioPin

(* All four fences are written; the ones not asked for are switched off.   *)
Fences2Registers(g) ==
    FoldFunction(LAMBDA f, acc : f @@ acc, << >>,
        [i \in 1..MaxGeofences |->
            IF g # Absent /\ i <= Len(g.fences)
            THEN (UseFence[i] :> 1) @@ (FenceLat[i] :> g.fences[i].lat)
                 @@ (FenceLon[i] :> g.fences[i].lon) @@ (FenceRad[i] :> g.fences[i].radius)
            ELSE (UseFence[i] :> 0) @@ (FenceLat[i] :> 0) @@ (FenceLon[i] :> 0)
                 @@ (FenceRad[i] :> 0)])

Geofencing2Registers(g) ==
    LET polarity == IF g = Absent THEN Absent ELSE g.polarity
    IN  ("confLvl" :> IF g = Absent THEN 0 ELSE g.level) @@ ("pin" :> PinNumber)
        @@ ("usePio" :> IF polarity = Absent THEN 0 ELSE 1)
        @@ ("pinPol" :> IF polarity = Absent THEN 0 ELSE polarity)
        @@ Fences2Registers(g)

BaseConfig2Keys(b) ==
    <<"tmode">> \o
    (CASE b.mode = "survey" -> <<"svinMinDur", "svinAccLimit">>
       [] b.mode = "fixed" ->
             <<"posType", "fixedPosAcc">> \o
             (IF b.type = "ecef" THEN EcefKeys \o EcefHpKeys ELSE LlaKeys \o LlaHpKeys))

(* A coordinate goes into a coarse register and one for the hundredths.    *)
BaseConfig2Registers(b) ==
    IF b.mode = "survey"
    THEN ("tmode" :> 1) @@ ("svinMinDur" :> b.time) @@ ("svinAccLimit" :> b.accuracy)
    ELSE LET coarse == IF b.type = "ecef" THEN EcefKeys ELSE LlaKeys
             fine   == IF b.type = "ecef" THEN EcefHpKeys ELSE LlaHpKeys
         IN  ("tmode" :> 2) @@ ("fixedPosAcc" :> b.accuracy)
             @@ ("posType" :> IF b.type = "ecef" THEN 0 ELSE 1)
             @@ [k \in Range(coarse) |-> Quotient(b.position[CHOOSE i \in 1..3 : coarse[i] = k], 100)]
             @@ [k \in Range(fine) |-> Remainder(b.position[CHOOSE i \in 1..3 : fine[i] = k], 100)]

(* The base configuration the strategy uses: F10T the time base, F9P that   *)
(* of a base; mode Base without one is started as a rover.                  *)
TmodeBase(hat, config) ==
    CASE hat = "F10T" -> IF config.timing = Absent THEN Absent ELSE config.timing.base
      [] hat = "F9P" /\ config.rtk # Absent /\ config.rtk.mode = "base" -> config.rtk.base
      [] OTHER -> Absent

Role(hat, config) ==
    IF TmodeBase(hat, config) # Absent THEN "base" ELSE IF config.rtk # Absent THEN "rover" ELSE "plain"

Plan(hat, config) ==
    CASE hat = "M9N"  -> M9NPlan
      [] hat = "F9P"  -> F9PPlan(Role(hat, config))
      [] hat = "F10T" -> F10TPlan

ExpectedValues(hat, config) ==
    LET base == TmodeBase(hat, config)
    IN  [g \in FixedGroups |-> Fixed]
        @@ Rate2Registers(config.rate) @@ TimepulsePinConfig2Registers(config.pulse)
        @@ NavigationFilters2Registers(config.filters)
        @@ (IF base = Absent THEN "tmode" :> 0 ELSE BaseConfig2Registers(base))
        @@ (IF hat = "F10T"
            THEN "timTm2" :> IF config.timing # Absent /\ config.timing.mark THEN 1 ELSE 0
            ELSE ("dynModel" :> config.model) @@ Geofencing2Registers(config.geofencing))

(* The keys of one step of the plan, in the order they are polled.         *)
StepKeys(hat, config, groups) ==
    CASE groups = {"navFilter"} -> NavigationFilterKeys(config.filters)
      [] groups = {"geofence"}  -> <<"confLvl", "usePio", "pinPol", "pin">>
      [] groups = {"useFence", "fenceArea"} -> UseFence \o FenceLat \o FenceLon \o FenceRad
      [] groups = {"rate"}      -> <<"rateMeas", "rateNav">>
      [] groups = {"timepulse"} -> TimepulseKeys(config.pulse)
      [] groups = {"msgCfg"}    -> <<"msgCfg", "timTm2">>
      [] groups = {"tmode"}     -> IF TmodeBase(hat, config) = Absent THEN <<"tmode">>
                                   ELSE BaseConfig2Keys(TmodeBase(hat, config))
      [] OTHER                  -> SetToSeq(groups)

-----------------------------------------------------------------------------
(* UBX-CFG-VALGET: an answer is keys and values, one after the other; the   *)
(* values are as long as the receiver makes them, and are cut as long as    *)
(* ConfigKeySizeMap says.                                                   *)

OutputFilters == {"pdop_mask_x10", "tdop_mask_x10", "p_acc_mask_m", "t_acc_mask_m"}

(* The size is part of the number of a key. *)
SizeOf(k) ==
    CASE k \in {"duty", "dutyLock"} -> 8
      [] k \in {"freq", "freqLock", "fixedPosAcc", "svinMinDur", "svinAccLimit"}
              \cup Range(FenceLat \o FenceLon \o FenceRad \o EcefKeys \o LlaKeys) -> 4
      [] k \in {"rateMeas", "rateNav"} \cup OutputFilters -> 2
      [] OTHER -> 1

Unsized == {"fix_mode"} \cup OutputFilters     \* not in the map

KeySize(k) == IF k \in Unsized THEN Absent ELSE SizeOf(k)

Cell(k, byte) == [key |-> k, byte |-> byte]     \* byte 0: the four bytes of the key

Answer(keys) ==
    FlattenSeq([i \in DOMAIN keys |-> [b \in 1..(SizeOf(keys[i]) + 1) |-> Cell(keys[i], b - 1)]])

Garbage == {"thrown"}

(* The keys whose value is cut right out of the rest of an answer; Garbage  *)
(* when the parser throws: an unknown key, or an answer that ends too early *)
ParseAsResponse(cells) ==
    LET parse[o \in 1..(Len(cells) + 1)] ==
            IF o > Len(cells) THEN {}
            ELSE LET size == IF cells[o].byte = 0 THEN KeySize(cells[o].key) ELSE Absent
                 IN  IF size = Absent \/ o + size > Len(cells) THEN Garbage
                     ELSE LET rest == parse[o + size + 1]
                              whole == \A b \in 1..size : cells[o + b] = Cell(cells[o].key, b)
                          IN  IF rest = Garbage \/ ~whole THEN rest ELSE rest \cup {cells[o].key}
    IN  parse[1]
=============================================================================
