----------------------------- MODULE RtkBaseTool -----------------------------
(***************************************************************************)
(* The configuration of gnsshat-rtk-base: a TOML file read over the        *)
(* defaults (RtkBaseConfig.hpp), the command line over both (main), and    *)
(* the GnssConfig made of it. A file is a record of its tables and keys, a *)
(* value of another TOML type is Wrong; the options are a sequence of      *)
(* [name, value]. The keys and options for NTRIP, logging and the service  *)
(* change nothing that is sent to the receiver and are left out.           *)
(***************************************************************************)
EXTENDS GnssConfiguration

Defaults ==
    [reset |-> "cold", rate |-> 1, model |-> 2,
     active |-> TRUE, frequency |-> 1, duty |-> 10, polarity |-> "rising",
     base |-> "survey_in", time |-> 120, accuracy |-> 500000,
     type |-> "lla", lla |-> <<0, 0, 0>>, ecef |-> <<0, 0, 0>>, fixedAccuracy |-> 5000]

(* parseDynamicModel: a name it does not know is a stationary receiver.    *)
ModelNames ==
    <<"portable", "", "stationary", "pedestrian", "automotive", "sea", "airborne1g", "airborne2g",
      "airborne4g", "wrist", "bike", "mower", "escooter">>

ParseDynamicModel(name) ==
    IF \E i \in DOMAIN ModelNames : ModelNames[i] = name
    THEN (CHOOSE i \in DOMAIN ModelNames : ModelNames[i] = name) - 1 ELSE Defaults.model

-----------------------------------------------------------------------------
(* The file *)

ReadTop(config, file) ==
    [config EXCEPT
        !.reset = IF Field(file, "reset_mode", "") \in {"cold", "hot", "none"} THEN file.reset_mode ELSE @,
        !.rate = Narrow(Field(file, "measurement_rate_hz", @), 16),
        !.model = IF "dynamic_model" \in DOMAIN file THEN ParseDynamicModel(file.dynamic_model) ELSE @]

ReadTimepulse(config, t) ==
    [config EXCEPT !.active = Field(t, "active", @), !.frequency = Field(t, "frequency_hz", @),
                !.duty = Field(t, "duty_cycle", @), !.polarity = Field(t, "polarity", @)]

ReadSurveyIn(config, s) ==
    [config EXCEPT !.time = Field(s, "min_observation_time_s", @),
                !.accuracy = Field(s, "required_accuracy_m", @)]

ReadFixedPosition(config, f) ==
    [config EXCEPT !.type = Field(f, "type", @), !.fixedAccuracy = Field(f, "accuracy_m", @),
                !.lla = << Field(f, "latitude_deg", @[1]), Field(f, "longitude_deg", @[2]),
                           Field(f, "height_m", @[3]) >>,
                !.ecef = << Field(f, "x_m", @[1]), Field(f, "y_m", @[2]), Field(f, "z_m", @[3]) >>]

ReadBase(config, b) ==
    ReadFixedPosition(ReadSurveyIn([config EXCEPT !.base = Field(b, "mode", @)],
                                   Field(b, "survey_in", << >>)),
                      Field(b, "fixed_position", << >>))

(* toml::find throws when a value has another type: the tool ends with an   *)
(* error. Tables that are there are tables.                                *)
WellTyped(t) == \A key \in DOMAIN t : t[key] # Wrong

Table(file, name) == Field(file, name, << >>)

LoadConfigFromToml(file) ==
    LET base == Table(file, "base")
    IN  IF ~(/\ WellTyped(file) /\ WellTyped(Table(file, "timepulse")) /\ WellTyped(base)
             /\ WellTyped(Table(base, "survey_in")) /\ WellTyped(Table(base, "fixed_position")))
        THEN Absent
        ELSE ReadBase(ReadTimepulse(ReadTop(Defaults, file), Table(file, "timepulse")), base)

-----------------------------------------------------------------------------
(* The command line *)

Fixing(config, type, position) ==
    IF position = Wrong THEN Absent
    ELSE IF type = "lla" THEN [config EXCEPT !.base = "fixed", !.type = type, !.lla = position]
                         ELSE [config EXCEPT !.base = "fixed", !.type = type, !.ecef = position]

(* An option that is unknown or cannot be read ends the tool. *)
Override(config, option) ==
    CASE option.name = "--survey-in" -> [config EXCEPT !.base = "survey_in"]
      [] option.name = "--fixed-lla" -> Fixing(config, "lla", option.value)
      [] option.name = "--fixed-ecef" -> Fixing(config, "ecef", option.value)
      [] option.name = "--accuracy" -> [config EXCEPT !.fixedAccuracy = option.value]
      [] option.name = "--reset" /\ option.value \in {"cold", "hot", "none"} ->
             [config EXCEPT !.reset = option.value]
      [] OTHER -> Absent

CommandLine(config, options) ==
    FoldLeft(LAMBDA c, option : IF c = Absent THEN Absent ELSE Override(c, option), config, options)

ToolConfig(file, options) == CommandLine(LoadConfigFromToml(file), options)

-----------------------------------------------------------------------------

BuildBase(config) ==
    IF config.base = "fixed"
    THEN [mode |-> "fixed", type |-> IF config.type = "ecef" THEN "ecef" ELSE "lla",
          position |-> IF config.type = "ecef" THEN config.ecef ELSE config.lla,
          accuracy |-> config.fixedAccuracy]
    ELSE [mode |-> "survey", time |-> config.time, accuracy |-> config.accuracy]

BuildGnssConfig(config) ==
    [rate |-> config.rate, model |-> config.model,
     pulse |-> [active |-> config.active, no_fix |-> Absent,
                polarity |-> IF config.polarity = "falling" THEN 0 ELSE 1,
                fixed |-> [frequency |-> config.frequency, pulse_width |-> config.duty]],
     geofencing |-> Absent, rtk |-> [mode |-> "base", base |-> BuildBase(config)],
     timing |-> Absent, filters |-> Absent, save |-> FALSE]
=============================================================================
