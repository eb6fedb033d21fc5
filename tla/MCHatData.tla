------------------------------ MODULE MCHatData ------------------------------
(* Instances of HatData: for each product, histories of configurations, and *)
(* one of messages.                                                         *)
EXTENDS HatData

Pulse(width) == [frequency |-> 1, pulse_width |-> width]
Plain == [rate |-> 1, model |-> 0,
          pulse |-> [active |-> TRUE, polarity |-> 1, fixed |-> Pulse(10), no_fix |-> Absent],
          geofencing |-> Absent, rtk |-> Absent, timing |-> Absent, filters |-> Absent, save |-> FALSE]
Means(c) == [means |-> c, dict |-> Absent, tool |-> Absent]
MeansNothing(d) == [means |-> Absent, dict |-> d, tool |-> Absent]
NoCommand(file, options) ==
    [means |-> Absent, dict |-> Absent, tool |-> [file |-> file, options |-> options]]

Fence(lat, lon, radius) == [lat |-> lat, lon |-> lon, radius |-> radius]
Fences(n, level, polarity) ==
    [level |-> level, polarity |-> polarity,
     fences |-> [i \in 1..n |-> Fence(905 - 200 * i, 200 * i - 905, i)]]
Survey(time, accuracy) == [mode |-> "survey", time |-> time, accuracy |-> accuracy]
At(type, position, accuracy) ==
    [mode |-> "fixed", type |-> type, position |-> position, accuracy |-> accuracy]
Ecef == At("ecef", <<-12345, 250, 99>>, 7)
Lla == At("lla", <<-899, 1750, -50>>, 1)

Fenced == [Plain EXCEPT !.geofencing = Fences(2, 3, 0), !.rate = 25, !.save = TRUE,
                        !.pulse.active = FALSE,
                        !.filters = [min_elev_deg |-> -5, max_svs |-> 20]]
AllFences == [Plain EXCEPT !.geofencing = Fences(4, 5, Absent), !.model = 4,
                           !.pulse.no_fix = Pulse(99), !.pulse.polarity = 0,
                           !.filters = [min_svs |-> 3, cno_thrs_dbhz |-> 63]]
Saving == [Plain EXCEPT !.save = TRUE]
Throws == [Plain EXCEPT !.filters = [fix_mode |-> 3]]

(* Each just out of range, or of another product. *)
SpiMistakes ==
    {[Plain EXCEPT !.rate = 0], [Plain EXCEPT !.rate = 26],
     [Plain EXCEPT !.pulse.fixed = Pulse(100)], [Plain EXCEPT !.pulse.no_fix = Pulse(100)],
     [Plain EXCEPT !.geofencing = Fences(1, 6, 0)],
     [Plain EXCEPT !.geofencing = [Fences(1, 0, 0) EXCEPT !.fences[1].lat = 901]],
     [Plain EXCEPT !.geofencing = [Fences(1, 0, 0) EXCEPT !.fences[1].lon = -1801]],
     [Plain EXCEPT !.geofencing = [Fences(3, 0, 0) EXCEPT !.fences[3].radius = 0]],
     [Plain EXCEPT !.filters = [min_svs |-> 21, max_svs |-> 20]],
     [Plain EXCEPT !.filters = [max_svs |-> 33]], [Plain EXCEPT !.filters = [min_elev_deg |-> -91]],
     [Plain EXCEPT !.filters = [pdop_mask_x10 |-> 10000]],
     [Plain EXCEPT !.timing = [mark |-> TRUE, base |-> Absent]]}
TimeMistakes ==
    {[Plain EXCEPT !.timing = [mark |-> FALSE, base |-> Absent]],
     [Plain EXCEPT !.timing = [mark |-> TRUE, base |-> Survey(0, 5)]],
     [Plain EXCEPT !.timing = [mark |-> TRUE, base |-> At("lla", <<901, 0, 0>>, 1)]],
     [Plain EXCEPT !.timing = [mark |-> TRUE, base |-> At("ecef", <<1, 0, 0>>, 0)]],
     [Plain EXCEPT !.rtk = [mode |-> "rover", base |-> Absent]],
     [Plain EXCEPT !.geofencing = Fences(1, 0, 0)]}

(* Dictionaries that mean nothing. *)
Malformed ==
    {Wrong, [measurement_rate_hz |-> Wrong], [dynamic_model |-> Absent],
     [rtk |-> [base |-> BaseDict(Ecef)]], [rtk |-> [mode |-> "bse"]],
     [rtk |-> [mode |-> "base", base |-> [base_mode |-> "survey_in"]]],
     [rtk |-> [mode |-> "base", base |-> [base_mode |-> "fixed_position",
                                          fixed_position |-> [position_type |-> "lla"]]]],
     [geofencing |-> [geofences |-> [i \in 1..5 |-> Fence(0, 0, 1)]]],
     [geofencing |-> [geofences |-> << Wrong >>]],
     [timepulse_pin_config |-> [fixed_pulse |-> Absent]],
     [navigation_filters |-> [min_svs |-> Wrong]]}

M9NRequests == {Means(c) : c \in {Plain, Fenced, AllFences, Saving, Throws} \cup SpiMistakes}
               \cup {MeansNothing(d) : d \in Malformed}
F9PRequests ==
    {Means([Fenced EXCEPT !.rtk = r]) :
        r \in {Absent, [mode |-> "rover", base |-> Absent], [mode |-> "base", base |-> Ecef],
               [mode |-> "base", base |-> Survey(60, 2)]}}
    \cup {Means([Plain EXCEPT !.rtk = [mode |-> "base", base |-> Lla]])}

(* The base station tool: two starts, and those it does not get to. *)
Station(base) == [Plain EXCEPT !.rtk = [mode |-> "base", base |-> base], !.model = 2]
ToolRequests ==
    {Means(Station(b)) : b \in {Ecef, Lla, Survey(60, 2)}}
    \cup {Means([Station(Lla) EXCEPT !.rate = r, !.pulse.active = FALSE]) : r \in {25, 26}}
    \cup {Means([Station(Ecef) EXCEPT !.pulse.polarity = 0, !.pulse.fixed.pulse_width = w]) :
              w \in {99, 100}}
    \cup {NoCommand([base |-> [survey_in |-> [required_accuracy_m |-> Wrong]]], << >>),
          NoCommand(<< >>, << Option("--reset", "warm") >>),
          NoCommand(<< >>, << Option("--fixed-lla", Wrong), Option("--survey-in", "") >>)}
F10TRequests ==
    {Means([Plain EXCEPT !.timing = t, !.save = s]) :
        t \in {Absent, [mark |-> TRUE, base |-> Absent], [mark |-> FALSE, base |-> Lla],
               [mark |-> TRUE, base |-> Survey(60, 2)]}, s \in BOOLEAN}
    \cup {Means(c) : c \in TimeMistakes}

-----------------------------------------------------------------------------
Sat(gnss, used, i) == [gnss |-> gnss, sv |-> i, cno |-> i % 3, used |-> used, health |-> i % 4,
                       v |-> <<gnss, i>>]
Sats(n) == [i \in 1..n |-> Sat(IF i % 5 = 0 THEN "Galileo" ELSE IF i = 2 THEN "IMES" ELSE
                               IF i = 3 THEN "SBAS" ELSE "GPS", i % 2 = 0 \/ i > 20, i)]
Blocks(kind, b, more) == [kind |-> kind, blocks |-> b, claimed |-> Len(b) + more]

(* Each with the right count, with a block that is not there, and with one  *)
(* that is not counted.                                                    *)
SatMessages ==
    {Blocks("sat", b, 0) : b \in {<< >>, Sats(70)}}
    \cup {Blocks("sat", << Sat("GLONASS", TRUE, 3), Sat("BeiDou", FALSE, 9) >>, n) : n \in -1..1}

FenceMessage(activity, states, more) ==
    Blocks("geofence", states, more)
    @@ [status |-> activity, v |-> <<activity, states, more>>, combined |-> "Inside"]
FenceMessages == {FenceMessage("NotAvailable", << >>, 1), FenceMessage("Active", << >>, 0)}
    \cup {FenceMessage("Active", <<"Inside", "Outside">>, n) : n \in -1..2}
    \cup {FenceMessage("Active", <<"Outside", "Unknown", "Inside", "Inside">>, n) : n \in 0..1}

Rf(id, band) == [id |-> id, band |-> band, v |-> <<id, band>>]
RfMessages ==
    {Blocks("rf", << Rf(0, "none"), Rf(1, "none") >>, n) : n \in -1..1}
    \cup {Blocks("rf", << Rf(0, "L1"), Rf(5, "L5"), Rf(7, "none") >>, 0),
          Blocks("rf", << Rf(1, "L2") >>, 1), Blocks("rf", << >>, 0)}
SpanMessages ==
    {Blocks("span", [i \in 1..n |-> [v |-> i]], 0) : n \in {0, 3}}
    \cup {Blocks("span", << [v |-> 4] >>, n) : n \in {-1, 1}}

SysMessages == {[kind |-> "sys", short |-> s, v |-> v] : s \in BOOLEAN, v \in {1, 2}}
VerMessages ==
    {[kind |-> "ver", short |-> s, sw |-> "sw", hw |-> h,
      extensions |-> [i \in 1..n |-> IF i = 2 THEN "" ELSE "extension"]] :
        s \in BOOLEAN, h \in {"", "hw"}, n \in {0, 18}}
MarkMessages == {[kind |-> "tm2", flags |-> f, v |-> f] : f \in {0, 77, 178, 255}}
PvtMessages ==
    {[kind |-> "pvt", fixType |-> "Fix3D", flags |-> {"gnssFixOK", "diffSoln", "fixed"},
      time |-> 1, date |-> Unset, v |-> 1],
     [kind |-> "pvt", fixType |-> "NoFix", flags |-> {}, time |-> Unset, date |-> Unset, v |-> 2],
     [kind |-> "pvt", fixType |-> "DeadReckoningOnly", flags |-> {"diffSoln", "float"},
      time |-> 2, date |-> 3, v |-> 3]}
DopMessages == {[kind |-> "dop", v |-> v] : v \in {1, 2}}

(* Lists: full, empty, with frames of no interest, with what is no frame;   *)
(* the failing allocation ranges over those of the longest list.           *)
Frame(id) == [id |-> id, v |-> id]
Frames == {<< >>, << Frame(1005), Frame(1074), Frame(1077), Frame(1230), Frame(9999) >>}
Items(frames, bytes) == [i \in DOMAIN frames |-> [bytes |-> i \in bytes, frame |-> frames[i]]]
Lines == << <<"CAS", "x">>, <<"STR", "M">>, <<"STR", "N", "id", "RTCM 3">>,
            <<"STR", "O", "id", "RTCM 3", "x", "1", "GPS", "SNIP", "text", "text", "1">> >>

ListCall(name, items, k) == [name |-> name, items |-> items, fails |-> k]
RtkCalls ==
    {ListCall(name, f, k) : name \in {"full", "tiny"}, f \in Frames, k \in 0..11}
    \cup {ListCall("frame", f, k) @@ [id |-> id] : f \in Frames, id \in {1077, 1087}, k \in 0..4}
    \cup {ListCall("apply", Items(f, bytes), k) : f \in Frames, bytes \in {1..5, {1, 3}}, k \in 0..1}
NtripCalls ==
    {ListCall(name, Items(f, bytes), k) :
        name \in {"caster", "server"}, f \in Frames, bytes \in {1..5, {1, 3}}, k \in 0..1}
    \cup {ListCall("receive", f, k) : f \in Frames, k \in 0..13}
    \cup {ListCall("table", lines, k) @@ [step |-> ""] : lines \in {<< >>, Lines}, k \in 0..17}
    \cup {ListCall("table", Lines, k) @@ [step |-> step] : step \in Range(TableSteps), k \in 0..2}

(* Statistics: a fed set, a client's frames, a relayed stream cut anywhere  *)
(* into reads, one payload of which looks like another frame, and more      *)
(* types than there is room for.                                            *)
Sent(id, len, shams) == [id |-> id, len |-> len, shams |-> shams]
Relayed == << Sent(1005, 6, {}), Sent(1077, 9, {6}), Sent(1005, 7, {}) >>
Untouched == << Sent(1005, 6, {}), Sent(1087, 8, {}), Sent(1005, 7, {}) >>
Read(frames, i, j) == [how |-> "relay", frames |-> frames, from |-> i, to |-> j]
Cut(frames, i, j) ==
    << Read(frames, 1, i), Read(frames, i + 1, j), Read(frames, j + 1, Len(Stream(frames))) >>
Fed(frames) == [how |-> "feed", frames |-> frames]
StatsCalls ==
    {ListCall("stats", recorded, 0) :
        recorded \in {Cut(Relayed, i, j) : i \in 0..22, j \in 10..22}
               \cup {Cut(Untouched, i, j) : i \in 0..21, j \in 10..21}
               \cup {<< Fed(Relayed), [how |-> "stop"], Fed(Untouched),
                        [how |-> "received", frames |-> << Sent(1230, 8, {}) >>],
                        Fed(<< Sent(7, 3, {}), Sent(1005, 6, {}) >>) >>,
                     << Fed([i \in 1..35 |-> Sent(1040 - i, 6, {})]) >>}}
    \cup {ListCall("stats", << Fed(Relayed) >>, k) : k \in 1..15}

Scope(hat, requests, messages, calls, starts, failures, toldAtMost) ==
    [hat |-> hat, requests |-> requests, messages |-> messages, calls |-> calls,
     starts |-> starts, faults |-> failures, told |-> toldAtMost]
Settings(hat, requests) == Scope(hat, requests, {}, {}, 2, 1, 0)
Telling(messages) == Scope("M9N", {Means(Fenced)}, messages, {}, 2, 1, 2)
RtkRequests == {Means(Station(Ecef)), Means([Plain EXCEPT !.rtk = [mode |-> "rover", base |-> Absent]])}

AllHistories ==
    [settings_m9n  |-> Settings("M9N", M9NRequests),
     settings_f9p  |-> Settings("F9P", F9PRequests),
     settings_tool |-> Settings("F9P", ToolRequests),
     settings_f10t |-> Settings("F10T", F10TRequests),
     corrections   |-> Scope("F9P", RtkRequests, {}, RtkCalls, 1, 0, 1),
     ntrip         |-> Scope("F9P", {}, {}, NtripCalls \cup StatsCalls, 0, 0, 1),
     satellites    |-> Telling(SatMessages \cup PvtMessages \cup DopMessages),
     fences        |-> Telling(FenceMessages \cup RfMessages \cup SpanMessages),
     versions      |-> Telling(SysMessages \cup VerMessages \cup MarkMessages)]

MCHistories == AllHistories
=============================================================================
