----------------------------- MODULE NavigationData -----------------------------
(***************************************************************************)
(* What the receiver's messages say and what the library shows of it. The  *)
(* parser has one object per kind of message, deserialized anew by every   *)
(* frame (UbxFactory, ubxmsg/); a callback copies it to the store          *)
(* (UbxCallbacks, NavigationStore); the C API copies it to a structure of  *)
(* fixed size (GnssHat_C.cpp), the Python binding that one to objects      *)
(* (jp_gnss_module.c), and the gpsd bridge makes NMEA sentences of it.     *)
(*                                                                         *)
(* Fields that are only copied are together one value, v. A frame says how *)
(* many blocks it has (claimed), which may be more or fewer than it brings *)
(* (blocks). Most deserializers believe it and read on behind the frame:   *)
(* what they find there is Stray, whatever bytes those are.                *)
(***************************************************************************)
EXTENDS Integers, Sequences, FiniteSets, SequencesExt

CONSTANTS
    Unset,     \* v of an object nothing was deserialized into
    Stray      \* a value read where nothing belonging to the message was written

MessageKinds == {"pvt", "dop", "sat", "rf", "span", "geofence", "sys", "ver", "tm2"}

MaxSatellites == 64     \* SatelliteInfo::maxNumberOfSatellites
MaxRfBlocks == 2        \* RfBlock::maxNumberOfRfBlocks
MaxFences == 4
MaxExtensions == 16     \* JP_GNSS_MON_VER_MAX_EXTENSIONS

Take(s, n) == SubSeq(s, 1, IF Len(s) < n THEN Len(s) ELSE n)

-----------------------------------------------------------------------------
(* ubxmsg/: deserialize                                                    *)

(* A later flag overrules an earlier one; float RTK wins over fixed.       *)
FixQuality(type, flags) ==
    IF "float" \in flags THEN "FloatRtk"
    ELSE IF "fixed" \in flags THEN "FixedRTK"
    ELSE IF "diffSoln" \in flags THEN "DGNSS"
    ELSE IF type \in {"Fix2D", "Fix3D"} THEN "GpsFix2D3D"
    ELSE IF type = "DeadReckoningOnly" THEN "DeadReckoning"
    ELSE "Invalid"

NavPvt(m) ==
    [fixType |-> m.fixType, fixQuality |-> FixQuality(m.fixType, m.flags),
     active |-> "gnssFixOK" \in m.flags,
     time |-> m.time, date |-> m.date, v |-> m.v]     \* Unset when not valid

(* One block of a NAV-SAT; only health 1 is healthy.                       *)
Satellite(b) ==
    [gnss |-> b.gnss, sv |-> b.sv, cno |-> b.cno, used |-> b.used,
     healthy |-> b.health = 1, v |-> b.v]

NavSatAppends(object, m) ==     \* mutant: the list is not cleared
    object \o [i \in DOMAIN Take(m.blocks, m.claimed) |-> Satellite(m.blocks[i])]

(* The list is cleared, and a frame that ends early ends the list.         *)
NavSat(object, m) == [i \in DOMAIN Take(m.blocks, m.claimed) |-> Satellite(m.blocks[i])]

(* Without a known band it follows from the number of the block.           *)
RfBand(b) ==
    IF b.band \in {"L1", "L2", "L3", "L5"} THEN b.band
    ELSE IF b.id = 0 THEN "L1" ELSE IF b.id = 1 THEN "L2orL5" ELSE "UNKNOWN"

StrayRf == [id |-> Stray, band |-> Stray, v |-> Stray]

(* As many blocks as are claimed, in the frame or behind it.               *)
MonRf(m) ==
    [i \in 1..m.claimed |->
        IF i > Len(m.blocks) THEN StrayRf
        ELSE [id |-> m.blocks[i].id, band |-> RfBand(m.blocks[i]), v |-> m.blocks[i].v]]

MonSpan(m) ==
    [i \in 1..m.claimed |->
        [id |-> i - 1, v |-> IF i > Len(m.blocks) THEN Stray ELSE m.blocks[i].v]]

NavOfNone(v) == [v |-> v, status |-> "NotAvailable", number |-> 0, combined |-> "Unknown",
                 states |-> [i \in 1..MaxFences |-> "Unknown"]]

(* nav_ is made anew; the fences are only read while geofencing is active. *)
(* The array has room for four: a fifth is written into nav_'s padding; of *)
(* a claim of more the model says nothing.                                 *)
NavGeofence(object, m) ==
    IF m.status # "Active" THEN [NavOfNone(m.v) EXCEPT !.status = m.status]
    ELSE [v |-> m.v, status |-> m.status, number |-> m.claimed, combined |-> m.combined,
          states |-> [i \in 1..MaxFences |->
                        IF i > m.claimed THEN "Unknown"
                        ELSE IF i > Len(m.blocks) THEN Stray ELSE m.blocks[i]]]

(* A MON-SYS or MON-VER that is too short leaves its object as it was.     *)
MonSys(object, m) == IF m.short THEN object ELSE [valid |-> TRUE, v |-> m.v]

MonVer(object, m) ==
    IF m.short THEN object
    ELSE [sw |-> m.sw, hw |-> m.hw,
          extensions |-> SelectSeq(m.extensions, LAMBDA e : e # "")]

Bits(n, from, count) == (n \div 2 ^ from) % 2 ^ count

TimTm2(m) ==
    [mode |-> Bits(m.flags, 0, 1), run |-> Bits(m.flags, 1, 1),
     newFallingEdge |-> Bits(m.flags, 2, 1) = 1, timeBase |-> Bits(m.flags, 3, 2),
     utcAvailable |-> Bits(m.flags, 5, 1) = 1, timeValid |-> Bits(m.flags, 6, 1) = 1,
     newRisingEdge |-> Bits(m.flags, 7, 1) = 1, v |-> m.v]

FreshObjects ==
    [pvt |-> [fixType |-> "NoFix", fixQuality |-> "Invalid", active |-> FALSE,
              time |-> Unset, date |-> Unset, v |-> Unset],
     dop |-> Unset, sat |-> << >>, rf |-> << >>, span |-> << >>,
     geofence |-> NavOfNone(Unset), sys |-> [valid |-> FALSE, v |-> Unset],
     ver |-> [sw |-> "", hw |-> "", extensions |-> << >>], tm2 |-> Unset]

Deserialize(object, m) ==
    CASE m.kind = "pvt"      -> NavPvt(m)
      [] m.kind = "dop"      -> m.v
      [] m.kind = "sat"      -> NavSat(object, m)
      [] m.kind = "rf"       -> MonRf(m)
      [] m.kind = "span"     -> MonSpan(m)
      [] m.kind = "geofence" -> NavGeofence(object, m)
      [] m.kind = "sys"      -> MonSys(object, m)
      [] m.kind = "ver"      -> MonVer(object, m)
      [] m.kind = "tm2"      -> TimTm2(m)

-----------------------------------------------------------------------------
(* The store, with what start() keeps of the geofencing configuration.     *)

NoGeofencing == [level |-> 0, enabled |-> FALSE, polarity |-> 0, pin |-> 0, fences |-> << >>]

FreshStore == FreshObjects @@ [cfg |-> NoGeofencing]

Store(stored, kind, object) == [stored EXCEPT ![kind] = object]

-----------------------------------------------------------------------------
(* The C API                                                               *)

ConvertNavigation(stored) ==
    [dop |-> stored.dop, pvt |-> stored.pvt,
     cfg |-> [stored.cfg EXCEPT !.fences = Take(@, MaxFences)],
     geofence |-> stored.geofence,
     rf |-> Take(stored.rf, MaxRfBlocks), span |-> Take(stored.span, MaxRfBlocks),
     sat |-> Take(stored.sat, MaxSatellites)]

ConvertTimeMark(tm) ==
    [mode |-> tm.mode, run |-> tm.run, time_base |-> tm.timeBase,
     new_falling_edge |-> tm.newFallingEdge, new_rising_edge |-> tm.newRisingEdge,
     utc_available |-> tm.utcAvailable, time_valid |-> tm.timeValid, v |-> tm.v]

(* Fails before the first time mark. *)
GetTimeMark(stored) == IF stored.tm2 = Unset THEN Unset ELSE ConvertTimeMark(stored.tm2)

GetSystemHealth(stored) == stored.sys

GetMonVer(stored) ==
    [valid |-> stored.ver.sw # "" \/ stored.ver.hw # "" \/ stored.ver.extensions # << >>,
     sw |-> stored.ver.sw, hw |-> stored.ver.hw,
     extensions |-> Take(stored.ver.extensions, MaxExtensions)]

-----------------------------------------------------------------------------
(* Python: lists as long as the counts of the structure say.               *)

PyBool(b) == IF b THEN "True" ELSE "False"
AsInt(b) == IF b THEN 1 ELSE 0

PvtInPython(pvt) == [pvt EXCEPT !.active = AsInt(@)]

CfgInPython(c) == [level |-> c.level, fences |-> c.fences]

(* As many states as there are said to be fences, of an array of four.     *)
GeofenceInPython(g) ==
    [g EXCEPT !.states = [i \in 1..g.number |-> IF i > MaxFences THEN Stray ELSE @[i]]]

SatellitesInPython(sat) ==
    [i \in DOMAIN sat |-> [sat[i] EXCEPT !.used = PyBool(@), !.healthy = PyBool(@)]]

ConvertNavigationToPython(nav) ==
    [dop |-> nav.dop, pvt |-> PvtInPython(nav.pvt), cfg |-> CfgInPython(nav.cfg),
     geofence |-> GeofenceInPython(nav.geofence), rf |-> nav.rf, span |-> nav.span,
     sat |-> SatellitesInPython(nav.sat)]

ConvertTimeMarkToPython(tm) ==
    [f \in DOMAIN tm |-> IF f \in {"new_falling_edge", "new_rising_edge", "utc_available",
                                   "time_valid"} THEN PyBool(tm[f]) ELSE tm[f]]

SystemHealthInPython(health) == [health EXCEPT !.valid = AsInt(@)]

MonVerInPython(ver) == [ver EXCEPT !.valid = AsInt(@)]

-----------------------------------------------------------------------------
(* NMEA for gpsd                                                           *)

Systems == 1..5

SystemId(gnss) ==
    CASE gnss = "GLONASS" -> 2 [] gnss = "Galileo" -> 3 [] gnss = "BeiDou" -> 4
      [] gnss = "QZSS" -> 5 [] OTHER -> 1

TalkerId(gnss) ==
    CASE gnss = "GLONASS" -> "GL" [] gnss = "Galileo" -> "GA" [] gnss = "BeiDou" -> "GB"
      [] gnss = "QZSS" -> "GQ" [] OTHER -> "GP"

Prn(s) == IF s.gnss = "GLONASS" THEN s.sv + 64 ELSE s.sv

OfSystem(satellites, sys) ==
    SelectSeq(satellites, LAMBDA s : s.gnss # "IMES" /\ SystemId(s.gnss) = sys)

(* The sentences of some systems, one system after the other.              *)
Listed(sentences) ==
    FlattenSeq([i \in 1..Cardinality(Systems) |-> IF i \in DOMAIN sentences THEN sentences[i] ELSE << >>])

NmeaFixType(type) ==
    CASE type = "Fix2D" -> 2 [] type \in {"Fix3D", "GnssWithDeadReckoning"} -> 3 [] OTHER -> 1

GsaSlots == 12

(* One sentence per system with satellites in use, one without any.        *)
GenerateNmeaGSA(stored) ==
    LET Used(sys) == SelectSeq(OfSystem(stored.sat, sys), LAMBDA s : s.used)
        Gsa(sys) == [system |-> sys, fixType |-> NmeaFixType(stored.pvt.fixType),
                     prns |-> LET t == Take(Used(sys), GsaSlots)
                              IN  [i \in DOMAIN t |-> Prn(t[i])],
                     dop |-> stored.dop]
        used == {sys \in Systems : Used(sys) # << >>}
    IN  IF used = {} THEN << Gsa(1) >> ELSE Listed([sys \in used |-> << Gsa(sys) >>])

GsvSlots == 4

(* The satellites of a system, four to a sentence.                         *)
GsvGroups(satellites) ==
    [i \in 1..((Len(satellites) + GsvSlots - 1) \div GsvSlots) |->
        Take(SubSeq(satellites, GsvSlots * (i - 1) + 1, Len(satellites)), GsvSlots)]

GenerateNmeaGSV(stored) ==
    LET Gsv(sys) ==
            LET sats == OfSystem(stored.sat, sys)
                groups == GsvGroups(sats)
            IN  [i \in DOMAIN groups |->
                    [talker |-> TalkerId(sats[1].gnss), total |-> Len(groups), number |-> i,
                     inView |-> Len(sats),
                     sats |-> [j \in DOMAIN groups[i] |->
                                 [prn |-> Prn(groups[i][j]), cno |-> groups[i][j].cno,
                                  v |-> groups[i][j].v]]]]
    IN  Listed([sys \in {y \in Systems : OfSystem(stored.sat, y) # << >>} |-> Gsv(sys)])

(* Time and date are left empty, Unset, while they are not valid.          *)
GenerateNmeaGGA(stored) ==
    [time |-> stored.pvt.time, quality |-> stored.pvt.fixQuality, dop |-> stored.dop,
     v |-> stored.pvt.v]

GenerateNmeaRMC(stored) ==
    [time |-> stored.pvt.time, date |-> stored.pvt.date, active |-> stored.pvt.active,
     v |-> stored.pvt.v]

GenerateNmeaGST(stored) == [time |-> stored.pvt.time, v |-> stored.pvt.v]

GenerateNmeaZDA(stored) == [time |-> stored.pvt.time, date |-> stored.pvt.date]

Nmea(stored) ==
    [gga |-> GenerateNmeaGGA(stored), gsa |-> GenerateNmeaGSA(stored),
     gsv |-> GenerateNmeaGSV(stored), gst |-> GenerateNmeaGST(stored),
     rmc |-> GenerateNmeaRMC(stored), zda |-> GenerateNmeaZDA(stored)]
=============================================================================
