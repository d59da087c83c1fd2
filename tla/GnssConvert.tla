---------------------------- MODULE GnssConvert ----------------------------
(***************************************************************************)
(* What the GNSS service (gnss/) shows its client of the reports of the    *)
(* legacy libraries: satellites, measurements, the receiver's clock,       *)
(* locations, batches of locations and the state of assisted GNSS.         *)
(*                                                                         *)
(* A word of flags is the set of their names.  Fields that are copied      *)
(* without a condition (signal, elevation, coordinates) are left out.      *)
(***************************************************************************)
EXTENDS Integers, Sequences, Functions

CONSTANT MaxBatch   \* MAX_LOCATIONS_PER_BATCH

ASSUME BatchAssumption == MaxBatch \in Nat

-----------------------------------------------------------------------------
(* Satellites *)

GLONASS_SVID_OFFSET == 64
GLONASS_SVID_COUNT == 24
BEIDOU_SVID_OFFSET == 200
BEIDOU_SVID_COUNT == 35
SBAS_SVID_ADD == 87

Sv(constellation, svid) == [constellation |-> constellation, svid |-> svid]

\* the constellation and the number in it of the satellite a library numbers prn
SvOfPrn(prn) ==
  CASE prn \in 1 .. 32 -> Sv("GPS", prn)
    [] prn \in GLONASS_SVID_OFFSET + 1 .. GLONASS_SVID_OFFSET + GLONASS_SVID_COUNT ->
         Sv("GLONASS", prn - GLONASS_SVID_OFFSET)
    [] prn \in BEIDOU_SVID_OFFSET + 1 .. BEIDOU_SVID_OFFSET + BEIDOU_SVID_COUNT ->
         Sv("BEIDOU", prn - BEIDOU_SVID_OFFSET)
    [] prn \in 33 .. 64 -> Sv("SBAS", prn + SBAS_SVID_ADD)
    [] prn \in 193 .. 200 -> Sv("QZSS", prn)
    [] OTHER -> Sv("UNKNOWN", prn)

\* one satellite of gpsSvStatusCb(): the masks have one bit for every GPS
\* satellite, so the satellites of the others have no flags
gpsSv(prn, masks) ==
  [sv |-> SvOfPrn(prn),
   flags |-> IF SvOfPrn(prn).constellation = "GPS" THEN {f \in DOMAIN masks : prn \in masks[f]}
             ELSE {}]

\* one satellite of gnssSvStatusCb()
gnssSvFlags(flags) == flags \ {"HAS_CARRIER_FREQUENCY"}

-----------------------------------------------------------------------------
(* Measurements *)

\* the fields that are valid with a flag of their own, and those of them that
\* gpsMeasurementCb() assigns: not carrierCycles
Optional == {"CARRIER_FREQUENCY", "CARRIER_CYCLES", "CARRIER_PHASE", "CARRIER_PHASE_UNCERTAINTY",
             "SNR"}
Assigned == Optional \ {"CARRIER_CYCLES"}

\* one measurement of gpsMeasurementCb(): an assigned field without its flag is
\* zeroed, whatever the library left there; carrierCycles keeps what the stack
\* holds, garbage, and its flag is passed on like the others
gpsMeasurement(m, garbage) ==
  [svid |-> m.prn,
   constellation |-> IF m.prn \in 1 .. 32 THEN "GPS" ELSE "UNKNOWN",
   flags |-> m.flags,
   value |-> [f \in Optional |-> IF f \notin Assigned THEN garbage
                                 ELSE IF f \in m.flags THEN m.value[f] ELSE 0]]

\* one measurement of gnssMeasurementCb(): a decoded time is a known time
gnssMeasurementState(state) ==
  state \cup (IF "TOW_DECODED" \in state THEN {"TOW_KNOWN"} ELSE {})
        \cup (IF "GLO_TOD_DECODED" \in state THEN {"GLO_TOD_KNOWN"} ELSE {})

\* mutant: the signs of the two biases are not flipped
gpsClockUnflipped(c, discontinuities) ==
  [flags |-> c.flags, time |-> c.time, fullBias |-> c.fullBias, bias |-> c.bias,
   discontinuity |-> discontinuities]

\* the clock of gpsMeasurementCb(); discontinuities counts the reports of a
\* library that has GPS time only, "any" is a field left uninitialized
gpsClock(c, discontinuities) ==
  LET gps == c.type = "GPS_TIME"
      clock == IF gps THEN [c EXCEPT !.flags = @ \cup {"FULL_BIAS"}, !.fullBias = c.time,
                                     !.time = 0]
               ELSE c
  IN [flags |-> clock.flags, time |-> clock.time,
      fullBias |-> -clock.fullBias, bias |-> -clock.bias,
      discontinuity |-> IF gps THEN discontinuities ELSE "any"]

\* GPS time as a clock of the library, and as the client's, puts it
TimeOfGpsClock(c) == IF c.type = "GPS_TIME" THEN c.time + c.bias
                     ELSE c.time + c.fullBias + c.bias
TimeOfGnssClock(c) == c.time - (c.fullBias + c.bias)

-----------------------------------------------------------------------------
(* Locations *)

LocationFlags == {"LAT_LONG", "ALTITUDE", "SPEED", "BEARING", "ACCURACY"}

\* convertToGnssLocation() of a GpsLocation: a flag of one of the fields that
\* are always zeroed is cleared
gpsLocationFlags(flags) == flags \cap LocationFlags

\* ... and of an FlpLocation, whose bits are others, one by one
flpLocationFlags(flags) == {f \in LocationFlags : f \in flags}

\* FLP_TECH_MASK_GNSS_AND_SENSORS
Sources == {"GNSS", "SENSORS"}

\* GnssBatching::locationCb() passes over an empty slot (NULL) and a location of
\* another source than those it asked for
Taken(l) == l.kind # "null" /\ l.sources \subseteq Sources

\* ... and looks at the first MaxBatch of the count locations the library announces
LooksAt(count) ==
  CASE count < 0 -> 0
    [] count > MaxBatch -> MaxBatch
    [] OTHER -> count

convertToGnssLocation(l) == [id |-> l.id, flags |-> flpLocationFlags(l.flags)]

\* the loop, location by location
locationBatch(count, locations) ==
  LET batch[i \in 0 .. LooksAt(count)] ==
        IF i = 0 THEN << >>
        ELSE IF Taken(locations[i]) THEN Append(batch[i - 1], convertToGnssLocation(locations[i]))
        ELSE batch[i - 1]
  IN batch[LooksAt(count)]

-----------------------------------------------------------------------------
(* Assisted GNSS *)

\* AGnss::statusCb(): the size of the structure tells the old layout, which has
\* an IPv4 address in the byte order of the host, from the new one.  The type of
\* the old one is lost: the client gets AF_INET (2) for it, which is C2K.
agnssStatus(s) ==
  CASE s.size = "AGpsStatus" /\ s.family = "AF_INET" ->
         [callback |-> "IpV4", type |-> s.type, order |-> "network"]
    [] s.size = "AGpsStatus" /\ s.family = "AF_INET6" ->
         [callback |-> "IpV6", type |-> s.type, order |-> "network"]
    [] s.size = "AGpsStatus" /\ s.family = "other" -> [callback |-> "none"]
    [] s.size = "AGpsStatus_v2" ->
         [callback |-> "IpV4", type |-> "C2K", order |-> "network"]
    [] OTHER -> [callback |-> "none"]
=============================================================================
