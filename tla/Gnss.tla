-------------------------------- MODULE Gnss --------------------------------
(***************************************************************************)
(* The GNSS service (gnss/Gnss.cpp and the files of its extensions).  Its  *)
(* client is the system server, whose calls and whose death notice arrive  *)
(* on the one binder thread of the service.  The location library ("gps")  *)
(* and the fused location library ("flp") call back on threads of their    *)
(* own, and nothing is locked: each read and write of the static variables *)
(* the threads share is a step.                                            *)
(*                                                                         *)
(* A client is the number of its start, 0 is nullptr.                      *)
(*                                                                         *)
(* External: a library calls back at any time once it was initialised,     *)
(* after cleanup() too; what a client started stays on until it is stopped *)
(* and a library takes stop and close at once.                             *)
(***************************************************************************)
EXTENDS GnssConvert, FiniteSets

CONSTANTS
  Extensions,   \* the extensions whose state is followed
  Infos,        \* what the library tells of itself: "capabilities", "systemInfo"
  MaxClients,   \* starts of the system server
  MaxClocks     \* reports of a library without a clock of its own

Stoppable == {"measurement", "navigation", "batching"}

ASSUME GnssAssumption ==
  /\ Extensions \subseteq Stoppable \cup {"geofencing"}
  /\ MaxClients \in Nat /\ MaxClocks \in Nat

VARIABLES
  sGnssCbIface,   \* the client whose callback object it is, or 0
  client,         \* the last client that started: [gen, alive, set]
  binder,         \* the binder thread: "idle", "resend", "dying"
  made,           \* extensions handed out
  flp,            \* the batching library: "none", "init", "batches"
  running,        \* who started each operation, 0 when it is off
  cached,         \* sCapabilitiesCached and sYearOfHwCached: the ones not 0
  told,           \* what the client was told of them
  held,           \* sWakelockHeldGnss, sWakelockHeldFused
  sWakelockHeld,  \* static in updateWakelock()
  lock,           \* whether the client holds the wake lock
  thread,         \* the libraries' threads: [pc, want, info, to]
  discontinuities,\* static in gpsMeasurementCb()
  report,         \* the last report converted, and what was made of it
  missed,         \* history: what kept the lock from following the libraries
  late,           \* history: information cached after the client had changed
  fault           \* a call through the null pointer

vars == <<sGnssCbIface, client, binder, made, flp, running, cached, told, held, sWakelockHeld,
          lock, thread, discontinuities, report, missed, late, fault>>

service == <<sGnssCbIface, client, binder, made, flp, running>>
wake == <<held, sWakelockHeld, lock, missed>>
info == <<cached, told, late>>

Libraries == {"gps", "flp"}
Operations == {"positioning"} \cup Extensions

Idle == [pc |-> "idle", want |-> FALSE, info |-> "none", to |-> 0]
NoReport == [kind |-> "none"]

Init ==
  /\ sGnssCbIface = 0
  /\ client = [gen |-> 0, alive |-> FALSE, set |-> FALSE]
  /\ binder = "idle"
  /\ made = {} /\ flp = "none"
  /\ running = [o \in Operations |-> 0]
  /\ cached = {} /\ told = {} /\ late = {}
  /\ held = [l \in Libraries |-> FALSE]
  /\ sWakelockHeld = FALSE /\ lock = FALSE /\ missed = {}
  /\ thread = [l \in Libraries |-> Idle]
  /\ discontinuities = 0 /\ report = NoReport
  /\ fault = FALSE

Alive(c) == client.alive /\ c = client.gen
Go(l, pc) == thread' = [thread EXCEPT ![l].pc = pc]
Return(l) == thread' = [thread EXCEPT ![l] = Idle]
Initialised(l) == IF l = "gps" THEN client.gen > 1 \/ client.set ELSE flp # "none"
Forget == report' = NoReport /\ UNCHANGED discontinuities

-----------------------------------------------------------------------------
(* The client *)

StartClient ==
  /\ ~client.alive /\ sGnssCbIface = 0 /\ binder = "idle" /\ client.gen < MaxClients
  /\ client' = [gen |-> client.gen + 1, alive |-> TRUE, set |-> FALSE]
  /\ lock' = FALSE /\ told' = {}
  /\ UNCHANGED <<sGnssCbIface, binder, made, flp, running, cached, late, held, sWakelockHeld,
                 missed, thread, fault>>

ClientDies ==
  /\ client.alive
  /\ client' = [client EXCEPT !.alive = FALSE]
  /\ UNCHANGED <<sGnssCbIface, binder, made, flp, running, wake, info, thread, fault>>

\* setCallback(), up to linkToDeath(); a client may call it again
setCallback ==
  /\ binder = "idle" /\ client.alive
  /\ sGnssCbIface' = client.gen /\ binder' = "resend"
  /\ UNCHANGED <<client, made, flp, running, wake, info, thread, fault>>

\* the rest of setCallback(): what is cached is sent again, the library initialised
Resend ==
  /\ binder = "resend"
  /\ told' = IF client.alive THEN told \cup cached ELSE told
  /\ late' = {}
  /\ binder' = "idle" /\ client' = [client EXCEPT !.set = TRUE]
  /\ UNCHANGED <<sGnssCbIface, made, flp, running, cached, wake, thread, fault>>

\* a call of a client that has set its callback
Calling == binder = "idle" /\ client.alive /\ client.set

\* getExtensionGnss...(): made on the first call, the same object ever after
getExtension(e) ==
  /\ Calling /\ made' = made \cup {e}
  /\ UNCHANGED <<sGnssCbIface, client, binder, flp, running, wake, info, thread, fault>>

\* GnssBatching::init()
initBatching ==
  /\ Calling /\ "batching" \in made /\ flp = "none"
  /\ flp' = "init"
  /\ UNCHANGED <<sGnssCbIface, client, binder, made, running, wake, info, thread, fault>>

\* start(), the setCallback() of measurements and of navigation messages,
\* addGeofence(), and GnssBatching::start(), which fails until the library has
\* told its capabilities
Start(o) ==
  /\ Calling /\ o \in made \cup {"positioning"}
  /\ o = "batching" => flp = "batches"
  /\ running' = [running EXCEPT ![o] = client.gen]
  /\ UNCHANGED <<sGnssCbIface, client, binder, made, flp, wake, info, thread, fault>>

\* stop(), close(), removeGeofence(), GnssBatching::stop()
Stop(o) ==
  /\ Calling /\ o \in made \cup {"positioning"}
  /\ running' = [running EXCEPT ![o] = 0]
  /\ UNCHANGED <<sGnssCbIface, client, binder, made, flp, wake, info, thread, fault>>

-----------------------------------------------------------------------------
(* Its death *)

\* mutant: batching goes on
handleHidlDeathButBatching ==
  /\ binder = "idle" /\ ~client.alive /\ sGnssCbIface # 0
  /\ running' = [o \in Operations |->
                   IF o \in {"positioning", "measurement", "navigation"} THEN 0 ELSE running[o]]
  /\ binder' = "dying"
  /\ UNCHANGED <<sGnssCbIface, client, made, flp, wake, info, thread, fault>>

\* handleHidlDeath(), the commands to the libraries; an extension that was never
\* asked for is not running
handleHidlDeath ==
  /\ binder = "idle" /\ ~client.alive /\ sGnssCbIface # 0
  /\ running' = [o \in Operations |->
                   IF o = "positioning" \/ o \in Stoppable \cap made THEN 0 ELSE running[o]]
  /\ binder' = "dying"
  /\ UNCHANGED <<sGnssCbIface, client, made, flp, wake, info, thread, fault>>

\* ... and its last line
CloseOff ==
  /\ binder = "dying"
  /\ sGnssCbIface' = 0 /\ binder' = "idle"
  /\ missed' = IF sWakelockHeld THEN missed \cup {"client"} ELSE missed
  /\ UNCHANGED <<client, made, flp, running, held, sWakelockHeld, lock, info, thread, fault>>

-----------------------------------------------------------------------------
(* The wake lock *)

Updating == {l \in Libraries : thread[l].pc \in {"check", "read", "update", "acquire", "release"}}

\* acquireWakelockGnss(), releaseWakelockFused() and the other two: the flag is
\* set, then updateWakelock() called
SetHeld(l, b) ==
  /\ thread[l].pc = "idle" /\ Initialised(l)
  /\ held' = [held EXCEPT ![l] = b]
  /\ missed' = IF Updating = {} THEN missed ELSE missed \cup {"overlap"}
  /\ Go(l, "check")
  /\ UNCHANGED <<service, sWakelockHeld, lock, info, fault>>

Check(l) ==
  /\ thread[l].pc = "check"
  /\ IF sGnssCbIface = 0 THEN missed' = missed \cup {"client"} /\ Return(l)
     ELSE UNCHANGED missed /\ Go(l, "read")
  /\ UNCHANGED <<service, held, sWakelockHeld, lock, info, fault>>

\* mutant: the fused library is not asked
ReadGnssOnly(l) ==
  /\ thread[l].pc = "read"
  /\ thread' = [thread EXCEPT ![l] = [thread[l] EXCEPT !.pc = "update", !.want = held["gps"]]]
  /\ UNCHANGED <<service, wake, info, fault>>

Read(l) ==
  /\ thread[l].pc = "read"
  /\ thread' = [thread EXCEPT ![l] = [thread[l] EXCEPT !.pc = "update",
                                                      !.want = held["gps"] \/ held["flp"]]]
  /\ UNCHANGED <<service, wake, info, fault>>

Update(l) ==
  /\ thread[l].pc = "update"
  /\ sWakelockHeld' = thread[l].want
  /\ IF thread[l].want /\ sWakelockHeld THEN Return(l)
     ELSE Go(l, IF thread[l].want THEN "acquire" ELSE "release")
  /\ UNCHANGED <<service, held, lock, missed, info, fault>>

\* gnssAcquireWakelockCb() or gnssReleaseWakelockCb(), through the pointer as it
\* is now.  A release that nothing disturbs makes an end of what was missed.
CallClient(l) ==
  /\ thread[l].pc \in {"acquire", "release"}
  /\ fault' = (sGnssCbIface = 0)
  /\ lock' = IF Alive(sGnssCbIface) THEN thread[l].pc = "acquire" ELSE lock
  /\ missed' = IF /\ thread[l].pc = "release" /\ Alive(sGnssCbIface)
                  /\ Updating = {l} /\ ~sWakelockHeld /\ \A k \in Libraries : ~held[k]
               THEN {} ELSE missed
  /\ Return(l)
  /\ UNCHANGED <<service, held, sWakelockHeld, info>>

-----------------------------------------------------------------------------
(* What the libraries tell of themselves *)

\* setCapabilitiesCb(), setSystemInfoCb(): dropped when there is no client
TellInfo(i) ==
  /\ thread["gps"].pc = "idle" /\ Initialised("gps") /\ sGnssCbIface # 0
  /\ thread' = [thread EXCEPT !["gps"] = [thread["gps"] EXCEPT !.pc = "send", !.info = i]]
  /\ UNCHANGED <<service, wake, info, fault>>

SendInfo ==
  /\ thread["gps"].pc = "send"
  /\ fault' = (sGnssCbIface = 0)
  /\ told' = IF Alive(sGnssCbIface) THEN told \cup {thread["gps"].info} ELSE told
  /\ late' = IF Alive(sGnssCbIface) THEN late \ {thread["gps"].info} ELSE late
  /\ thread' = [thread EXCEPT !["gps"] = [thread["gps"] EXCEPT !.pc = "cache",
                                                            !.to = sGnssCbIface]]
  /\ UNCHANGED <<service, wake, cached>>

CacheInfo ==
  /\ thread["gps"].pc = "cache"
  /\ cached' = cached \cup {thread["gps"].info}
  /\ late' = IF sGnssCbIface \in {0, thread["gps"].to} THEN late
             ELSE late \cup {thread["gps"].info}
  /\ Return("gps")
  /\ UNCHANGED <<service, wake, told, fault>>

\* flpCapabilitiesCb() of a library that can batch
flpCapabilitiesCb ==
  /\ flp = "init" /\ thread["flp"].pc = "idle"
  /\ flp' = "batches"
  /\ UNCHANGED <<sGnssCbIface, client, binder, made, running, wake, info, thread, fault>>

-----------------------------------------------------------------------------
(* Reports *)

\* Bound: reports are converted while nothing else goes on and the first client
\* is there.  The conversions read nothing the other steps write, but for the
\* callback object.
Quiet ==
  /\ \A l \in Libraries : thread[l] = Idle /\ ~held[l]
  /\ client = [gen |-> 1, alive |-> TRUE, set |-> TRUE]
  /\ binder = "idle" /\ cached = {} /\ missed = {}

\* one of the callbacks that convert a report and send it: it looks at its
\* callback object first
Report(kind, owner, sent, shown) ==
  /\ Alive(owner)
  /\ report' = [kind |-> kind, sent |-> sent, shown |-> shown]
  /\ UNCHANGED <<service, wake, info, thread, fault>>

Prns == {0, 1, 32, 33, 64, 65, 88, 89, 193, 200, 201, 235, 236}
Masks == [ephemeris |-> {1, 33}, almanac |-> {32, 65}, used |-> {1, 32}]
ReportGpsSv ==
  \E prn \in Prns : Report("sv", sGnssCbIface, prn, gpsSv(prn, Masks))

ReportGnssSv ==
  \E flags \in SUBSET {"USED_IN_FIX", "HAS_CARRIER_FREQUENCY"} :
    Report("gnssSv", sGnssCbIface, flags, gnssSvFlags(flags))

ReportLocation ==
  \E flags \in SUBSET {"LAT_LONG", "ACCURACY", "VERTICAL_ACCURACY"} :
    Report("location", sGnssCbIface, flags, gpsLocationFlags(flags))

\* the owner of an extension's callback object is the client that runs it
OwnerOf(e) == IF e \in Extensions THEN running[e] ELSE 0

ReportMeasurement ==
  \E prn \in {0, 32, 33}, flags \in {{}, {"SNR"}, Optional}, garbage \in {0, 5} :
    LET m == [prn |-> prn, flags |-> flags, value |-> [f \in Optional |-> 7]]
    IN Report("measurement", OwnerOf("measurement"), m, gpsMeasurement(m, garbage))

ReportGnssMeasurement ==
  \E state \in SUBSET {"TOW_DECODED", "TOW_KNOWN", "GLO_TOD_DECODED"} :
    Report("gnssMeasurement", OwnerOf("measurement"), state, gnssMeasurementState(state))

Clocks == [type : {"UNKNOWN", "LOCAL_HW_TIME", "GPS_TIME"}, flags : {{}, {"FULL_BIAS"}},
           time : {9}, fullBias : {0, -4}, bias : {0, 1}]
ReportClock ==
  \E c \in Clocks :
    /\ c.type = "GPS_TIME" => discontinuities < MaxClocks
    /\ Report("clock", OwnerOf("measurement"), c, gpsClock(c, discontinuities))
    /\ discontinuities' = IF c.type = "GPS_TIME" THEN discontinuities + 1 ELSE discontinuities

Locations == {[kind |-> "null"]} \cup [kind : {"location"}, id : {1}, sources : {{"GNSS"}, {"WIFI"}},
                                       flags : {{"LAT_LONG"}}]
ReportBatch ==
  \E batch \in [1 .. MaxBatch + 1 -> Locations], count \in {-1, 0, 1, MaxBatch, MaxBatch + 1} :
    LET numbered == [i \in DOMAIN batch |->
                       IF batch[i].kind = "null" THEN batch[i] ELSE [batch[i] EXCEPT !.id = i]]
    IN Report("batch", OwnerOf("batching"), [count |-> count, locations |-> numbered],
              locationBatch(count, numbered))

ReportAgnss ==
  \E s \in [size : {"AGpsStatus", "AGpsStatus_v2", "short"},
            family : {"AF_INET", "AF_INET6", "other"}, type : {"SUPL", "C2K"}] :
    Report("agnss", sGnssCbIface, s, agnssStatus(s))

-----------------------------------------------------------------------------

Convert ==
  /\ Quiet
  /\ \/ ReportClock
     \/ /\ \/ ReportGpsSv \/ ReportGnssSv \/ ReportLocation \/ ReportMeasurement
           \/ ReportGnssMeasurement \/ ReportBatch \/ ReportAgnss
        /\ UNCHANGED discontinuities

Serve ==
  \/ StartClient \/ ClientDies \/ setCallback \/ Resend
  \/ handleHidlDeath \/ CloseOff
  \/ \E e \in Extensions : getExtension(e)
  \/ initBatching
  \/ \E o \in Operations : Start(o) \/ Stop(o)
  \/ \E l \in Libraries : \/ \E b \in BOOLEAN : SetHeld(l, b)
                          \/ Check(l) \/ Read(l) \/ Update(l) \/ CallClient(l)
  \/ \E i \in Infos : TellInfo(i)
  \/ SendInfo \/ CacheInfo \/ flpCapabilitiesCb

Next == ~fault /\ (Convert \/ (Serve /\ Forget))

Spec == Init /\ [][Next]_vars

-----------------------------------------------------------------------------
(* Properties *)

Registered == client.alive /\ client.set /\ sGnssCbIface = client.gen /\ binder = "idle"
Wanted == \E l \in Libraries : held[l]

\* Between two updates the client holds the wake lock if one of the libraries
\* wants it and only then, though two libraries share it and its client may have
\* been another one at the time: the device neither stays awake for nothing nor
\* falls asleep in a fix (updateWakelock()).  Two updates at the same time can
\* leave the lock either way until the next release; an update that finds no
\* client, or a client that dies with the lock, can only leave it too low.
WakelockFollows ==
  Registered /\ Updating = {} =>
    /\ lock /\ "overlap" \notin missed => Wanted
    /\ Wanted /\ missed = {} => lock

\* A client that registers, after another one has died at whatever point of its
\* work, finds nothing running that it did not start, but for geofences, and
\* knows all the library has told of itself (handleHidlDeath(), setCallback()).
\* Known exception: the library tells it while the clients change.
RestartIsClean ==
  Registered =>
    /\ \A o \in Operations \ {"geofencing"} : running[o] \in {0, client.gen}
    /\ cached \ late \subseteq told

\* What the client is shown is what the library reported: no two satellites look
\* the same and the number is in the range of its constellation; the estimate of
\* GPS time survives the change of clock type and of signs; a value with its flag
\* is the library's and one without is 0; a batch keeps order and loses only what
\* was not asked for; a status goes to the callback of its address family.
\* Known exceptions: the carrier cycles of a measurement of the older library,
\* never assigned whatever their flag says, and the type of an old status.
ConversionsFaithful ==
  LET sent == report.sent
      shown == report.shown
  IN CASE report.kind = "sv" ->
            /\ \A prn \in 0 .. 240 : SvOfPrn(prn) = shown.sv => prn = sent
            /\ shown.sv.svid \in CASE shown.sv.constellation = "GPS" -> 1 .. 32
                                   [] shown.sv.constellation = "GLONASS" -> 1 .. 24
                                   [] shown.sv.constellation = "BEIDOU" -> 1 .. 37
                                   [] shown.sv.constellation = "SBAS" -> 120 .. 151
                                   [] shown.sv.constellation = "QZSS" -> 193 .. 200
                                   [] OTHER -> Int
            /\ shown.flags # {} => shown.sv.constellation = "GPS"
       [] report.kind = "gnssSv" -> shown = sent \ {"HAS_CARRIER_FREQUENCY"}
       [] report.kind = "location" -> shown \subseteq sent \cap LocationFlags
       [] report.kind = "measurement" ->
            \A f \in Optional \ {"CARRIER_CYCLES"} :
              shown.value[f] = IF f \in sent.flags THEN sent.value[f] ELSE 0
       [] report.kind = "gnssMeasurement" ->
            sent \subseteq shown /\ ("TOW_DECODED" \in shown => "TOW_KNOWN" \in shown)
       [] report.kind = "clock" ->
            /\ TimeOfGnssClock(shown) = TimeOfGpsClock(sent)
            /\ sent.type = "GPS_TIME" => shown.discontinuity = discontinuities - 1
       [] report.kind = "batch" ->
            LET ids == [i \in DOMAIN shown |-> shown[i].id]
            IN /\ Len(shown) <= MaxBatch
               /\ \A i, j \in DOMAIN ids : i < j => ids[i] < ids[j]
               /\ Range(ids) = {i \in 1 .. MaxBatch :
                                  /\ i <= sent.count
                                  /\ sent.locations[i].kind # "null"
                                  /\ sent.locations[i].sources = {"GNSS"}}
       [] report.kind = "agnss" ->
            shown.callback # "none" =>
              /\ shown.callback = "IpV6" => sent.family = "AF_INET6"
              /\ sent.size = "AGpsStatus" => shown.type = sent.type
       [] OTHER -> TRUE

(***************************************************************************)
(* The inductive invariants behind the theorems of GnssProofs.             *)
(***************************************************************************)

ThreadStates ==
  [pc : {"idle", "check", "read", "update", "acquire", "release", "send", "cache"},
   want : BOOLEAN, info : Infos \cup {"none"}, to : Nat]

TypeOK ==
  /\ sGnssCbIface \in Nat
  /\ client \in [gen : Nat, alive : BOOLEAN, set : BOOLEAN]
  /\ running \in [Operations -> Nat]
  /\ held \in [Libraries -> BOOLEAN]
  /\ sWakelockHeld \in BOOLEAN /\ lock \in BOOLEAN
  /\ thread \in [Libraries -> ThreadStates]

\* The callback object is that of the last client or null, and a client that
\* is served has set it; a dead one stays dead until it was dealt with.
ClientInv ==
  /\ sGnssCbIface \in {0, client.gen}
  /\ client.alive => client.gen > 0
  /\ client.alive /\ client.set => sGnssCbIface = client.gen
  /\ binder = "resend" => sGnssCbIface = client.gen
  /\ binder = "dying" => ~client.alive
  /\ fault => sGnssCbIface = 0

\* Whatever runs was started by the last client, through an extension that was
\* made, and nothing runs once its death was dealt with.
RunningInv ==
  /\ \A o \in Operations : running[o] # 0 => o \in made \cup {"positioning"}
  /\ \A o \in Operations \ {"geofencing"} :
       /\ running[o] \in {0, client.gen}
       /\ sGnssCbIface = 0 \/ binder = "dying" => running[o] = 0

\* The client knows what is cached, and what is about to be cached for it.
CacheInv ==
  /\ client.alive /\ client.set => cached \ late \subseteq told
  /\ thread["gps"].pc = "cache" =>
       /\ thread["gps"].to <= client.gen
       /\ client.alive /\ thread["gps"].to = client.gen => thread["gps"].info \in told

\* One library updates at a time, and acts on what both want.
UpdateInv ==
  "overlap" \notin missed =>
    /\ \A k, l \in Updating : k = l
    /\ \A l \in Libraries :
         /\ thread[l].pc = "update" => (thread[l].want <=> Wanted)
         /\ thread[l].pc = "acquire" => Wanted /\ sWakelockHeld
         /\ thread[l].pc = "release" => ~Wanted /\ ~sWakelockHeld

\* The client holds what sWakelockHeld says, or is about to be told; so does a
\* client that is still to come, unless sWakelockHeld was set for another one.
LockInv ==
  LET acquiring == \E l \in Libraries : thread[l].pc = "acquire"
  IN  /\ client.alive /\ sGnssCbIface = 0 => ~lock
      /\ client.alive /\ lock /\ "overlap" \notin missed => Wanted \/ Updating # {}
      /\ missed = {} /\ ~fault =>
           /\ Wanted /\ Updating = {} => sWakelockHeld
           /\ sWakelockHeld /\ client.alive => lock \/ acquiring
           /\ sWakelockHeld /\ sGnssCbIface = 0 => acquiring

Inv == TypeOK /\ ClientInv /\ RunningInv /\ CacheInv /\ UpdateInv /\ LockInv
=============================================================================
