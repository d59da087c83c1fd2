----------------------------- MODULE GnssProofs -----------------------------
(***************************************************************************)
(* Proofs about the GNSS service's client and its wake lock, for any set of *)
(* extensions and any number of client starts.                              *)
(***************************************************************************)
EXTENDS Gnss, SequenceTheorems, WellFoundedInduction, TLAPS

\* A library's thread goes on, or returns from its callback.
LEMMA ThreadMoves ==
  ASSUME TypeOK, NEW l \in Libraries
  PROVE  /\ \A pc \in {"idle", "check", "read", "update", "acquire", "release", "send", "cache"} :
              Go(l, pc) => thread' \in [Libraries -> ThreadStates]
         /\ Return(l) => thread' \in [Libraries -> ThreadStates]
  <1>1. thread[l] \in ThreadStates /\ thread \in [Libraries -> ThreadStates]
    BY DEF TypeOK
  <1>2. ASSUME NEW pc \in {"idle", "check", "read", "update", "acquire", "release", "send", "cache"},
               Go(l, pc)
        PROVE  thread' \in [Libraries -> ThreadStates]
    <2>1. thread' = [thread EXCEPT ![l] = [thread[l] EXCEPT !.pc = pc]]
      BY <1>2 DEF Go
    <2>2. [thread[l] EXCEPT !.pc = pc] \in ThreadStates
      BY <1>1 DEF ThreadStates
    <2>3. QED
      BY <1>1, <2>1, <2>2
  <1>3. Idle \in ThreadStates
    BY DEF Idle, ThreadStates
  <1>4. QED
    BY <1>1, <1>2, <1>3 DEF Return

\* The types are kept.
LEMMA TypeStep ==
  ASSUME TypeOK, Serve
  PROVE  TypeOK'
  <1> USE DEF service, wake, info, Libraries
  <1>1. CASE StartClient
    <2>1. lock' \in BOOLEAN
      BY <1>1 DEF StartClient
    <2>2. QED
      BY <1>1, <2>1 DEF TypeOK, StartClient
  <1>2. CASE ClientDies
    BY <1>2 DEF TypeOK, ClientDies
  <1>3. CASE setCallback
    BY <1>3 DEF TypeOK, setCallback
  <1>4. CASE Resend
    BY <1>4 DEF TypeOK, Resend
  <1>5. CASE handleHidlDeath
    BY <1>5 DEF TypeOK, handleHidlDeath
  <1>6. CASE CloseOff
    BY <1>6 DEF TypeOK, CloseOff
  <1>7. CASE \E e \in Extensions : getExtension(e)
    BY <1>7 DEF TypeOK, getExtension
  <1>8. CASE initBatching
    BY <1>8 DEF TypeOK, initBatching
  <1>9. CASE \E o \in Operations : Start(o)
    BY <1>9 DEF TypeOK, Start
  <1>10. CASE \E o \in Operations : Stop(o)
    BY <1>10 DEF TypeOK, Stop
  <1>11. CASE \E l \in Libraries, b \in BOOLEAN : SetHeld(l, b)
    <2>1. thread' \in [Libraries -> ThreadStates]
      BY <1>11, ThreadMoves DEF SetHeld
    <2>2. QED
      BY <1>11, <2>1 DEF TypeOK, SetHeld
  <1>12. CASE \E l \in Libraries : Check(l)
    <2>1. thread' \in [Libraries -> ThreadStates]
      BY <1>12, ThreadMoves DEF Check
    <2>2. QED
      BY <1>12, <2>1 DEF TypeOK, Check
  <1>13. CASE \E l \in Libraries : Read(l)
    <2>1. PICK l \in Libraries : Read(l)
      BY <1>13
    <2>2. [thread[l] EXCEPT !.pc = "update", !.want = held["gps"] \/ held["flp"]] \in ThreadStates
      BY DEF TypeOK, ThreadStates
    <2>3. QED
      BY <2>1, <2>2 DEF TypeOK, Read
  <1>14. CASE \E l \in Libraries : Update(l)
    <2>1. PICK l \in Libraries : Update(l)
      BY <1>14
    <2>2. thread' \in [Libraries -> ThreadStates]
      BY <2>1, ThreadMoves DEF Update
    <2>3. sWakelockHeld' \in BOOLEAN
      BY <2>1 DEF Update, TypeOK, ThreadStates
    <2>4. QED
      BY <2>1, <2>2, <2>3 DEF TypeOK, Update
  <1>15. CASE \E l \in Libraries : CallClient(l)
    <2>1. PICK l \in Libraries : CallClient(l)
      BY <1>15
    <2>2. thread' \in [Libraries -> ThreadStates]
      BY <2>1, ThreadMoves DEF CallClient
    <2>3. QED
      BY <2>1, <2>2 DEF TypeOK, CallClient
  <1>16. CASE \E i \in Infos : TellInfo(i)
    <2>1. thread' \in [Libraries -> ThreadStates]
      <3>1. PICK i \in Infos : TellInfo(i)
        BY <1>16
      <3>2. thread' = [thread EXCEPT !["gps"] = [thread["gps"] EXCEPT !.pc = "send", !.info = i]]
        BY <3>1 DEF TellInfo
      <3>3. [thread["gps"] EXCEPT !.pc = "send", !.info = i] \in ThreadStates
        BY DEF TypeOK, ThreadStates
      <3>4. QED
        BY <3>2, <3>3 DEF TypeOK
    <2>2. QED
      BY <1>16, <2>1 DEF TypeOK, TellInfo
  <1>17. CASE SendInfo
    <2>1. [thread["gps"] EXCEPT !.pc = "cache", !.to = sGnssCbIface] \in ThreadStates
      BY DEF TypeOK, ThreadStates
    <2>2. QED
      BY <1>17, <2>1 DEF TypeOK, SendInfo
  <1>18. CASE CacheInfo
    <2>1. thread' \in [Libraries -> ThreadStates]
      BY <1>18, ThreadMoves DEF CacheInfo
    <2>2. QED
      BY <1>18, <2>1 DEF TypeOK, CacheInfo
  <1>19. CASE flpCapabilitiesCb
    BY <1>19 DEF TypeOK, flpCapabilitiesCb
  <1>20. QED
    BY <1>1, <1>2, <1>3, <1>4, <1>5, <1>6, <1>7, <1>8, <1>9, <1>10, <1>11, <1>12, <1>13, <1>14,
       <1>15, <1>16, <1>17, <1>18, <1>19 DEF Serve

\* The callback object stays that of the last client, or null.
LEMMA ClientStep ==
  ASSUME TypeOK, ClientInv, ~fault, Serve
  PROVE  ClientInv'
  <1> USE DEF service, wake, info
  <1>1. CASE StartClient
    BY <1>1 DEF TypeOK, ClientInv, StartClient
  <1>2. CASE ClientDies
    BY <1>2 DEF ClientInv, ClientDies
  <1>3. CASE setCallback
    BY <1>3 DEF ClientInv, setCallback
  <1>4. CASE Resend
    BY <1>4 DEF ClientInv, Resend
  <1>5. CASE handleHidlDeath
    BY <1>5 DEF ClientInv, handleHidlDeath
  <1>6. CASE CloseOff
    BY <1>6 DEF ClientInv, CloseOff
  <1>7. CASE \E l \in Libraries : CallClient(l)
    BY <1>7 DEF ClientInv, CallClient
  <1>8. CASE SendInfo
    BY <1>8 DEF ClientInv, SendInfo
  <1>9. CASE \/ \E e \in Extensions : getExtension(e)
             \/ initBatching
             \/ \E o \in Operations : Start(o)
             \/ \E o \in Operations : Stop(o)
             \/ \E l \in Libraries, b \in BOOLEAN : SetHeld(l, b)
             \/ \E l \in Libraries : Check(l)
             \/ \E l \in Libraries : Read(l)
             \/ \E l \in Libraries : Update(l)
             \/ \E i \in Infos : TellInfo(i)
             \/ CacheInfo
             \/ flpCapabilitiesCb
    <2>1. UNCHANGED <<sGnssCbIface, client, binder, fault>>
      BY <1>9 DEF getExtension, initBatching, Start, Stop, SetHeld, Check, Read, Update,
         TellInfo, CacheInfo, flpCapabilitiesCb
    <2>2. QED
      BY <2>1 DEF ClientInv
  <1>10. QED
    BY <1>1, <1>2, <1>3, <1>4, <1>5, <1>6, <1>7, <1>8, <1>9 DEF Serve

\* What runs was started by the last client: a death stops every extension that was
\* made, and the next client starts only once that was done.
LEMMA RunningStep ==
  ASSUME TypeOK, ClientInv, RunningInv, Serve
  PROVE  RunningInv'
  <1> USE DEF service, wake, info
  <1>1. CASE StartClient
    BY <1>1 DEF RunningInv, StartClient
  <1>2. CASE ClientDies
    BY <1>2 DEF RunningInv, ClientDies
  <1>3. CASE setCallback
    BY <1>3 DEF RunningInv, setCallback
  <1>4. CASE Resend
    BY <1>4 DEF RunningInv, Resend
  <1>5. CASE handleHidlDeath
    BY <1>5, GnssAssumption DEF RunningInv, handleHidlDeath, Operations
  <1>6. CASE CloseOff
    BY <1>6 DEF RunningInv, CloseOff
  <1>7. CASE \E e \in Extensions : getExtension(e)
    BY <1>7 DEF RunningInv, getExtension
  <1>8. CASE \E o \in Operations : Start(o)
    BY <1>8 DEF ClientInv, RunningInv, Start, Calling
  <1>9. CASE \E o \in Operations : Stop(o)
    BY <1>9 DEF RunningInv, Stop
  <1>10. CASE \/ initBatching
              \/ \E l \in Libraries, b \in BOOLEAN : SetHeld(l, b)
              \/ \E l \in Libraries : Check(l)
              \/ \E l \in Libraries : Read(l)
              \/ \E l \in Libraries : Update(l)
              \/ \E l \in Libraries : CallClient(l)
              \/ \E i \in Infos : TellInfo(i)
              \/ SendInfo
              \/ CacheInfo
              \/ flpCapabilitiesCb
    <2>1. UNCHANGED <<sGnssCbIface, client, binder, made, running>>
      BY <1>10 DEF initBatching, SetHeld, Check, Read, Update, CallClient, TellInfo, SendInfo,
         CacheInfo, flpCapabilitiesCb
    <2>2. QED
      BY <2>1 DEF RunningInv
  <1>11. QED
    BY <1>1, <1>2, <1>3, <1>4, <1>5, <1>6, <1>7, <1>8, <1>9, <1>10 DEF Serve

\* The client is told of what is cached, before it is cached or when it registers.
LEMMA CacheStep ==
  ASSUME TypeOK, ClientInv, CacheInv, Serve
  PROVE  CacheInv'
  <1> USE DEF service, wake, info
  <1>1. CASE StartClient
    BY <1>1 DEF TypeOK, CacheInv, StartClient, ThreadStates, Libraries
  <1>2. CASE ClientDies
    BY <1>2 DEF CacheInv, ClientDies
  <1>3. CASE Resend
    BY <1>3 DEF CacheInv, Resend
  <1>4. CASE \E l \in Libraries, b \in BOOLEAN : SetHeld(l, b)
    BY <1>4 DEF CacheInv, SetHeld, Go
  <1>5. CASE \E l \in Libraries : Check(l)
    BY <1>5 DEF TypeOK, CacheInv, Check, ThreadStates, Libraries, Idle, Go, Return
  <1>6. CASE \E l \in Libraries : Read(l)
    BY <1>6 DEF CacheInv, Read
  <1>7. CASE \E l \in Libraries : Update(l)
    BY <1>7 DEF TypeOK, CacheInv, Update, ThreadStates, Libraries, Idle, Go, Return
  <1>8. CASE \E l \in Libraries : CallClient(l)
    BY <1>8 DEF CacheInv, CallClient, Idle, Return
  <1>9. CASE \E i \in Infos : TellInfo(i)
    BY <1>9 DEF CacheInv, TellInfo
  <1>10. CASE SendInfo
    BY <1>10 DEF TypeOK, ClientInv, CacheInv, SendInfo, Alive
  <1>11. CASE CacheInfo
    BY <1>11 DEF ClientInv, CacheInv, CacheInfo, Idle, Return
  <1>12. CASE \/ setCallback
              \/ handleHidlDeath
              \/ CloseOff
              \/ \E e \in Extensions : getExtension(e)
              \/ initBatching
              \/ \E o \in Operations : Start(o)
              \/ \E o \in Operations : Stop(o)
              \/ flpCapabilitiesCb
    <2>1. UNCHANGED <<client, thread, cached, told, late>>
      BY <1>12 DEF setCallback, handleHidlDeath, CloseOff, getExtension, initBatching, Start,
         Stop, flpCapabilitiesCb
    <2>2. QED
      BY <2>1 DEF CacheInv
  <1>13. QED
    BY <1>1, <1>2, <1>3, <1>4, <1>5, <1>6, <1>7, <1>8, <1>9, <1>10, <1>11, <1>12 DEF Serve

\* As long as the libraries' updates do not overlap, an update acts on what both want.
LEMMA UpdateStep ==
  ASSUME TypeOK, UpdateInv, Serve
  PROVE  UpdateInv'
  <1> USE DEF service, wake, info
  <1>1. CASE CloseOff
    BY <1>1 DEF UpdateInv, CloseOff, Updating, Wanted
  <1>2. CASE \E l \in Libraries, b \in BOOLEAN : SetHeld(l, b)
    BY <1>2 DEF UpdateInv, SetHeld, Updating, Go
  <1>3. CASE \E l \in Libraries : Check(l)
    BY <1>3 DEF TypeOK, UpdateInv, Check, Updating, ThreadStates, Idle, Go, Return
  <1>4. CASE \E l \in Libraries : Read(l)
    BY <1>4 DEF TypeOK, UpdateInv, Read, Updating, Wanted, Libraries
  <1>5. CASE \E l \in Libraries : Update(l)
    BY <1>5 DEF TypeOK, UpdateInv, Update, Updating, Wanted, ThreadStates, Libraries, Idle, Go,
       Return
  <1>6. CASE \E l \in Libraries : CallClient(l)
    BY <1>6 DEF UpdateInv, CallClient, Updating, Wanted, Idle, Return
  <1>7. CASE \E i \in Infos : TellInfo(i)
    BY <1>7 DEF UpdateInv, TellInfo, Updating, Wanted
  <1>8. CASE SendInfo
    BY <1>8 DEF UpdateInv, SendInfo, Updating, Wanted
  <1>9. CASE CacheInfo
    BY <1>9 DEF UpdateInv, CacheInfo, Updating, Wanted, Idle, Return
  <1>10. CASE \/ StartClient
              \/ ClientDies
              \/ setCallback
              \/ Resend
              \/ handleHidlDeath
              \/ \E e \in Extensions : getExtension(e)
              \/ initBatching
              \/ \E o \in Operations : Start(o)
              \/ \E o \in Operations : Stop(o)
              \/ flpCapabilitiesCb
    <2>1. UNCHANGED <<thread, held, sWakelockHeld, missed>>
      BY <1>10 DEF StartClient, ClientDies, setCallback, Resend, handleHidlDeath, getExtension,
         initBatching, Start, Stop, flpCapabilitiesCb
    <2>2. QED
      BY <2>1 DEF UpdateInv, Updating, Wanted
  <1>11. QED
    BY <1>1, <1>2, <1>3, <1>4, <1>5, <1>6, <1>7, <1>8, <1>9, <1>10 DEF Serve

\* The client's lock follows sWakelockHeld, and sWakelockHeld what the libraries want.
LEMMA LockStep ==
  ASSUME TypeOK, ClientInv, UpdateInv, LockInv, Serve
  PROVE  LockInv'
  <1> USE DEF service, wake, info
  <1>1. CASE StartClient
    BY <1>1 DEF LockInv, StartClient, Updating, Wanted
  <1>2. CASE ClientDies
    BY <1>2 DEF LockInv, ClientDies, Updating, Wanted
  <1>3. CASE setCallback
    BY <1>3 DEF ClientInv, LockInv, setCallback, Updating, Wanted
  <1>4. CASE Resend
    BY <1>4 DEF LockInv, Resend, Updating, Wanted
  <1>5. CASE CloseOff
    BY <1>5 DEF ClientInv, LockInv, CloseOff, Updating, Wanted
  <1>6. CASE \E l \in Libraries, b \in BOOLEAN : SetHeld(l, b)
    BY <1>6 DEF TypeOK, LockInv, SetHeld, Updating, Go
  <1>7. CASE \E l \in Libraries : Check(l)
    BY <1>7 DEF TypeOK, LockInv, Check, Updating, ThreadStates, Libraries, Go
  <1>8. CASE \E l \in Libraries : Read(l)
    BY <1>8 DEF LockInv, Read, Updating
  <1>9. CASE \E l \in Libraries : Update(l)
    BY <1>9 DEF TypeOK, UpdateInv, LockInv, Update, Updating, Wanted, ThreadStates, Go
  <1>10. CASE \E l \in Libraries : CallClient(l)
    BY <1>10 DEF TypeOK, ClientInv, UpdateInv, LockInv, CallClient, Alive, Wanted
  <1>11. CASE \E i \in Infos : TellInfo(i)
    BY <1>11 DEF LockInv, TellInfo, Updating, Wanted
  <1>12. CASE SendInfo
    BY <1>12 DEF TypeOK, ClientInv, LockInv, SendInfo, Updating, Wanted
  <1>13. CASE CacheInfo
    BY <1>13 DEF LockInv, CacheInfo, Updating, Wanted, Return
  <1>14. CASE \/ handleHidlDeath
              \/ \E e \in Extensions : getExtension(e)
              \/ initBatching
              \/ \E o \in Operations : Start(o)
              \/ \E o \in Operations : Stop(o)
              \/ flpCapabilitiesCb
    <2>1. UNCHANGED <<sGnssCbIface, client, thread, held, sWakelockHeld, lock, missed, fault>>
      BY <1>14 DEF handleHidlDeath, getExtension, initBatching, Start, Stop, flpCapabilitiesCb
    <2>2. QED
      BY <2>1 DEF LockInv, Updating, Wanted
  <1>15. QED
    BY <1>1, <1>2, <1>3, <1>4, <1>5, <1>6, <1>7, <1>8, <1>9, <1>10, <1>11, <1>12, <1>13, <1>14
       DEF Serve

-----------------------------------------------------------------------------
\* The conversion of a report touches neither the client nor the wake lock.
LEMMA ConvertFrame ==
  Convert => UNCHANGED <<service, wake, info, thread, fault>>
BY DEF Convert, ReportClock, ReportGpsSv, ReportGnssSv, ReportLocation, ReportMeasurement,
   ReportGnssMeasurement, ReportBatch, ReportAgnss, Report

\* A step that leaves the client, the wake lock and the libraries' threads alone.
LEMMA InvFrame ==
  ASSUME Inv, UNCHANGED <<service, wake, info, thread, fault>>
  PROVE  Inv'
  <1> USE DEF Inv, service, wake, info
  <1>1. TypeOK' /\ ClientInv'
    BY DEF TypeOK, ClientInv
  <1>2. RunningInv' /\ CacheInv'
    BY DEF RunningInv, CacheInv
  <1>3. UpdateInv' /\ LockInv'
    BY DEF UpdateInv, LockInv, Updating, Wanted
  <1>4. QED
    BY <1>1, <1>2, <1>3

\* The invariant behind the two theorems below: it relates the client, what runs
\* for it and what it was told, and the flags of the wake lock, at every point a
\* client may die at.
THEOREM Inductive == Spec => []Inv
  <1>1. Init => Inv
    <2> SUFFICES ASSUME Init PROVE Inv
      OBVIOUS
    <2> USE DEF Init, Idle, Libraries
    <2>1. TypeOK
      <3>1. thread \in [Libraries -> ThreadStates]
        BY DEF ThreadStates
      <3>2. QED
        BY <3>1 DEF TypeOK
    <2>2. ClientInv /\ RunningInv
      BY DEF ClientInv, RunningInv
    <2>3. CacheInv /\ UpdateInv /\ LockInv
      BY DEF CacheInv, UpdateInv, LockInv, Updating, Wanted
    <2>4. QED
      BY <2>1, <2>2, <2>3 DEF Inv
  <1>2. Inv /\ [Next]_vars => Inv'
    <2> SUFFICES ASSUME Inv, [Next]_vars PROVE Inv'
      OBVIOUS
    <2>1. CASE ~fault /\ Serve
      BY <2>1, TypeStep, ClientStep, RunningStep, CacheStep, UpdateStep, LockStep DEF Inv
    <2>2. CASE Convert
      BY <2>2, ConvertFrame, InvFrame
    <2>3. CASE UNCHANGED vars
      BY <2>3, InvFrame DEF vars, service, wake, info
    <2>4. QED
      BY <2>1, <2>2, <2>3 DEF Next
  <1>3. QED
    BY <1>1, <1>2, PTL DEF Spec

\* A client that registers after the death of another, at whatever point of its
\* work and of the libraries' callbacks, finds nothing running but geofences, and
\* knows what the library has told of itself (handleHidlDeath(), setCallback()).
THEOREM RestartAlwaysClean == Spec => []RestartIsClean
  <1>1. Inv => RestartIsClean
    BY DEF Inv, RunningInv, CacheInv, RestartIsClean, Registered
  <1>2. QED
    BY <1>1, Inductive, PTL

\* Between two updates the client holds the wake lock if and only if a library
\* wants it, with the two exceptions the property names (updateWakelock()).
THEOREM WakelockAlwaysFollows == Spec => []WakelockFollows
  <1>1. Inv => WakelockFollows
    <2> SUFFICES ASSUME Inv, Registered, Updating = {}
                 PROVE  /\ lock /\ "overlap" \notin missed => Wanted
                        /\ Wanted /\ missed = {} => lock
      BY DEF WakelockFollows
    <2>1. ~fault /\ client.alive
      BY DEF Inv, ClientInv, Registered
    <2>2. \A l \in Libraries : thread[l].pc # "acquire"
      BY DEF Updating
    <2>3. QED
      BY <2>1, <2>2 DEF Inv, LockInv
  <1>2. QED
    BY <1>1, Inductive, PTL

-----------------------------------------------------------------------------
(***************************************************************************)
(* The conversions, for any report; a batch of any length and any limit.    *)
(***************************************************************************)

\* Two satellites that look the same to the client are one, and the number is in
\* the range of its constellation.
LEMMA SvFaithful ==
  ASSUME NEW sent \in 0 .. 240, NEW masks
  PROVE  LET shown == gpsSv(sent, masks)
         IN  /\ \A prn \in 0 .. 240 : SvOfPrn(prn) = shown.sv => prn = sent
             /\ shown.sv.svid \in CASE shown.sv.constellation = "GPS" -> 1 .. 32
                                    [] shown.sv.constellation = "GLONASS" -> 1 .. 24
                                    [] shown.sv.constellation = "BEIDOU" -> 1 .. 37
                                    [] shown.sv.constellation = "SBAS" -> 120 .. 151
                                    [] shown.sv.constellation = "QZSS" -> 193 .. 200
                                    [] OTHER -> Int
             /\ shown.flags # {} => shown.sv.constellation = "GPS"
  <1> USE DEF Sv, GLONASS_SVID_OFFSET, GLONASS_SVID_COUNT, BEIDOU_SVID_OFFSET, BEIDOU_SVID_COUNT,
             SBAS_SVID_ADD
  <1> DEFINE sv == SvOfPrn(sent)
  <1>1. gpsSv(sent, masks).sv = sv
    BY DEF gpsSv
  <1>2. gpsSv(sent, masks).flags # {} => sv.constellation = "GPS"
    BY DEF gpsSv
  <1>3. \A prn \in 0 .. 240 : SvOfPrn(prn) = sv => prn = sent
    BY DEF SvOfPrn
  <1>4. sv.svid \in CASE sv.constellation = "GPS" -> 1 .. 32
                      [] sv.constellation = "GLONASS" -> 1 .. 24
                      [] sv.constellation = "BEIDOU" -> 1 .. 37
                      [] sv.constellation = "SBAS" -> 120 .. 151
                      [] sv.constellation = "QZSS" -> 193 .. 200
                      [] OTHER -> Int
    BY DEF SvOfPrn
  <1>5. QED
    BY <1>1, <1>2, <1>3, <1>4

\* GPS time comes out as it went in, whatever the clock of the library reads.
LEMMA ClockFaithful ==
  ASSUME NEW n, NEW type, NEW flags, NEW time \in Int, NEW fullBias \in Int, NEW bias \in Int,
         NEW c, c = [type |-> type, flags |-> flags, time |-> time, fullBias |-> fullBias,
                     bias |-> bias]
  PROVE  /\ TimeOfGnssClock(gpsClock(c, n)) = TimeOfGpsClock(c)
         /\ c.type = "GPS_TIME" => gpsClock(c, n).discontinuity = n
BY DEF gpsClock, TimeOfGnssClock, TimeOfGpsClock

-----------------------------------------------------------------------------
\* A set of numbers that is not empty has a least one.
LEMMA LeastElement ==
  ASSUME NEW T \in SUBSET Nat, T # {}
  PROVE  \E x \in T : \A y \in T : x <= y
  <1>1. PICK x \in T : \A y \in T : ~(<<y, x>> \in OpToRel(<, Nat))
    BY NatLessThanWellFounded, WFMin
  <1>2. \A y \in T : x <= y
    <2> SUFFICES ASSUME NEW y \in T PROVE x <= y
      OBVIOUS
    <2>1. ~(y < x)
      BY <1>1 DEF OpToRel
    <2>2. QED
      BY <2>1
  <1>3. QED
    BY <1>2

\* One iteration of the loop of locationCb().
BatchStep(locations, batch, i) ==
  IF i = 0 THEN << >>
  ELSE IF Taken(locations[i]) THEN Append(batch[i - 1], convertToGnssLocation(locations[i]))
  ELSE batch[i - 1]

\* After n iterations, batch has the locations after each of them.
IsBatch(locations, n, batch) == batch = [i \in 0 .. n |-> BatchStep(locations, batch, i)]

\* The loop can go on for one more iteration.
LEMMA BatchExtend ==
  ASSUME NEW locations, NEW n \in Nat, NEW g, IsBatch(locations, n, g)
  PROVE  \E h : IsBatch(locations, n + 1, h)
  <1> DEFINE h == [i \in 0 .. n + 1 |-> IF i <= n THEN g[i] ELSE BatchStep(locations, g, n + 1)]
  <1>1. \A i \in 0 .. n + 1 : h[i] = BatchStep(locations, h, i)
    <2> SUFFICES ASSUME NEW i \in 0 .. n + 1 PROVE h[i] = BatchStep(locations, h, i)
      OBVIOUS
    <2>1. i # 0 => i - 1 \in 0 .. n + 1 /\ h[i - 1] = g[i - 1]
      OBVIOUS
    <2>2. BatchStep(locations, h, i) = BatchStep(locations, g, i)
      BY <2>1 DEF BatchStep
    <2>3. i <= n => g[i] = BatchStep(locations, g, i)
      BY DEF IsBatch
    <2>4. i > n => i = n + 1
      OBVIOUS
    <2>5. QED
      BY <2>2, <2>3, <2>4
  <1>2. h = [i \in 0 .. n + 1 |-> BatchStep(locations, h, i)]
    <2> HIDE DEF h
    <2>1. DOMAIN h = 0 .. n + 1
      BY DEF h
    <2>2. h = [i \in 0 .. n + 1 |-> h[i]]
      BY <2>1 DEF h
    <2>3. QED
      BY <1>1, <2>2
  <1>3. QED
    BY <1>2 DEF IsBatch

\* The recursive function in locationBatch exists.
LEMMA BatchExists ==
  ASSUME NEW locations, NEW n \in Nat
  PROVE  \E g : IsBatch(locations, n, g)
  <1> DEFINE Bad == {m \in Nat : ~\E g : IsBatch(locations, m, g)}
  <1>1. SUFFICES ASSUME Bad # {} PROVE FALSE
    OBVIOUS
  <1>2. PICK m \in Bad : \A k \in Bad : m <= k
    BY <1>1, LeastElement
  <1>3. CASE m = 0
    <2>1. IsBatch(locations, 0, [i \in 0 .. 0 |-> << >>])
      BY DEF IsBatch, BatchStep
    <2>2. QED
      BY <1>2, <1>3, <2>1
  <1>4. CASE m # 0
    <2>1. m - 1 \in Nat /\ m - 1 \notin Bad /\ (m - 1) + 1 = m
      BY <1>2, <1>4
    <2>2. PICK g : IsBatch(locations, m - 1, g)
      BY <2>1
    <2>3. \E h : IsBatch(locations, m, h)
      BY <2>1, <2>2, BatchExtend
    <2>4. QED
      BY <1>2, <2>3
  <1>5. QED
    BY <1>3, <1>4

\* The count is cut off at both ends.
LEMMA LooksAtBound ==
  ASSUME NEW count \in Int
  PROVE  /\ LooksAt(count) \in Nat /\ LooksAt(count) <= MaxBatch
         /\ \A i \in 1 .. MaxBatch : i \in 1 .. LooksAt(count) <=> i <= count
BY BatchAssumption DEF LooksAt

\* What the loop has built after n locations: those that were taken, in their
\* order, whose numbers are their places.
BatchUpTo(locations, n, batch) ==
  /\ batch \in Seq([id : Int, flags : SUBSET LocationFlags])
  /\ Len(batch) <= n
  /\ \A i \in 1 .. Len(batch) : batch[i].id \in 1 .. n /\ Taken(locations[batch[i].id])
  /\ \A i, j \in 1 .. Len(batch) : i < j => batch[i].id < batch[j].id
  /\ \A k \in 1 .. n : Taken(locations[k]) => \E i \in 1 .. Len(batch) : batch[i].id = k

\* One more iteration.
LEMMA BatchAppend ==
  ASSUME NEW locations, NEW n \in Nat, NEW batch, BatchUpTo(locations, n, batch),
         NEW l, l = locations[n + 1], Taken(l) => l.id = n + 1
  PROVE  BatchUpTo(locations, n + 1,
                   IF Taken(l) THEN Append(batch, convertToGnssLocation(l)) ELSE batch)
  <1> DEFINE r == convertToGnssLocation(l)
             D == [id : Int, flags : SUBSET LocationFlags]
             m == Len(batch)
  <1>1. batch \in Seq(D) /\ m \in Nat /\ m <= n
    BY LenProperties DEF BatchUpTo
  <1>2. CASE Taken(l)
    <2>1. r.id = n + 1 /\ r \in D
      BY <1>2 DEF convertToGnssLocation, flpLocationFlags
    <2> HIDE DEF D, r
    <2> DEFINE b == Append(batch, r)
    <2>2. /\ b \in Seq(D) /\ Len(b) = m + 1
          /\ \A i \in 1 .. m : b[i] = batch[i]
          /\ b[m + 1] = r
      BY <1>1, <2>1, AppendProperties
    <2> HIDE DEF b
    <2>3. \A i \in 1 .. m : batch[i].id \in 1 .. n /\ Taken(locations[batch[i].id])
      BY DEF BatchUpTo
    <2>4. \A i \in 1 .. m + 1 : b[i].id \in 1 .. n + 1 /\ Taken(locations[b[i].id])
      <3> SUFFICES ASSUME NEW i \in 1 .. m + 1
                   PROVE  b[i].id \in 1 .. n + 1 /\ Taken(locations[b[i].id])
        OBVIOUS
      <3>1. CASE i \in 1 .. m
        BY <3>1, <2>2, <2>3
      <3>2. CASE i = m + 1
        BY <3>2, <1>2, <2>1, <2>2
      <3>3. QED
        BY <1>1, <3>1, <3>2
    <2>5. \A i, j \in 1 .. m + 1 : i < j => b[i].id < b[j].id
      <3> SUFFICES ASSUME NEW i \in 1 .. m + 1, NEW j \in 1 .. m + 1, i < j
                   PROVE  b[i].id < b[j].id
        OBVIOUS
      <3>1. i \in 1 .. m /\ (j \in 1 .. m \/ j = m + 1)
        BY <1>1
      <3>2. CASE j \in 1 .. m
        BY <3>1, <3>2, <2>2 DEF BatchUpTo
      <3>3. CASE j = m + 1
        BY <3>1, <3>3, <2>1, <2>2, <2>3
      <3>4. QED
        BY <3>1, <3>2, <3>3
    <2>6. \A k \in 1 .. n + 1 : Taken(locations[k]) => \E i \in 1 .. m + 1 : b[i].id = k
      <3> SUFFICES ASSUME NEW k \in 1 .. n + 1, Taken(locations[k])
                   PROVE  \E i \in 1 .. m + 1 : b[i].id = k
        OBVIOUS
      <3>1. CASE k \in 1 .. n
        <4>1. PICK i \in 1 .. m : batch[i].id = k
          BY <3>1 DEF BatchUpTo
        <4>2. QED
          BY <1>1, <4>1, <2>2
      <3>2. CASE k = n + 1
        BY <1>1, <3>2, <2>1, <2>2
      <3>3. QED
        BY <3>1, <3>2
    <2>7. BatchUpTo(locations, n + 1, b)
      BY <1>1, <2>2, <2>4, <2>5, <2>6 DEF BatchUpTo, D
    <2>8. QED
      BY <1>2, <2>7 DEF b, r
  <1>3. CASE ~Taken(l)
    <2>1. \A k \in 1 .. n + 1 : Taken(locations[k]) => k \in 1 .. n
      BY <1>3
    <2>2. BatchUpTo(locations, n + 1, batch)
      BY <1>1, <2>1 DEF BatchUpTo
    <2>3. QED
      BY <1>3, <2>2
  <1>4. QED
    BY <1>2, <1>3

\* The whole loop, by the first iteration after which the claim would fail.
LEMMA BatchFaithful ==
  ASSUME NEW count \in Int, NEW locations,
         \A i \in 1 .. LooksAt(count) :
           Taken(locations[i]) => locations[i].id = i
  PROVE  BatchUpTo(locations, LooksAt(count), locationBatch(count, locations))
  <1>1. PICK n \in Nat : n = LooksAt(count)
    BY LooksAtBound
  <1>2. PICK g : IsBatch(locations, n, g) /\ locationBatch(count, locations) = g[n]
    <2>1. PICK g : IsBatch(locations, n, g)
      BY BatchExists
    <2>2. g = [i \in 0 .. LooksAt(count) |->
                 IF i = 0 THEN << >>
                 ELSE IF Taken(locations[i])
                      THEN Append(g[i - 1], convertToGnssLocation(locations[i]))
                 ELSE g[i - 1]]
      BY <1>1, <2>1 DEF IsBatch, BatchStep
    <2>3. \E h : /\ h = [i \in 0 .. LooksAt(count) |->
                           IF i = 0 THEN << >>
                           ELSE IF Taken(locations[i])
                                THEN Append(h[i - 1], convertToGnssLocation(locations[i]))
                           ELSE h[i - 1]]
                 /\ locationBatch(count, locations) = h[LooksAt(count)]
      BY <2>2, Zenon DEF locationBatch
    <2>4. QED
      BY <1>1, <2>3 DEF IsBatch, BatchStep
  <1>3. \A i \in 0 .. n : g[i] = BatchStep(locations, g, i)
    BY <1>2 DEF IsBatch
  <1> DEFINE Bad == {i \in 0 .. n : ~BatchUpTo(locations, i, g[i])}
  <1>4. SUFFICES ASSUME Bad # {} PROVE FALSE
    BY <1>1, <1>2
  <1>5. PICK i \in Bad : \A j \in Bad : i <= j
    <2>1. Bad \in SUBSET Nat
      OBVIOUS
    <2>2. QED
      BY <1>4, <2>1, LeastElement
  <1>6. CASE i = 0
    <2>1. g[0] = << >>
      BY <1>3 DEF BatchStep
    <2>2. BatchUpTo(locations, 0, g[0])
      BY <2>1 DEF BatchUpTo
    <2>3. QED
      BY <1>5, <1>6, <2>2
  <1>7. CASE i # 0
    <2>1. i - 1 \in 0 .. n /\ i \in 1 .. n /\ (i - 1) + 1 = i
      BY <1>5, <1>7
    <2>2. BatchUpTo(locations, i - 1, g[i - 1])
      BY <1>5, <2>1
    <2>3. g[i] = IF Taken(locations[i])
                 THEN Append(g[i - 1], convertToGnssLocation(locations[i])) ELSE g[i - 1]
      BY <1>3, <2>1 DEF BatchStep
    <2>4. Taken(locations[i]) => locations[i].id = i
      BY <1>1, <2>1
    <2>5. BatchUpTo(locations, i, g[i])
      BY <2>1, <2>2, <2>3, <2>4, BatchAppend
    <2>6. QED
      BY <1>5, <2>5
  <1>8. QED
    BY <1>6, <1>7

-----------------------------------------------------------------------------
\* The discontinuities are counted, and the last report was converted faithfully.
ReportInv == discontinuities \in Nat /\ ConversionsFaithful

\* Reports of satellites and locations.
LEMMA SvReports ==
  ASSUME ReportInv, UNCHANGED discontinuities, ReportGpsSv \/ ReportGnssSv \/ ReportLocation
  PROVE  ReportInv'
  <1>1. CASE ReportGpsSv
    <2>1. PICK prn \in Prns : report' = [kind |-> "sv", sent |-> prn, shown |-> gpsSv(prn, Masks)]
      BY <1>1 DEF ReportGpsSv, Report
    <2>2. prn \in 0 .. 240
      BY DEF Prns
    <2>3. QED
      BY <2>1, <2>2, SvFaithful, ZenonT(30) DEF ReportInv, ConversionsFaithful
  <1>2. CASE ReportGnssSv
    BY <1>2 DEF ReportGnssSv, Report, ReportInv, ConversionsFaithful, gnssSvFlags
  <1>3. CASE ReportLocation
    BY <1>3 DEF ReportLocation, Report, ReportInv, ConversionsFaithful, gpsLocationFlags
  <1>4. QED
    BY <1>1, <1>2, <1>3

\* Reports of measurements and of the state of assisted GNSS.
LEMMA MeasurementReports ==
  ASSUME ReportInv, UNCHANGED discontinuities,
         ReportMeasurement \/ ReportGnssMeasurement \/ ReportAgnss
  PROVE  ReportInv'
  <1>1. CASE ReportMeasurement
    <2>1. PICK prn \in {0, 32, 33}, flags \in {{}, {"SNR"}, Optional}, garbage \in {0, 5} :
            LET m == [prn |-> prn, flags |-> flags, value |-> [f \in Optional |-> 7]]
            IN  report' = [kind |-> "measurement", sent |-> m,
                           shown |-> gpsMeasurement(m, garbage)]
      BY <1>1 DEF ReportMeasurement, Report
    <2>2. \A f \in Optional \ {"CARRIER_CYCLES"} :
            report'.shown.value[f] = IF f \in report'.sent.flags THEN report'.sent.value[f] ELSE 0
      BY <2>1 DEF gpsMeasurement, Assigned
    <2>3. report'.kind = "measurement"
      BY <2>1
    <2>4. QED
      BY <2>2, <2>3 DEF ReportInv, ConversionsFaithful
  <1>2. CASE ReportGnssMeasurement
    BY <1>2 DEF ReportGnssMeasurement, Report, ReportInv, ConversionsFaithful, gnssMeasurementState
  <1>3. CASE ReportAgnss
    <2>1. PICK s \in [size : {"AGpsStatus", "AGpsStatus_v2", "short"},
                      family : {"AF_INET", "AF_INET6", "other"}, type : {"SUPL", "C2K"}] :
            report' = [kind |-> "agnss", sent |-> s, shown |-> agnssStatus(s)]
      BY <1>3 DEF ReportAgnss, Report
    <2>2. agnssStatus(s).callback # "none" =>
            /\ agnssStatus(s).callback = "IpV6" => s.family = "AF_INET6"
            /\ s.size = "AGpsStatus" => agnssStatus(s).type = s.type
      BY DEF agnssStatus
    <2>3. QED
      BY <2>1, <2>2 DEF ReportInv, ConversionsFaithful
  <1>4. QED
    BY <1>1, <1>2, <1>3

\* Reports of the clock, which count the discontinuities.
LEMMA ClockReports ==
  ASSUME ReportInv, ReportClock
  PROVE  ReportInv'
  <1>1. PICK c \in Clocks :
          /\ report' = [kind |-> "clock", sent |-> c, shown |-> gpsClock(c, discontinuities)]
          /\ discontinuities' = IF c.type = "GPS_TIME" THEN discontinuities + 1
                                ELSE discontinuities
    BY DEF ReportClock, Report
  <1>2. /\ c = [type |-> c.type, flags |-> c.flags, time |-> c.time, fullBias |-> c.fullBias,
               bias |-> c.bias]
        /\ c.time \in Int /\ c.fullBias \in Int /\ c.bias \in Int
    BY DEF Clocks
  <1>3. /\ TimeOfGnssClock(gpsClock(c, discontinuities)) = TimeOfGpsClock(c)
        /\ c.type = "GPS_TIME" => gpsClock(c, discontinuities).discontinuity = discontinuities
    BY <1>2, ClockFaithful
  <1>4. c.type = "GPS_TIME" => discontinuities = discontinuities' - 1
    BY <1>1 DEF ReportInv
  <1>5. discontinuities' \in Nat
    BY <1>1 DEF ReportInv
  <1>6. QED
    BY <1>1, <1>3, <1>4, <1>5 DEF ReportInv, ConversionsFaithful

\* Reports of batches.
LEMMA BatchReports ==
  ASSUME ReportInv, UNCHANGED discontinuities, ReportBatch
  PROVE  ReportInv'
  <1>1. PICK batch \in [1 .. MaxBatch + 1 -> Locations],
             count \in {-1, 0, 1, MaxBatch, MaxBatch + 1} :
          LET numbered == [i \in DOMAIN batch |->
                             IF batch[i].kind = "null" THEN batch[i]
                             ELSE [batch[i] EXCEPT !.id = i]]
          IN  report' = [kind |-> "batch", sent |-> [count |-> count, locations |-> numbered],
                         shown |-> locationBatch(count, numbered)]
    BY DEF ReportBatch, Report
  <1> DEFINE numbered == [i \in DOMAIN batch |->
                            IF batch[i].kind = "null" THEN batch[i]
                            ELSE [batch[i] EXCEPT !.id = i]]
             shown == locationBatch(count, numbered)
             n == LooksAt(count)
  <1>2. count \in Int /\ n \in Nat /\ n <= MaxBatch
    <2>1. count \in Int
      BY BatchAssumption
    <2>2. QED
      BY <2>1, LooksAtBound
  <1>3. \A i \in 1 .. MaxBatch + 1 :
          /\ numbered[i].kind # "null" =>
               /\ numbered[i].id = i
               /\ numbered[i].sources \in {{"GNSS"}, {"WIFI"}}
    <2> SUFFICES ASSUME NEW i \in 1 .. MaxBatch + 1, numbered[i].kind # "null"
                 PROVE  /\ numbered[i].id = i
                        /\ numbered[i].sources \in {{"GNSS"}, {"WIFI"}}
      OBVIOUS
    <2>1. batch[i] \in Locations /\ DOMAIN batch = 1 .. MaxBatch + 1
      OBVIOUS
    <2>2. batch[i] \in [kind : {"location"}, id : {1}, sources : {{"GNSS"}, {"WIFI"}},
                        flags : {{"LAT_LONG"}}]
      BY <2>1 DEF Locations
    <2>3. numbered[i] = [batch[i] EXCEPT !.id = i]
      BY <2>1, <2>2
    <2> HIDE DEF numbered
    <2>4. QED
      BY <2>2, <2>3
  <1>4. \A i \in 1 .. MaxBatch + 1 :
          Taken(numbered[i]) <=> numbered[i].kind # "null" /\ numbered[i].sources = {"GNSS"}
    BY <1>3 DEF Taken, Sources
  <1> HIDE DEF numbered
  <1>5. BatchUpTo(numbered, n, shown)
    BY <1>2, <1>3, BatchAssumption, BatchFaithful DEF Taken
  <1> HIDE DEF shown, n
  <1> DEFINE ids == [i \in DOMAIN shown |-> shown[i].id]
  <1>6. DOMAIN shown = 1 .. Len(shown) /\ Len(shown) \in Nat
    BY <1>5, LenProperties DEF BatchUpTo
  <1>7. Len(shown) <= MaxBatch
    BY <1>2, <1>5, <1>6, BatchAssumption DEF BatchUpTo
  <1>8. \A i, j \in DOMAIN ids : i < j => ids[i] < ids[j]
    BY <1>5, <1>6 DEF BatchUpTo
  <1>9. Range(ids) = {i \in 1 .. n : Taken(numbered[i])}
    BY <1>5, <1>6 DEF BatchUpTo, Range
  <1>10. {i \in 1 .. n : Taken(numbered[i])} =
           {i \in 1 .. MaxBatch : /\ i <= count
                                  /\ numbered[i].kind # "null"
                                  /\ numbered[i].sources = {"GNSS"}}
    <2>1. \A i \in 1 .. MaxBatch : i \in 1 .. n <=> i <= count
      BY <1>2, LooksAtBound DEF n
    <2>2. 1 .. n \subseteq 1 .. MaxBatch
      BY <1>2, BatchAssumption
    <2>3. QED
      BY <1>4, <2>1, <2>2, BatchAssumption
  <1>11. report' = [kind |-> "batch", sent |-> [count |-> count, locations |-> numbered],
                    shown |-> shown]
    BY <1>1 DEF numbered, shown
  <1>12. QED
    BY <1>7, <1>8, <1>9, <1>10, <1>11 DEF ReportInv, ConversionsFaithful

\* Whatever the libraries report, the client is shown what was meant: satellites
\* stay apart, GPS time survives the change of signs and of the clock's type, a
\* batch of any length keeps its order and loses only what was not asked for
\* (the callbacks of gnss/).
THEOREM ConversionsAlwaysFaithful == Spec => []ConversionsFaithful
  <1>1. Init => ReportInv
    BY DEF Init, NoReport, ReportInv, ConversionsFaithful
  <1>2. ReportInv /\ [Next]_vars => ReportInv'
    <2> SUFFICES ASSUME ReportInv, [Next]_vars PROVE ReportInv'
      OBVIOUS
    <2>1. CASE Forget
      BY <2>1 DEF Forget, NoReport, ReportInv, ConversionsFaithful
    <2>2. CASE Convert
      BY <2>2, SvReports, MeasurementReports, ClockReports, BatchReports DEF Convert
    <2>3. CASE UNCHANGED vars
      BY <2>3 DEF vars, ReportInv, ConversionsFaithful
    <2>4. QED
      BY <2>1, <2>2, <2>3 DEF Next
  <1>3. ReportInv => ConversionsFaithful
    BY DEF ReportInv
  <1>4. QED
    BY <1>1, <1>2, <1>3, PTL DEF Spec
=============================================================================
