# TLA+ models of the apq8084-common device tree

The repository holds the hardware layers that the Samsung apq8084 devices need beside the
vendor's closed libraries. This directory models the parts of it that keep state and have more
than one thread: the sensors multihal, the radio interface layer (RIL) with its requests, payloads
and SIM access profile, the fingerprint HAL and the GNSS service. TLC checks the models on small
instances; TLAPS proves that the sensors' event path implements a FIFO stream, and every safety property
that a passing run checks, for every number of threads, clients, requests and cells, every vendor version
and every length of payload.

## 1. The system

| Part | State | Operations | Talks to |
|---|---|---|---|
| Sensors multihal, event path (`sensors/multihal.cpp`, `SensorEventQueue.cpp`) | one ring per sub-HAL, `queue_mutex`, two kinds of condition variable, `waiting_for_data`, the reader's turn | `writerTask()` per sub-HAL, `poll()` of the framework | sub-HAL `poll()`, sensors service |
| Sensors multihal, handles | loaded modules, opened devices, two handle maps, the sensor list | `get_sensors_list`, `open`, `activate`, `setDelay`, `batch`, `flush` | sub-HALs |
| RIL service (`ril/libril/ril_service.cpp`, `ril.cpp`) | callback objects per service, a counter per service, `radioServiceRwlock`, list of pending requests | requests of the client, `setResponseFunctions`, vendor's `RIL_onRequestComplete`, `RIL_onRequestAck`, `RIL_onUnsolicitedResponse` | telephony process (may die and restart), vendor library (several threads) |
| RIL wake lock and NITZ (`ril.cpp`) | wake lock, its count, the last timer, the kept NITZ time | indications, acknowledgements, timeouts, resending | event loop, client |
| RIL event loop (`ril_event.cpp`) | watch table, timer list, pending list | `ril_event_add`, `ril_timer_add`, the loop | everything in `ril.cpp` |
| RIL conversions (`ril_service.cpp`, `ril_commands.h`) | none | some 150 requests, as many responses, 50 indications | client, vendor |
| SIM access profile (`RilSapSocket.cpp`, `sap_service.cpp`) | queue of dispatched requests, callback | requests, responses, disconnects | client, vendor |
| Fingerprint HAL (`fingerprint.c`, `fingerprint_tz.c`) | a state word, four mutexes, two conditions, worker and timeout threads, a signal handler | enroll, authenticate, cancel, timeout | trustlet, framework |
| GNSS service (`gnss/`) | one callback interface per extension, wake lock flags | vendor callbacks, client calls, client death | vendor GPS library |
| Camera wrapper (`camera/`) | global user callbacks, parameters | pass-through calls | vendor camera HAL |
| The rest | tables, properties, firmware, configuration | | |

What is hard in this code, and what makes each part right:

* **Event path.** The sub-HAL fills its region of the ring with no mutex held while `poll()` takes
  events from the same ring. Right means: a cell being written is never readable, every sub-HAL's
  events come out once and in order, nobody sleeps when there is something to do, and no sub-HAL is
  starved.
* **Handles.** Modules load or fail one by one and are found later by index. Right means: a call by
  handle reaches the sub-HAL that listed the sensor.
* **Client and service lock.** The client dies at any time; the thread that notices exchanges a read
  lock for a write lock and so lets others in between. Right means: the objects are replaced
  exclusively, only a dead client is forgotten, a dead one is forgotten in the end, no lock call
  fails, no request is answered twice.
* **Wake lock.** Timers are cancelled by writing into them, partly without a mutex. Right means: the
  wake lock is never held with no timer that will release it.
* **NITZ.** A time that no client was there to take is kept and sent at the next connection. Right
  means: it is delivered, and once.
* **Conversions.** Some 130 methods copy their arguments with an exit of its own after each copy; as
  many response functions, near copies of each other, are joined to them by a table, and tell payloads
  apart by length. Right means: no exit frees too much or too little, each call is answered once and by
  its own callback, nothing is read past the payload, what `ril.h` documents is accepted, and units,
  layouts and lengths survive.
* **SIM access profile.** Nothing but the queue is locked; the callback object comes and goes. Right
  means: a completion frees what belongs to it, every request is answered, through its own callback.
* **Fingerprint.** Client, worker, timeout thread and signal handler share one state word that each
  tests and sets in separate steps. Right means: calls return, the trustlet is open while a session
  uses it, and the finger reported or stored is the right one.
* **GNSS.** Callbacks of two libraries and the death of the client meet in static variables with no lock
  at all. Right means: the merged wake lock follows the libraries, a new client inherits nothing, and the
  conversion from the old to the new interface keeps the meaning of every value.

The hazards are listed, each with the line where it bites, in `PROJECT.json`.

## 2. Modules

| Module | Models |
|---|---|
| `SensorEventQueue` | arithmetic of the ring: `getWritableRegion`, `dequeue`, `peek` |
| `MultiHalPoll` | `writerTask()` and `poll()` around the rings |
| `SensorStream` | abstract specification: one FIFO stream per sub-HAL |
| `MultiHalStream` | the refinement mapping from `MultiHalPoll` to `SensorStream` |
| `MCMultiHalPoll` | small instances of both |
| `MultiHalHandles`, `MCMultiHalHandles` | loading, handle maps, opening, routing |
| `RadioService`, `MCRadioService` | client, service lock, `checkReturnStatus()`, requests |
| `RilUnsol`, `MCRilUnsol` | `RIL_onUnsolicitedResponse()`: wake lock, timers, NITZ |
| `RilTables` | tables by name, put together from parts |
| `RilDispatch` | the methods of `IRadio` and `IOemHook`, each as a program of allocations, checks and exits |
| `RilStructs` | sizes of the structures of `ril.h` on a 32-bit build |
| `RilPayload` | what a function accepts and reads of a payload of a given length |
| `RilResponses`, `RilIndications` | the tables of `ril_commands.h` and `ril_unsol_commands.h`, with callback and payload of every function |
| `RilConvert` | signals, data calls, cell identities, CDMA messages and records, supplementary services |
| `RilRequests`, `MCRilRequests` | a request from the call to the answer, and indications, over all these tables |
| `SapService`, `MCSapService` | the SIM access profile |
| `Fingerprint`, `MCFingerprint` | the sessions of the fingerprint HAL |
| `GnssConvert` | conversions of the GNSS service |
| `Gnss`, `MCGnss` | callback interface, client death, wake lock, extensions |
| `MultiHalPollProofs` | lemmas and theorems about `MultiHalPoll`, and the refinement of `MultiHalStream` |
| `MultiHalHandlesProofs`, `RadioServiceProofs`, `RilUnsolProofs`, `RilRequestsProofs`, `SapServiceProofs`, `FingerprintProofs`, `GnssProofs` | lemmas and theorems about the module they are named after |

**MultiHalPoll.** `mStart`, `mSize`, `mData` are the fields of the queues, indexed by sub-HAL. A
writer's critical sections are one step each: `WriterWaitForSpace` and `WriterGetRegion` (the two
outcomes of `waitForSpace`), `WriterMark` (`markAsWritten` and the broadcast). Between them the
sub-HAL stores one event per step (`SubPollStore`), since it holds no mutex. `poll()` holds the mutex
over its whole scan, but the scan is one step per queue so that the sub-HALs' stores fall between its
reads. `lockedByReader` is the mutex as far as it is held across steps. Both `pthread_cond_wait` calls
may wake spuriously. A normal event names its sensor in `sensor`; a meta-data event has `sensor = 0` and
names it in its payload (`inner`), as `copy_event_remap_handle` distinguishes them; `poll()` looks at
the outer field only, so a meta-data event about an unknown sensor goes upstream naming sensor -1, which
the model keeps. The model's
`Capacity` is `SENSOR_EVENT_QUEUE_CAPACITY` (36), which is also what each writer asks for.

**MultiHalHandles.** `lazy_init_modules` and `lazy_init_sensors_list` run under a mutex and happen
once; whichever of `open` and `get_sensors_list` comes first loads the modules. Which entries of the config
file load (`ok`) and which of the loaded modules open (`opens`) are arbitrary sets of indices; `Kept` is the
loop that both share, which appends an element to a vector if its attempt succeeded. `crashed` says that a null device was dereferenced. `batch()` on these
sub-HALs ends in `setDelay()`, so one action stands for all calls by handle.

**RadioService.** Each thread is at a place `pc` of one job: a response, an acknowledgement, an
indication, a NITZ indication (which takes the write lock), an error response (which takes none), or
the registration of a client. `Call` is the call of the client's object; it fails exactly if that
client's process is gone. `ReleaseForWrite`, `AcquireForReset`, `Reset`, `ReacquireRead` are the four
lock operations of `checkReturnStatus()`. `readHeld` records the read holds per thread only to say who
holds what: an unlock by a thread without a hold takes somebody else's, as the C library's counter
does, and fails (an `assert()`) if there is none. After a failed assertion nothing is modelled.
`ErrorsToDead` switches on the case that an error response meets a dead client.

**RilUnsol.** A timer is a block of memory (`Slots`) that is free, pending or firing; a new timer takes
the first free block, so an address is reused as soon as it can be. `userParam` is the field by which a
timer is cancelled. The event loop's handling of a timer is four steps, since it takes no mutex:
reading the parameter, the callback, the look at `s_last_wake_timeout_info`, the clearing and the
freeing. A thread starts its timer (`GrabWithTimer` since version 13, `Schedule` before), tests
`s_last_wake_timeout_info` (`TestLast`), writes through what it saw (`CancelPrevious`) and publishes its own
timer (`Publish`); `releaseWakeLock()` likewise tests in one step and writes in another (`EndRelease`). Since
version 13 the thread holds `s_wakeLockCountMutex` from the first of these to the last (`Locked`), which keeps
other threads and the timeout out but not the event loop's clearing and freeing; before it nothing is held.
`seen` is what the test read, `dangling` the threads whose `seen` was freed since, and `stray` records that
such a write has met a block that is another timer by then. The pointer is read once for the test and the
write, as a compiler that optimises does; a build that reads it twice could also meet NULL. `NoMemory` lets allocations fail;
`SlowThreads` lets a thread be held up for longer than the 200 ms of the timer.

**RilRequests.** The methods, response functions and indication functions are tables by name, a part per group
of the source (`RilTables`). A method of `RilDispatch` is a sequence of steps: add the request, copy a string, free,
fail when a check fails, hand to the vendor. Each allocation may fail, which leads to the exit that the
code has there, with the pointers it frees. A copy of a client's string (`ClientCopies`) may also turn out too short
(`Truncated`): the method then leaves by the same exit, with the copy allocated and no error response; `truncated`
remembers it. A copy of a `hidl_string` that was made from a `char *` on the way (`CopyChars`) cannot. `ptr` follows every pointer (live, freed, uninitialised), `request`
the `RequestInfo`, `answers` what the client was told. Once `onRequest()` was called the vendor completes in
another thread, before or after the method returns, with any listed length of payload; the function that
`s_commands` names then refuses or takes it, and `Reads` says how many bytes it looks at. A payload is its
length, whether it is null, and whether its contents are in range. `QanRespStrings` is the system property that gives the
strings per network; the runs use 6, the value of `system.prop`. `report` holds the conversions whose
values matter: what the vendor sent and what the client saw. The conversion of a signal rewrites the vendor's
buffer, so `SignalReport` keeps the buffer it leaves behind, and `RepeatSignal` reports that one again.

**SapService.** A request is the address of its queue node; `twin` marks one that had the same id and token
as another that waited. The message that a response is decoded into is not modelled: `processResponse()` never frees it. Every access to `sapCallback` is a step. `setup` covers a slot with no socket or no
UIM functions.

**Fingerprint.** `state` is `tz.state`; each `get_tz_state()` and `set_tz_state()` is a step, so the tests and
the settings that depend on them can be separated by the other threads. `worker.pc` goes through
`vcs_enroll()` and `vcs_authenticate()`; `alone` records whether the session was started with no other worker
alive. One worker and one timeout thread are alive at a time. The signal handler is one step when it interrupts
a thread that is in no critical section (`sensor_process_signal`). It takes `tz.timeout.lock`, `sensor.lock` and
`tz.lock`, so in a thread that holds one of them it waits for itself: `SignalHangs` is enabled whenever some thread's next
step is a section of such a lock (`HoldsTz`, `HoldsSensor`, `HoldsTimeout`), and ends the run with `client.pc = "hung"`.

**Gnss.** The binder thread runs the client's calls and the death notice; the threads of the two libraries
call back at any time. `updateWakelock()` is four steps (test of the interface, reading of the flags, the
remembered state, the call). A batch of locations is built by the loop of the code, location by location, as a
recursive function (`locationBatch`). `missed` and `late` record the overlaps that the properties name as exceptions.

## 3. Runs

| Run | Checks | Bounds | States |
|---|---|---|---|
| `multihal_poll` | `TypeOK`, `RegionNotReadable`, `NoLostDataWakeup`, `NoLostSpaceWakeup`, refinement `ImplementsStream` | two sub-HALs, rings of two cells, two kinds of event (known and unknown handle), `poll(2)` | 434 418 |
| `multihal_live` | `QueuesDrain`, `WriterGoesOn` | the same, one kind of event | 35 539 |
| `multihal_handles` | `CallsReachOwner`, `EventsKeepOwner` | three sub-HALs that use the same local handles; every subset loads, every subset opens | 439 |
| `radio_service` | `TypeOK`, `Exclusive`, `AssertionsHold`, `AnsweredAtMostOnce`, `ForgetsOnlyTheDead`, `DeadClientForgotten` | one vendor thread and the binder thread, two services, two client processes, one request | 257 087 |
| `radio_service_abort` | violation of `AssertionsHold` | error responses may meet a dead client | |
| `ril_unsol` | `TypeOK`, `WakeLockHasTimer`, `NitzAtMostOnce`, `DeviceSleepsAgain` | one vendor thread, one of its indications, two client processes, two timer blocks (enough for a block to be freed, reused and cancelled by mistake), versions 12 and 13 | 318 164 |
| `ril_nitz_lost` | violation of `NitzNotLost` | memory suffices, threads are prompt | |
| `ril_requests` | `NoFault`, `NoLeak`, `AnsweredOnce`, `AnsweredAtOwnCallback`, `ReadsInsidePayload`, `DocumentedIsTakenButFour`, `SignalFaithful`, `DataCallsFaithful`, `CellsFaithful`, `LengthsClamped` | every method with vectors of up to two entries; vendor versions 12 and 15, no client, an old and a new one; the lengths of every structure that is told apart; up to nine data calls and 40 digits | 109 514 |
| `ril_documented` | violation of `DocumentedIsTaken` | the same tables | |
| `fingerprint` | `TrustletStaysOpen`, `ReportsMatchedFinger`, `StoredWhenComplete`, `CallsReturn` | two fingers, two images per enrolment, sessions without end | 1 034 829 |
| `sap` | `OwnsItsMemory`, `AnswersFaithful`, `NullOnlyAfterDeath`, `RequestsSettled` | two requests, one vendor thread, two client processes | 230 496 |
| `gnss` | `WakelockFollows`, `RestartIsClean`, `ConversionsFaithful` | measurements and batching beside positioning, two client processes, batches of up to two | 1 536 835 |

Why the bounds are enough. Two cells are the smallest ring in which the writable run is cut both by the
end of the array and by the readable part, in which it wraps, and in which it is full with the
first cell anywhere; the theorems of section 5 remove the bound for the safety properties. Two queues
are the smallest number for which the turn and the count of empty queues matter. In `radio_service` the
dangerous pattern is a thread that handles a death while another registers the new client, or handles the
same death: the vendor thread and the binder thread, which sends indications of its own at a connection,
are the two. Safety and liveness are asked of one instance, which is therefore smaller than safety alone
would allow. In `ril_unsol` the binder thread sends two indications at each connection, so up to five
indications and a NITZ meet; two blocks are the fewest in which one can be freed and given to another timer while
a thread still has its address. That no block is free is the failed allocation of the code. `ril_requests` runs one call at a time, since calls share nothing but the list
of requests; vectors of two entries show a failure at the first and at a later one. Nine data calls are
the most that the length tells apart: ten of the oldest layout are as long as nine of the next. In `fingerprint` two fingers make a gap in
the table, two images an enrolment that can be cancelled half way. In `sap` two requests are
the smallest number that can be mistaken for each other, in one client or across a restart. In `gnss` two
clients are a death and a successor.

`CHECK_DEADLOCK FALSE` is set where the system may rest: the handles once everything is opened and
nothing is listed, the RIL, SAP and GNSS once the bounds on requests, indications and clients are reached,
and the fingerprint HAL once the device is closed or has hung in one of the known ways.

**Fairness.** `MultiHalPoll`: threads run (weak fairness); a thread that wants `queue_mutex` gets it
although others keep taking it (strong fairness, since the mutex is released for a blocking call in
each round); the framework calls `poll()` again and again. Nothing is asked of the sub-HALs.
`RadioService`: a thread inside the library goes on, and a lock that is free again and again is
granted. The C library's read-write lock prefers readers, so overlapping readers could keep a writer
out for ever; `DeadClientForgotten` therefore assumes `[]<>LockFree`. `RilUnsol`: threads inside the
library go on and timers fire; nothing is asked of the vendor or the client, whose acknowledgement may
never come. `Fingerprint`: a thread that can go on does, and a timeout expires; nothing is asked of fingers
on the sensor or of the client's calls. `SapService`: threads inside the library go on, and the vendor
completes what it was given although indications keep arriving (strong fairness).

## 4. What the runs found

Disagreements between the code and its comments or `ril.h`, each with a run:

* `radio_service_abort`: `sendErrorResponse()` reaches `checkReturnStatus()` with no lock held, and the
  unlock there fails, or takes a hold of another thread away.
* `ril_nitz_lost`: a NITZ is kept after the service lock was released, and a client that connects in
  between does not get it.
* `ril_documented`: one integer is a valid answer to the queries of call waiting and IMS registration when
  the service is off, and an indication without data is the only form of the request for carrier
  information; a list of networks has four strings for each according to `ril.h`, and the code wants as many as
  `ro.ril.telephony.qan_resp_strings` says, which `system.prop` sets to 6 (a list of three networks then passes the test and is read as two). The code refuses all four.
  `DocumentedIsTakenButFour` shows that these are the only ones, and that the list of networks is refused only
  when the property is not 4.

Behaviour that the properties of the passing runs name as an exception, because the code has it:

* *Handles.* Behind a sub-HAL that loads and does not open, calls reach the wrong sub-HAL or a null device.
* *Requests.* `sendDeviceState()` and `setIndicationFilter()` do not look at the result of
  `addRequestToList()`; `setCarrierInfoForImsiEncryption()` loses its copies; the answer to
  `hangupForegroundResumeBackground` is given to the callback of its neighbour; the length test of
  `getLastCallFailCause` is inverted and that of `networkScanResult` too weak; ten data calls of the oldest
  layout are read as nine of the next. A string whose `size()` is less than the length of its `c_str()` makes
  `copyHidlStringToRil()` return false with the copy allocated and nothing answered: the copy is lost, except in the
  methods for data profiles, and the request is never answered. `NoLeak` excepts that one copy (those made before it
  are freed), `AnsweredOnce` that call.
* *Fingerprint.* `enroll()` with no free finger takes a mutex twice; `cancel()` of a session that ends between
  the test and the setting of the state polls for good, as does one that joins a timeout thread which
  polls itself; a signal that arrives in a thread which holds one of the handler's three mutexes hangs that thread, and
  whoever wants the mutex next; a session that starts while the last worker closes the trustlet loses it; an enrolment that is
  cancelled between two images is stored.
* *SAP.* Two waiting requests with the same id and token free each other's nodes; an APDU's command is
  not freed, and neither is the message that each response is decoded into; a disconnection that is indicated and cannot be decoded is answered like a request; a request
  is lost when there is no memory for its node or there are no UIM functions.
* *GNSS.* Overlapping updates leave the wake lock either way until the next release; geofences outlive
  their client; a capability that is told while the clients change is missed; the AGNSS type is lost in
  the newer status structures; `carrierCycles` of a measurement of the older library is never assigned while its flag
  is passed on, so the client is shown what the stack held (`garbage` in `gpsMeasurement`).
* *Wake lock.* Before version 13 the event loop can free the last timer between a thread's test of
  `s_last_wake_timeout_info` and its write, and a second thread's new timer can take the block: the first
  thread then cancels the second's timer, the second cancels the first's, and the wake lock stays with no
  timer. Three indications of two prompt threads are enough. `WakeLockHasTimer` and `DeviceSleepsAgain` hold
  until such a write (`stray`); the run reaches it. The same follows when a thread is held up for longer
  than its own timer (`SlowThreads = TRUE` shows it). The block may also become a timed callback of the vendor,
  whose parameter is then overwritten: those callbacks are not modelled.

## 5. What is proved

The theorems hold for every value of the constants that the named assumptions allow: any number of
threads, clients, requests, timer blocks, fingers, sub-HALs and cells. Where a theorem has a hypothesis of
its own, it is given below. Each component's inductive invariants stand at the end of its module, as
conjunctions of named parts; TLC checked each of them on the instance of the component's run before it was
proved. Every proof has the same outline: the initial states satisfy the invariant, one lemma per action (or per
action and conjunct) says that it is kept, and the temporal step is the last.

**MultiHalPoll** (`Inductive`, `TypeCorrect`, `NoTornRead`, `ReaderAlwaysWoken`, `WriterAlwaysWoken`).
`RegionNotReadable` is not inductive: it does not say where the region begins, so nothing follows about
it when the writer marks it as written. `RegionInv` does: while a writer is outside the mutex, its
region begins at `FirstWritable(mStart, mSize)` of the *current* queue, and it fits into the free cells
and into the array. The reader may move `mStart` and shrink `mSize` meanwhile; the lemma
`FirstWritableAfterDequeue` says that this does not move the writable end, and the free cells only
grow. `ContentInv` says that readable cells hold events and the region holds what the sub-HAL has stored,
which `WriterMark` needs to keep `TypeOK`'s promise about what `poll()` copies. `NoLostDataWakeup` needs
`ScanInv`: the last `empties` queues examined are empty, and stay so because `poll()` keeps the mutex;
after `QueueCount` of them, `AllExamined` says that these are all. `WaitInv` ties the flag and the
mutex to the reader's place.

**MultiHalStream** (`Refinement` in `MultiHalPollProofs`: `Spec => ImplementsStream`). The mapping reads a ring's readable cells as
a sequence. Marking a region appends what was stored, wrapped or not; `ScanTake` removes the head, also
when the handle is unknown and the event is dropped; a store of a sub-HAL lengthens what it has produced and
changes no stream, because `RegionInv` keeps its cell apart from the readable ones. The specification of the streams has no
fairness, so the refinement is of safety alone.

**MultiHalHandles** (`Inductive`, `CallsAlwaysReachOwner`, `EventsAlwaysKeepOwner`), for any config file and any
lists of sensors in which a sub-HAL uses no local handle twice. The two properties look at the devices, which
are found by index, and at the maps, which name modules by index, so both need to say what an index means.
`DevicesInv`: as far as all the first modules opened, the devices are these modules, place by place. `MapsInv`: the two
maps are inverse to each other and name modules that were loaded. What the loop `Kept` returns is a matter of
induction; it is proved by the least index at which the claim about a prefix would fail (`LeastElement`), since a theorem
with an operator parameter cannot be used.

**RadioService.** `BaseInductive`, `TypeCorrect`, `NoLiveClientForgotten` and `NeverAnsweredTwice` have no
hypothesis. `checkReturnStatus()` releases the lock between the failed call and the reset; `CounterInv` is why this
is right: a counter that still has the noted value means that the objects are still those of the process that
was found dead. It needs `ClientInv` (objects belong to a client that has started) for the step at which a
new client starts. `AnswerInv` follows the duty to answer: it lies with the list, with the one thread that took
the request from it, or with the binder thread that never handed it out. `LockInductive`,
`NoAssertFails` and `ObjectsGuarded` assume `~ErrorsToDead`, since the code does break them when an error
response meets a dead client (run `radio_service_abort`); `LockInv` gives the hold of every thread at every
place, `ErrorInv` confines the one path that calls without a hold.

**RilUnsol.** `TypeCorrect`, `NitzDeliveredOnce` (by `NitzInv`: an undelivered NITZ is with one thread or in
the copy, never in two places) and `AcksAlwaysHaveTimer` (`Spec => [](Acks => ~stray /\ WakeLockHasTimer)`: since
version 13 no thread cancels a timer it did not see, and the wake lock has its timer however long threads are held
up) have no hypothesis. `WakeLockAlwaysHasTimer` is about every version and assumes `~SlowThreads`; like
the property it holds until a stray write, since an older version does lose the timer otherwise (section 4).
`InfoInv` says that `s_last_wake_timeout_info` never points to a freed block, so what a test reads is a timer;
`OwnTimerInv` that a thread which has started a timer and not yet published it has that block to itself, and
that this timer will release the wake lock; `SeenInv` that what a thread saw is nobody's own timer unless it was
freed since; `MutexInv` that since version 13 one thread at a time is between its test and its write, so that a block
freed there is still free when the write comes.

**RilRequests** (`Inductive`, `NeverFaults`, `NeverLeaks`, `AlwaysAnsweredOnce`, `AlwaysAnsweredAtOwnCallback`,
`NeverReadsPastPayload`, `DocumentedAlwaysTaken`, `SignalAlwaysFaithful`, `DataCallsAlwaysFaithful`,
`LengthsAlwaysClamped`, `CellsAlwaysFaithful`). The argument has two halves. The first is about the text of the code alone
and goes through it table by table:

* `GoodProgram` of every method, for any version of the vendor and arguments in or out of range: the request is listed
  first and handed over last, what an exit frees is all that was copied before it and nothing undefined, and the way
  without a failure frees everything (`setCarrierInfoForImsiEncryption` excepted). `dispatchStrings` has as many exits as
  strings, so it is proved for the loop and then used for each call of it;
* `GoodRequest`: the request of a method has a response function, and its callback is the method's own;
* `GoodResponse` and `GoodIndication` of every function: what it takes it does not read past (`Sound`), and it takes every length
  that `ril.h` documents. Lists and strings are divided by the size of an entry, so that a payload of any length has to be
  considered, not only those that the run lists.

The second half is about the steps. `CallInv` says that the call is one of the tables' or none, `ProgressInv` where its program
is when the request is listed, handed over or freed, `AnswersInv` that an answer is the one of the call, and `HeapInv` which
pointers may be live or undefined at each step of the program: no others than `Allocated` and `Undefined` read
off the text, and none that is freed while the method still runs. With these, `NoFault` and `NoLeak` follow from `GoodFrees` and `FreesAll`. `AnsweredOnce` needs
the two threads: until the vendor has the request only the method answers, afterwards only the completion, and the request
is freed with the answer; a method that has left without an answer has no request or a copy that was cut short. `SignalInv` says that the buffer, though rewritten, still converts to what was measured.
`DocumentedAlwaysTaken` holds for every `QanRespStrings` of at least 4. `DataCallsAlwaysFaithful` assumes `MaxDataCalls <= 9`, since it is false for ten (section 4), and the
vectors of a call have up to two entries (`VectorAssumption`). `s.version`, `Lengths` and the
number of digits are arbitrary; the values of a signal, a record and a cell are the ones that the actions list.

**SapService** (`Inductive`, `MemoryAlwaysOwned`, `AlwaysAnsweredFaithfully`, `AlwaysNullAfterDeath`). A
completion searches the queue by id and token and frees what it finds. `QueueInv` says why it finds its own node: as long
as there are no twins, two places of the queue never have the same id and token (`Distinct`), and everything that is
held or in work is queued, with node and message not freed. The lemmas below it describe the queue after an
append and after the removal of the first match. `OwnerInv` gives each request to the vendor or to one
thread, which `AnswerInv` needs to bound the answers; `ToldInv` follows the callback and the result from the
request to the call; `CallbackInv` is about the time before the first death.

**Fingerprint** (`Inductive`, `TrustletAlwaysOpen`, `AlwaysReportsMatched`, `AlwaysStoredComplete`). `AppInv`
carries the fact that a session claimed with no worker alive stays the only one between
the claim and its worker's first command, so that nobody closes the trustlet under it. `WorkerInv` carries
the finger and the images left from the start of a worker to its end. Neither depends on the locks that the signal
handler can hang on: a thread that hangs is one that takes no further step.

**Gnss** (`Inductive`, `RestartAlwaysClean`, `WakelockAlwaysFollows`, `ConversionsAlwaysFaithful`). `RunningInv` says whose each running
operation is; `CacheInv` what a client knows between the telling and the caching of a capability;
`UpdateInv` and `LockInv` what `updateWakelock()` may rely on between its four steps as long as no two updates have
overlapped, and what the remembered state means when there is no client. `ConversionsAlwaysFaithful` is an invariant of
the report alone: a lemma for each kind of report that needs one, and for the batch the statement that after each location of the
loop the batch has the locations taken so far in their order, proved by the least index at which it would fail.

Only model-checked:

* the liveness properties (`QueuesDrain`, `WriterGoesOn`, `DeadClientForgotten`, `DeviceSleepsAgain`,
  `CallsReturn`, `RequestsSettled`), which are out of the prover's reach;
* the three properties that a run violates, of which nothing can be proved.

Induction over data is available only through the least element of a set of numbers: where a theorem is about a loop,
the loop is a recursive function on indices, and its statement is proved for the least index that would be a
counterexample.

## 6. Not modelled

* The sensors' HIDL wrapper and the camera wrapper: they pass calls through.
* The RIL event loop: only the timers use it, and `RilUnsol` takes from it that a timer fires once.
* The fingerprint database and group files, the trustlet's interface library, a client that calls the
  HAL from two threads.
* GNSS: network-initiated requests, XTRA, configuration, AGnssRil and debug, which pass calls through.
* Conversions of fields that are copied one to one.
* The parts without behaviour over time: feature queries, init, power, recovery, firmware and
  configuration.

Within the modelled parts: closing the sensors device, a second SIM slot, the freeing of a request whose
address is reused, receive times of NITZ, and indications that do not wake the device.

## 7. Plan

Every invariant and action property of a passing run has its theorem, so what is left is to model more:

1. `close()` of the sensors device while its writers run, the GNSS interface that is tested and then used, and
   `RIL_onRequestAck()` after the list's mutex: the three hazards in `PROJECT.json` that have no property yet. They need
   memory that is freed under a reader, as `SapService` has it.
2. The event loop of the RIL, so that `RilUnsol` takes the firing of a timer from a model instead of an assumption.
3. Vectors of any length in `RilDispatch`, with pointers named by number instead of by field.
