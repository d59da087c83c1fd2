--------------------------- MODULE MultiHalHandles ---------------------------
(***************************************************************************)
(* How the sensors multihal (sensors/multihal.cpp) loads its sub-HALs,      *)
(* gives their sensors global handles, opens their devices and routes calls *)
(* and events by handle.                                                    *)
(*                                                                          *)
(* lazy_init_modules() and lazy_init_sensors_list() run under a mutex each  *)
(* and are one step; open_sensors() builds a context nobody else sees yet.  *)
(***************************************************************************)
EXTENDS Integers, Sequences, SequencesExt

CONSTANTS Config,    \* the paths in the multihal config file, in order
          Listing,   \* path -> the local handles its get_sensors_list() gives
          NULL

Paths == DOMAIN Listing

ASSUME ConfigAssumption == Config \in Seq(Paths)
ASSUME ListingAssumption ==
  \A p \in Paths : /\ Listing[p] \in Seq(Nat)
                  /\ \A i, j \in DOMAIN Listing[p] :
                       Listing[p][i] = Listing[p][j] => i = j
ASSUME NullAssumption ==
  NULL \notin Seq(Paths) \cup Seq([handle : Nat, full : Nat \X Nat])

VARIABLES
  sub_hw_modules,       \* NULL, or the modules that were loaded, in order
  sub_hw_devices,       \* NULL before open_sensors(), then the opened devices
  opened,               \* the indices of the modules whose open() succeeded
  global_sensors_list,  \* NULL, or what module__get_sensors_list() returns
  next_global_handle,
  global_to_full, full_to_global,
  called,               \* the last call by handle: <<handle, device, local handle>>
  upstream,             \* the last event passed on: <<queue, local handle, handle>>
  crashed               \* a null device pointer was dereferenced

vars == <<sub_hw_modules, sub_hw_devices, opened, global_sensors_list, next_global_handle,
          global_to_full, full_to_global, called, upstream, crashed>>

Init ==
  /\ sub_hw_modules = NULL
  /\ sub_hw_devices = NULL
  /\ opened = {}
  /\ global_sensors_list = NULL
  /\ next_global_handle = 1
  /\ global_to_full = << >>
  /\ full_to_global = << >>
  /\ called = NULL
  /\ upstream = NULL
  /\ crashed = FALSE

\* A vector that a loop fills with some elements of s: those at the indices picks.
Kept(s, picks) ==
  LET kept[i \in 0 .. Len(s)] ==
        IF i = 0 THEN << >>
        ELSE IF i \in picks THEN Append(kept[i - 1], s[i]) ELSE kept[i - 1]
  IN  kept[Len(s)]

\* dlopen() and dlsym() of a path may fail; the path is then left out.
Loaded(ok) == Kept(Config, ok)

\* lazy_init_modules(): what sub_hw_modules is afterwards.
LazyInitModules(ok) == IF sub_hw_modules = NULL THEN Loaded(ok) ELSE sub_hw_modules

-----------------------------------------------------------------------------
(***************************************************************************)
(* lazy_init_sensors_list() and assign_global_handle().                     *)
(***************************************************************************)

\* The sensors of all modules in order, each as <<module index, local handle>>.
AllSensors(modules) ==
  FlattenSeq([i \in 1 .. Len(modules) |->
                [j \in 1 .. Len(Listing[modules[i]]) |-> <<i - 1, Listing[modules[i]][j]>>]])

AssignHandles(full, first) ==
  [k \in 1 .. Len(full) |-> [handle |-> first + k - 1, full |-> full[k]]]

GetSensorsList(ok) ==
  /\ ~crashed
  /\ global_sensors_list = NULL
  /\ sub_hw_modules' = LazyInitModules(ok)
  /\ LET full  == AllSensors(sub_hw_modules')
         first == next_global_handle
     IN  /\ global_sensors_list' = AssignHandles(full, first)
         /\ next_global_handle' = first + Len(full)
         /\ global_to_full' = [h \in first .. first + Len(full) - 1 |-> full[h - first + 1]]
         /\ full_to_global' = [f \in ToSet(full) |->
                                 CHOOSE h \in first .. first + Len(full) - 1 :
                                   full[h - first + 1] = f]
  /\ UNCHANGED <<sub_hw_devices, opened, called, upstream, crashed>>

-----------------------------------------------------------------------------
\* Mutant: each device is put before the ones opened earlier.
OpenPrepending(ok, opens) ==
  /\ ~crashed
  /\ sub_hw_devices = NULL
  /\ sub_hw_modules' = LazyInitModules(ok)
  /\ opens \subseteq DOMAIN sub_hw_modules'
  /\ sub_hw_devices' = Reverse(Kept(sub_hw_modules', opens))
  /\ opened' = opens
  /\ UNCHANGED <<global_sensors_list, next_global_handle, global_to_full, full_to_global,
                 called, upstream, crashed>>

\* open_sensors(): the devices of the modules that open, in order.
Open(ok, opens) ==
  /\ ~crashed
  /\ sub_hw_devices = NULL
  /\ sub_hw_modules' = LazyInitModules(ok)
  /\ opens \subseteq DOMAIN sub_hw_modules'
  /\ sub_hw_devices' = Kept(sub_hw_modules', opens)
  /\ opened' = opens
  /\ UNCHANGED <<global_sensors_list, next_global_handle, global_to_full, full_to_global,
                 called, upstream, crashed>>

get_local_handle(h) == IF h \in DOMAIN global_to_full THEN global_to_full[h][2] ELSE -1
get_module_index(h) == IF h \in DOMAIN global_to_full THEN global_to_full[h][1] ELSE -1

get_v0_device_by_handle(h) ==
  LET i == get_module_index(h)
  IN  IF i < 0 \/ i >= Len(sub_hw_devices) THEN NULL ELSE sub_hw_devices[i + 1]

\* activate(), setDelay(), and batch(), which is setDelay() here: the call goes
\* to the device of the handle; a null device is not checked for.
CallDevice(h) ==
  /\ ~crashed
  /\ sub_hw_devices # NULL
  /\ LET dev == get_v0_device_by_handle(h)
     IN  /\ called' = <<h, dev, get_local_handle(h)>>
         /\ crashed' = (dev = NULL)
  /\ UNCHANGED <<sub_hw_modules, sub_hw_devices, opened, global_sensors_list, next_global_handle,
                 global_to_full, full_to_global, upstream>>

\* poll() remaps an event of the i-th queue; an unknown handle is dropped.
PassEvent(i, local) ==
  /\ ~crashed
  /\ sub_hw_devices # NULL
  /\ i \in DOMAIN sub_hw_devices
  /\ local \in ToSet(Listing[sub_hw_devices[i]])
  /\ <<i - 1, local>> \in DOMAIN full_to_global
  /\ upstream' = <<i, local, full_to_global[<<i - 1, local>>]>>
  /\ UNCHANGED <<sub_hw_modules, sub_hw_devices, opened, global_sensors_list,
                 next_global_handle, global_to_full, full_to_global, called, crashed>>

-----------------------------------------------------------------------------
\* The framework uses the handles that it was given.
KnownHandles ==
  IF global_sensors_list = NULL THEN {}
  ELSE {global_sensors_list[k].handle : k \in DOMAIN global_sensors_list}

LocalHandles == UNION {ToSet(Listing[p]) : p \in Paths}

Next ==
  \/ \E ok \in SUBSET DOMAIN Config : GetSensorsList(ok)
  \/ \E ok, opens \in SUBSET DOMAIN Config : Open(ok, opens)
  \/ \E h \in KnownHandles : CallDevice(h)
  \/ \E i \in 1 .. Len(Config), local \in LocalHandles : PassEvent(i, local)

Spec == Init /\ [][Next]_vars

-----------------------------------------------------------------------------
\* The module a handle was assigned for, whatever was opened.
OwnerOf(h) == sub_hw_modules[global_to_full[h][1] + 1]

\* Every module up to the i-th opened. The devices are found by the index of
\* their module, so one that does not open moves the later ones up.
AllOpenUpTo(i) == 1 .. i \subseteq opened

\* A call by handle, activate() or setDelay(), reaches the sub-HAL that listed
\* the sensor (and so no null device), under the local handle it listed it by,
\* whichever modules loaded and opened, as long as the owner and the modules
\* before it opened. Behind one that did not, the code calls another sub-HAL
\* or dereferences a null device.
CallsReachOwner ==
  called # NULL /\ AllOpenUpTo(global_to_full[called[1]][1] + 1)
    => /\ called[2] = OwnerOf(called[1])
       /\ called[3] = global_to_full[called[1]][2]

\* poll() passes an event on under the handle of the sensor it came from, as
\* long as the modules up to that of the queue opened.
EventsKeepOwner ==
  upstream # NULL /\ AllOpenUpTo(upstream[1])
    => /\ sub_hw_devices[upstream[1]] = OwnerOf(upstream[3])
       /\ upstream[2] = global_to_full[upstream[3]][2]

(***************************************************************************)
(* The inductive invariant behind the theorems of MultiHalHandlesProofs.    *)
(***************************************************************************)

ModulesInv ==
  /\ next_global_handle \in Nat
  /\ sub_hw_modules # NULL => sub_hw_modules \in Seq(Paths)
  /\ sub_hw_devices # NULL \/ global_sensors_list # NULL => sub_hw_modules # NULL

\* The two maps say the same, and name modules that were loaded; they are empty
\* until the list was made.
MapsInv ==
  /\ KnownHandles \subseteq DOMAIN global_to_full
  /\ \A h \in DOMAIN global_to_full :
       /\ global_sensors_list # NULL
       /\ global_to_full[h] \in (0 .. Len(sub_hw_modules) - 1) \X Nat
  /\ \A f \in DOMAIN full_to_global :
       /\ full_to_global[f] \in DOMAIN global_to_full
       /\ global_to_full[full_to_global[f]] = f

\* The devices are those of the first modules as far as all of these opened.
DevicesInv ==
  sub_hw_devices # NULL =>
    /\ Len(sub_hw_devices) \in Nat
    /\ \A k \in 0 .. Len(sub_hw_modules) : AllOpenUpTo(k) =>
         /\ k <= Len(sub_hw_devices)
         /\ \A j \in 1 .. k : sub_hw_devices[j] = sub_hw_modules[j]

\* What was called or passed on had a device and a handle.
SeenInv ==
  /\ called # NULL => sub_hw_devices # NULL /\ called[1] \in DOMAIN global_to_full
  /\ upstream # NULL => /\ sub_hw_devices # NULL
                        /\ upstream[3] \in DOMAIN global_to_full

Inv == ModulesInv /\ MapsInv /\ DevicesInv /\ SeenInv /\ CallsReachOwner /\ EventsKeepOwner
=============================================================================
