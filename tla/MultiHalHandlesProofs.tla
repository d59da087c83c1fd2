------------------------ MODULE MultiHalHandlesProofs ------------------------
(***************************************************************************)
(* The routing of the multihal for every configuration, every choice of     *)
(* modules that load and of devices that open, and every list of sensors.   *)
(*                                                                          *)
(* What a loop builds is a recursive function.  An induction over its steps *)
(* takes the first step at which the claim fails, which LeastElement finds. *)
(***************************************************************************)
EXTENDS MultiHalHandles, SequenceTheorems, WellFoundedInduction, TLAPS

\* A set of numbers that is not empty has a least one.
LEMMA LeastElement ==
  ASSUME NEW T \in SUBSET Nat, T # {}
  PROVE  \E x \in T : \A y \in T : x <= y
  <1>1. PICK x \in T : \A y \in T : ~(<<y, x>> \in OpToRel(<, Nat))
    BY NatLessThanWellFounded, WFMin
  <1>2. \A y \in T : x <= y
    <2> SUFFICES ASSUME NEW y \in T PROVE x <= y
      OBVIOUS
    <2>1. ~(y < x)
      BY <1>1 DEF OpToRel
    <2>2. QED
      BY <2>1
  <1>3. QED
    BY <1>2

-----------------------------------------------------------------------------
(***************************************************************************)
(* Kept: the vectors that lazy_init_modules() and open_sensors() fill.      *)
(***************************************************************************)

\* One iteration of the loop.
KeepStep(s, picks, kept, i) ==
  IF i = 0 THEN << >>
  ELSE IF i \in picks THEN Append(kept[i - 1], s[i]) ELSE kept[i - 1]

\* After n iterations of the loop, kept has the vector after each of them.
IsKept(s, picks, n, kept) == kept = [i \in 0 .. n |-> KeepStep(s, picks, kept, i)]

\* The loop can go on for one more iteration.
LEMMA KeptExtend ==
  ASSUME NEW s, NEW picks, NEW n \in Nat, NEW g, IsKept(s, picks, n, g)
  PROVE  \E h : IsKept(s, picks, n + 1, h)
  <1> DEFINE h == [i \in 0 .. n + 1 |-> IF i <= n THEN g[i] ELSE KeepStep(s, picks, g, n + 1)]
  <1>1. \A i \in 0 .. n + 1 : h[i] = KeepStep(s, picks, h, i)
    <2> SUFFICES ASSUME NEW i \in 0 .. n + 1 PROVE h[i] = KeepStep(s, picks, h, i)
      OBVIOUS
    <2>1. i # 0 => i - 1 \in 0 .. n + 1 /\ h[i - 1] = g[i - 1]
      OBVIOUS
    <2>2. KeepStep(s, picks, h, i) = KeepStep(s, picks, g, i)
      BY <2>1 DEF KeepStep
    <2>3. i <= n => g[i] = KeepStep(s, picks, g, i)
      BY DEF IsKept
    <2>4. i > n => i = n + 1
      OBVIOUS
    <2>5. QED
      BY <2>2, <2>3, <2>4
  <1>2. h = [i \in 0 .. n + 1 |-> KeepStep(s, picks, h, i)]
    <2> HIDE DEF h
    <2>1. DOMAIN h = 0 .. n + 1
      BY DEF h
    <2>2. h = [i \in 0 .. n + 1 |-> h[i]]
      BY <2>1 DEF h
    <2>3. QED
      BY <1>1, <2>2
  <1>3. QED
    BY <1>2 DEF IsKept

\* The recursive function in Kept exists.
LEMMA KeptExists ==
  ASSUME NEW s, NEW picks, NEW n \in Nat
  PROVE  \E g : IsKept(s, picks, n, g)
  <1> DEFINE Bad == {m \in Nat : ~\E g : IsKept(s, picks, m, g)}
  <1>1. SUFFICES ASSUME Bad # {} PROVE FALSE
    OBVIOUS
  <1>2. PICK m \in Bad : \A k \in Bad : m <= k
    BY <1>1, LeastElement
  <1>3. CASE m = 0
    <2>1. IsKept(s, picks, 0, [i \in 0 .. 0 |-> << >>])
      BY DEF IsKept, KeepStep
    <2>2. QED
      BY <1>2, <1>3, <2>1
  <1>4. CASE m # 0
    <2>1. m - 1 \in Nat /\ m - 1 \notin Bad /\ (m - 1) + 1 = m
      BY <1>2, <1>4
    <2>2. PICK g : IsKept(s, picks, m - 1, g)
      BY <2>1
    <2>3. \E h : IsKept(s, picks, m, h)
      BY <2>1, <2>2, KeptExtend
    <2>4. QED
      BY <1>2, <2>3
  <1>5. QED
    BY <1>3, <1>4

\* Kept is what the last iteration leaves.
LEMMA KeptIsLast ==
  ASSUME NEW s, Len(s) \in Nat, NEW picks
  PROVE  \E g : IsKept(s, picks, Len(s), g) /\ Kept(s, picks) = g[Len(s)]
  <1>1. PICK g : IsKept(s, picks, Len(s), g)
    BY KeptExists
  <1>2. g = [i \in 0 .. Len(s) |->
               IF i = 0 THEN << >>
               ELSE IF i \in picks THEN Append(g[i - 1], s[i]) ELSE g[i - 1]]
    BY <1>1 DEF IsKept, KeepStep
  <1>3. \E h : /\ h = [i \in 0 .. Len(s) |->
                         IF i = 0 THEN << >>
                         ELSE IF i \in picks THEN Append(h[i - 1], s[i]) ELSE h[i - 1]]
               /\ Kept(s, picks) = h[Len(s)]
    BY <1>2, Zenon DEF Kept
  <1>4. QED
    BY <1>3 DEF IsKept, KeepStep

\* As long as every element is kept, the vector is what was read of s; what was
\* kept once stays at its place.
KeptUpTo(s, m, D, v) ==
  /\ v \in Seq(D)
  /\ m <= Len(v)
  /\ \A j \in 1 .. m : v[j] = s[j]

\* The loop keeps a prefix of s of which it keeps every element.
LEMMA KeptPrefix ==
  ASSUME NEW D, NEW s \in Seq(D), NEW picks, NEW k \in 0 .. Len(s), 1 .. k \subseteq picks
  PROVE  KeptUpTo(s, k, D, Kept(s, picks))
  <1>1. PICK n \in Nat : n = Len(s)
    BY LenProperties
  <1>2. PICK g : IsKept(s, picks, n, g) /\ Kept(s, picks) = g[n]
    BY <1>1, KeptIsLast
  <1>3. \A i \in 0 .. n : g[i] = KeepStep(s, picks, g, i)
    BY <1>2 DEF IsKept
  <1> DEFINE Good(i) == /\ i <= k => KeptUpTo(s, i, D, g[i]) /\ Len(g[i]) = i
                        /\ i >= k => KeptUpTo(s, k, D, g[i])
             Bad == {i \in 0 .. n : ~Good(i)}
  <1>4. SUFFICES ASSUME Bad # {} PROVE FALSE
    BY <1>1, <1>2
  <1>5. PICK i \in Bad : \A j \in Bad : i <= j
    <2>1. Bad \in SUBSET Nat
      OBVIOUS
    <2>2. QED
      BY <1>4, <2>1, LeastElement
  <1>6. CASE i = 0
    <2>1. g[0] = << >>
      BY <1>3 DEF KeepStep
    <2>2. Good(0)
      BY <1>1, <2>1 DEF KeptUpTo
    <2>3. QED
      BY <1>5, <1>6, <2>2
  <1>7. CASE i # 0
    <2>1. i \in 1 .. n /\ i - 1 \in 0 .. n /\ Good(i - 1)
      BY <1>5, <1>7
    <2> DEFINE v == g[i - 1]
    <2>2. g[i] = IF i \in picks THEN Append(v, s[i]) ELSE v
      BY <1>3, <2>1 DEF KeepStep
    <2>3. s[i] \in D /\ v \in Seq(D) /\ Len(v) \in Nat
      BY <1>1, <2>1, ElementOfSeq, LenProperties DEF KeptUpTo
    <2>4. /\ Append(v, s[i]) \in Seq(D)
          /\ Len(Append(v, s[i])) = Len(v) + 1
          /\ \A j \in 1 .. Len(v) : Append(v, s[i])[j] = v[j]
          /\ Append(v, s[i])[Len(v) + 1] = s[i]
      BY <2>3, AppendProperties
    <2> HIDE DEF v
    <2>5. CASE i <= k
      <3>1. i \in picks /\ g[i] = Append(v, s[i])
        BY <2>1, <2>2, <2>5
      <3>2. KeptUpTo(s, i - 1, D, v) /\ Len(v) = i - 1
        BY <2>1, <2>5 DEF v
      <3>3. KeptUpTo(s, i, D, g[i]) /\ Len(g[i]) = i
        BY <2>1, <2>4, <3>1, <3>2 DEF KeptUpTo
      <3>4. QED
        BY <1>5, <2>5, <3>3
    <2>6. CASE i > k
      <3>1. KeptUpTo(s, k, D, v)
        BY <1>1, <2>1, <2>6 DEF v
      <3>2. KeptUpTo(s, k, D, g[i])
        BY <1>1, <2>2, <2>3, <2>4, <3>1 DEF KeptUpTo
      <3>3. QED
        BY <1>5, <2>6, <3>2
    <2>7. QED
      BY <1>1, <2>1, <2>5, <2>6
  <1>8. QED
    BY <1>6, <1>7

-----------------------------------------------------------------------------
(***************************************************************************)
(* AllSensors: the nested loops of lazy_init_sensors_list().                *)
(***************************************************************************)

\* One round of the outer loop.
FlattenStep(seqs, flatten, i) == IF i = 1 THEN seqs[i] ELSE flatten[i - 1] \o seqs[i]

\* After n rounds, flatten has the list after each of them.
IsFlatten(seqs, n, flatten) == flatten = [i \in 1 .. n |-> FlattenStep(seqs, flatten, i)]

\* The recursive function in FlattenSeq exists.
LEMMA FlattenExists ==
  ASSUME NEW seqs, NEW n \in Nat
  PROVE  \E g : IsFlatten(seqs, n, g)
  <1> DEFINE Bad == {m \in Nat : ~\E g : IsFlatten(seqs, m, g)}
  <1>1. SUFFICES ASSUME Bad # {} PROVE FALSE
    OBVIOUS
  <1>2. PICK m \in Bad : \A k \in Bad : m <= k
    BY <1>1, LeastElement
  <1>3. CASE m = 0
    <2>1. IsFlatten(seqs, 0, [i \in 1 .. 0 |-> << >>])
      BY DEF IsFlatten, FlattenStep
    <2>2. QED
      BY <1>2, <1>3, <2>1
  <1>4. CASE m # 0
    <2>1. PICK n1 \in Nat : n1 + 1 = m /\ n1 \notin Bad
      BY <1>2, <1>4
    <2>2. PICK g : IsFlatten(seqs, n1, g)
      BY <2>1
    <2> DEFINE h == [i \in 1 .. n1 + 1 |-> IF i <= n1 THEN g[i] ELSE FlattenStep(seqs, g, n1 + 1)]
    <2>3. \A i \in 1 .. n1 + 1 : h[i] = FlattenStep(seqs, h, i)
      <3> SUFFICES ASSUME NEW i \in 1 .. n1 + 1 PROVE h[i] = FlattenStep(seqs, h, i)
        OBVIOUS
      <3>1. i # 1 => i - 1 \in 1 .. n1 + 1 /\ h[i - 1] = g[i - 1]
        OBVIOUS
      <3>2. FlattenStep(seqs, h, i) = FlattenStep(seqs, g, i)
        BY <3>1 DEF FlattenStep
      <3>3. i <= n1 => g[i] = FlattenStep(seqs, g, i)
        BY <2>2 DEF IsFlatten
      <3>4. i > n1 => i = n1 + 1
        OBVIOUS
      <3>5. QED
        BY <3>2, <3>3, <3>4
    <2>4. h = [i \in 1 .. n1 + 1 |-> FlattenStep(seqs, h, i)]
      <3> HIDE DEF h
      <3>1. h = [i \in 1 .. n1 + 1 |-> h[i]]
        BY DEF h
      <3>2. QED
        BY <2>3, <3>1
    <2>5. QED
      BY <1>2, <2>1, <2>4 DEF IsFlatten
  <1>5. QED
    BY <1>3, <1>4

\* What a concatenation of sequences over S contains is in S.
LEMMA FlattenType ==
  ASSUME NEW S, NEW seqs \in Seq(Seq(S))
  PROVE  FlattenSeq(seqs) \in Seq(S)
  <1>1. PICK n \in Nat : n = Len(seqs)
    BY LenProperties
  <1>2. CASE n = 0
    <2>1. seqs = << >>
      BY <1>1, <1>2, EmptySeq
    <2>2. FlattenSeq(seqs) = << >>
      BY <1>1, <1>2, <2>1 DEF FlattenSeq
    <2>3. QED
      BY <2>2
  <1>3. CASE n # 0
    <2>1. PICK g : IsFlatten(seqs, n, g)
      BY FlattenExists
    <2>2. g = [i \in 1 .. Len(seqs) |-> IF i = 1 THEN seqs[i] ELSE g[i - 1] \o seqs[i]]
      BY <1>1, <2>1 DEF IsFlatten, FlattenStep
    <2>3. \E h : /\ h = [i \in 1 .. Len(seqs) |-> IF i = 1 THEN seqs[i] ELSE h[i - 1] \o seqs[i]]
                 /\ FlattenSeq(seqs) = h[Len(seqs)]
      <3>1. Len(seqs) # 0
        BY <1>1, <1>3
      <3>2. QED
        BY <2>2, <3>1, Zenon DEF FlattenSeq
    <2>4. PICK h : IsFlatten(seqs, n, h) /\ FlattenSeq(seqs) = h[n]
      BY <1>1, <2>3 DEF IsFlatten, FlattenStep
    <2>5. \A i \in 1 .. n : h[i] = FlattenStep(seqs, h, i)
      BY <2>4 DEF IsFlatten
    <2> DEFINE Bad == {i \in 1 .. n : h[i] \notin Seq(S)}
    <2>6. SUFFICES ASSUME Bad # {} PROVE FALSE
      BY <1>3, <2>4
    <2>7. PICK i \in Bad : \A j \in Bad : i <= j
      <3>1. Bad \in SUBSET Nat
        OBVIOUS
      <3>2. QED
        BY <2>6, <3>1, LeastElement
    <2>8. seqs[i] \in Seq(S)
      BY <1>1, ElementOfSeq
    <2>9. i # 1 => h[i - 1] \in Seq(S)
      BY <2>7
    <2>10. h[i] \in Seq(S)
      <3>1. h[i] = IF i = 1 THEN seqs[i] ELSE h[i - 1] \o seqs[i]
        BY <2>5 DEF FlattenStep
      <3>2. QED
        BY <2>8, <2>9, <3>1, ConcatProperties
    <2>11. QED
      BY <2>10
  <1>4. QED
    BY <1>2, <1>3

\* Every sensor of the list is one of a module that was loaded.
LEMMA AllSensorsType ==
  ASSUME NEW modules \in Seq(Paths)
  PROVE  AllSensors(modules) \in Seq((0 .. Len(modules) - 1) \X Nat)
  <1>1. PICK n \in Nat : n = Len(modules)
    BY LenProperties
  <1> DEFINE S == (0 .. n - 1) \X Nat
             OfModule(i) == [j \in 1 .. Len(Listing[modules[i]]) |-> <<i - 1, Listing[modules[i]][j]>>]
  <1>2. ASSUME NEW i \in 1 .. n PROVE OfModule(i) \in Seq(S)
    <2>1. modules[i] \in Paths
      BY <1>1, ElementOfSeq
    <2>2. PICK list \in Seq(Nat) : list = Listing[modules[i]]
      BY <2>1, ListingAssumption
    <2>3. Len(list) \in Nat /\ \A j \in 1 .. Len(list) : list[j] \in Nat
      BY <2>2, ElementOfSeq, LenProperties
    <2>4. i - 1 \in 0 .. n - 1
      OBVIOUS
    <2>5. \A j \in 1 .. Len(list) : <<i - 1, list[j]>> \in S
      BY <2>3, <2>4
    <2>6. OfModule(i) = [j \in 1 .. Len(list) |-> <<i - 1, list[j]>>]
      BY <2>2
    <2> HIDE DEF S, OfModule
    <2>7. QED
      BY <2>3, <2>5, <2>6, IsASeq
  <1> DEFINE seqs == [i \in 1 .. n |-> OfModule(i)]
  <1>3. seqs \in Seq(Seq(S))
    <2> HIDE DEF OfModule
    <2>1. QED
      BY <1>2, IsASeq
  <1>4. AllSensors(modules) = FlattenSeq(seqs)
    BY <1>1 DEF AllSensors
  <1> HIDE DEF seqs, S
  <1>5. FlattenSeq(seqs) \in Seq(S)
    BY <1>3, FlattenType
  <1>6. QED
    BY <1>1, <1>4, <1>5 DEF S

-----------------------------------------------------------------------------
(***************************************************************************)
(* Loading, listing and opening.                                            *)
(***************************************************************************)

\* lazy_init_modules() leaves a vector of modules, and the one there was if there was one.
LEMMA LazyInitType ==
  ASSUME ModulesInv, NEW ok
  PROVE  /\ LazyInitModules(ok) \in Seq(Paths)
         /\ LazyInitModules(ok) # NULL
         /\ sub_hw_modules # NULL => LazyInitModules(ok) = sub_hw_modules
  <1>1. Len(Config) \in Nat
    BY ConfigAssumption, LenProperties
  <1>2. 0 \in 0 .. Len(Config) /\ 1 .. 0 \subseteq ok
    BY <1>1
  <1>3. Loaded(ok) \in Seq(Paths)
    BY <1>2, ConfigAssumption, KeptPrefix DEF Loaded, KeptUpTo
  <1>4. QED
    BY <1>3, NullAssumption DEF LazyInitModules, ModulesInv

\* get_sensors_list() makes a list, and two maps that say the same.
LEMMA GetSensorsListMaps ==
  ASSUME ModulesInv, NEW ok, GetSensorsList(ok)
  PROVE  MapsInv' /\ global_sensors_list' # NULL /\ next_global_handle' \in Nat
  <1> DEFINE modules == sub_hw_modules'
             full == AllSensors(modules)
             first == next_global_handle
             S == (0 .. Len(modules) - 1) \X Nat
             Handles == first .. first + Len(full) - 1
  <1>1. modules \in Seq(Paths)
    BY LazyInitType DEF GetSensorsList
  <1>2. full \in Seq(S)
    BY <1>1, AllSensorsType
  <1>3. Len(full) \in Nat /\ \A k \in 1 .. Len(full) : full[k] \in S
    BY <1>2, ElementOfSeq, LenProperties
  <1>4. first \in Nat
    BY DEF ModulesInv
  <1>5. /\ global_sensors_list' = AssignHandles(full, first)
        /\ next_global_handle' = first + Len(full)
        /\ global_to_full' = [h \in Handles |-> full[h - first + 1]]
        /\ full_to_global' = [f \in ToSet(full) |-> CHOOSE h \in Handles : full[h - first + 1] = f]
    BY DEF GetSensorsList
  <1>6. Len(modules) \in Nat
    BY <1>1, LenProperties
  <1> HIDE DEF modules, full, first
  <1>7. \A h \in Handles : h - first + 1 \in 1 .. Len(full)
    BY <1>3, <1>4
  <1>8. \A k \in 1 .. Len(full) : first + k - 1 \in Handles /\ (first + k - 1) - first + 1 = k
    BY <1>3, <1>4
  <1>9. S \subseteq Nat \X Nat
    BY <1>6
  <1>10. global_sensors_list' \in Seq([handle : Nat, full : Nat \X Nat])
    <2>1. \A k \in 1 .. Len(full) :
            [handle |-> first + k - 1, full |-> full[k]] \in [handle : Nat, full : Nat \X Nat]
      BY <1>3, <1>4, <1>9
    <2>2. QED
      BY <1>3, <1>5, <2>1, IsASeq DEF AssignHandles
  <1>11. global_sensors_list' # NULL
    BY <1>10, NullAssumption
  <1>12. KnownHandles' \subseteq Handles
    <2>1. DOMAIN global_sensors_list' = 1 .. Len(full)
      BY <1>5 DEF AssignHandles
    <2>2. \A k \in 1 .. Len(full) : global_sensors_list'[k].handle = first + k - 1
      BY <1>5 DEF AssignHandles
    <2>3. QED
      BY <1>8, <2>1, <2>2 DEF KnownHandles
  <1>13. \A h \in DOMAIN global_to_full' : global_to_full'[h] \in S
    BY <1>3, <1>5, <1>7
  <1>14. ASSUME NEW f \in DOMAIN full_to_global'
         PROVE  /\ full_to_global'[f] \in DOMAIN global_to_full'
                /\ global_to_full'[full_to_global'[f]] = f
    <2>1. PICK k \in 1 .. Len(full) : full[k] = f
      BY <1>2, <1>5, LenProperties DEF ToSet
    <2>2. \E h \in Handles : full[h - first + 1] = f
      BY <1>8, <2>1
    <2>3. full_to_global'[f] \in Handles /\ full[full_to_global'[f] - first + 1] = f
      BY <1>5, <2>2
    <2>4. QED
      BY <1>5, <2>3
  <1>15. next_global_handle' \in Nat
    BY <1>3, <1>4, <1>5
  <1>16. DOMAIN global_to_full' = Handles
    BY <1>5
  <1>17. \A h \in DOMAIN global_to_full' :
           global_to_full'[h] \in (0 .. Len(sub_hw_modules') - 1) \X Nat
    BY <1>13 DEF modules
  <1> HIDE DEF Handles
  <1>18. QED
    BY <1>11, <1>12, <1>14, <1>15, <1>16, <1>17 DEF MapsInv

\* get_sensors_list() happens once, and before anything went by handle.
LEMMA GetSensorsListKeeps ==
  ASSUME Inv, NEW ok, GetSensorsList(ok)
  PROVE  Inv'
  <1>1. ModulesInv'
    BY LazyInitType, GetSensorsListMaps DEF Inv, ModulesInv, GetSensorsList
  <1>2. MapsInv'
    BY GetSensorsListMaps DEF Inv
  <1>3. DevicesInv'
    BY LazyInitType DEF Inv, DevicesInv, ModulesInv, GetSensorsList, AllOpenUpTo
  <1>4. called' = NULL /\ upstream' = NULL
    BY DEF Inv, SeenInv, MapsInv, GetSensorsList
  <1>5. QED
    BY <1>1, <1>2, <1>3, <1>4 DEF Inv, SeenInv, CallsReachOwner, EventsKeepOwner

\* open_sensors() makes the device of a module the one at its index, as long as
\* it and the ones before it opened.
LEMMA OpenKeeps ==
  ASSUME Inv, NEW ok, NEW opens, Open(ok, opens)
  PROVE  Inv'
  <1>1. /\ sub_hw_modules' \in Seq(Paths) /\ sub_hw_modules' # NULL
        /\ sub_hw_modules # NULL => sub_hw_modules' = sub_hw_modules
    BY LazyInitType DEF Inv, Open
  <1>2. ModulesInv'
    BY <1>1 DEF Inv, ModulesInv, Open
  <1>3. MapsInv'
    <2>1. global_sensors_list # NULL => sub_hw_modules' = sub_hw_modules
      BY <1>1 DEF Inv, ModulesInv
    <2>2. UNCHANGED <<global_sensors_list, global_to_full, full_to_global>>
      BY DEF Open
    <2>3. KnownHandles' = KnownHandles
      BY <2>2 DEF KnownHandles
    <2>4. QED
      BY <2>1, <2>2, <2>3 DEF Inv, MapsInv
  <1>4. DevicesInv'
    <2>1. opened' = opens /\ sub_hw_devices' = Kept(sub_hw_modules', opens)
      BY DEF Open
    <2>2. 0 \in 0 .. Len(sub_hw_modules') /\ 1 .. 0 \subseteq opens
      BY <1>1, LenProperties
    <2>3. sub_hw_devices' \in Seq(Paths)
      BY <1>1, <2>1, <2>2, KeptPrefix DEF KeptUpTo
    <2>4. ASSUME NEW k \in 0 .. Len(sub_hw_modules'), 1 .. k \subseteq opens
          PROVE  /\ k <= Len(sub_hw_devices')
                 /\ \A j \in 1 .. k : sub_hw_devices'[j] = sub_hw_modules'[j]
      BY <1>1, <2>1, <2>4, KeptPrefix DEF KeptUpTo
    <2>5. QED
      BY <2>1, <2>3, <2>4, LenProperties DEF DevicesInv, AllOpenUpTo
  <1>5. called' = NULL /\ upstream' = NULL
    BY DEF Inv, SeenInv, Open
  <1>6. QED
    BY <1>2, <1>3, <1>4, <1>5 DEF Inv, SeenInv, CallsReachOwner, EventsKeepOwner

-----------------------------------------------------------------------------
(***************************************************************************)
(* Calls and events.                                                        *)
(***************************************************************************)

\* A call reaches the device at the index of the handle's module.
LEMMA CallDeviceKeeps ==
  ASSUME Inv, NEW h \in KnownHandles, CallDevice(h)
  PROVE  Inv'
  <1>1. UNCHANGED <<sub_hw_modules, sub_hw_devices, opened, global_sensors_list,
                    next_global_handle, global_to_full, full_to_global, upstream>>
    BY DEF CallDevice
  <1>2. ModulesInv' /\ MapsInv' /\ DevicesInv'
    BY <1>1 DEF Inv, ModulesInv, MapsInv, DevicesInv, KnownHandles, AllOpenUpTo
  <1>3. h \in DOMAIN global_to_full /\ sub_hw_devices # NULL
    BY DEF Inv, MapsInv, CallDevice
  <1>4. SeenInv'
    BY <1>1, <1>3 DEF Inv, SeenInv, CallDevice
  <1>5. CallsReachOwner'
    <2>1. PICK n \in Nat : n = Len(sub_hw_modules)
      BY <1>3, LenProperties DEF Inv, ModulesInv
    <2>2. PICK i \in 0 .. n - 1, l \in Nat : global_to_full[h] = <<i, l>>
      BY <1>3, <2>1 DEF Inv, MapsInv
    <2>3. called' = <<h, get_v0_device_by_handle(h), l>>
      BY <1>3, <2>2 DEF CallDevice, get_local_handle
    <2>4. CASE AllOpenUpTo(i + 1)
      <3>1. /\ Len(sub_hw_devices) \in Nat /\ i + 1 <= Len(sub_hw_devices)
            /\ sub_hw_devices[i + 1] = sub_hw_modules[i + 1]
        BY <1>3, <2>1, <2>4 DEF Inv, DevicesInv
      <3>2. get_v0_device_by_handle(h) = sub_hw_modules[i + 1]
        BY <1>3, <2>2, <3>1 DEF get_v0_device_by_handle, get_module_index
      <3>3. QED
        BY <1>1, <2>2, <2>3, <3>2 DEF CallsReachOwner, OwnerOf
    <2>5. CASE ~AllOpenUpTo(i + 1)
      BY <1>1, <2>2, <2>3, <2>5 DEF CallsReachOwner, AllOpenUpTo
    <2>6. QED
      BY <2>4, <2>5
  <1>6. EventsKeepOwner'
    BY <1>1 DEF Inv, EventsKeepOwner, OwnerOf, AllOpenUpTo
  <1>7. QED
    BY <1>2, <1>4, <1>5, <1>6 DEF Inv

\* An event gets the handle that was assigned to its queue's index and its local
\* handle, which is that of its own module.
LEMMA PassEventKeeps ==
  ASSUME Inv, NEW i \in 1 .. Len(Config), NEW local, PassEvent(i, local)
  PROVE  Inv'
  <1>1. UNCHANGED <<sub_hw_modules, sub_hw_devices, opened, global_sensors_list,
                    next_global_handle, global_to_full, full_to_global, called>>
    BY DEF PassEvent
  <1>2. ModulesInv' /\ MapsInv' /\ DevicesInv'
    BY <1>1 DEF Inv, ModulesInv, MapsInv, DevicesInv, KnownHandles, AllOpenUpTo
  <1> DEFINE h == full_to_global[<<i - 1, local>>]
  <1>3. /\ h \in DOMAIN global_to_full /\ global_to_full[h] = <<i - 1, local>>
        /\ sub_hw_devices # NULL
        /\ upstream' = <<i, local, h>>
    BY DEF Inv, MapsInv, PassEvent
  <1> HIDE DEF h
  <1>4. SeenInv'
    BY <1>1, <1>3 DEF Inv, SeenInv
  <1>5. CallsReachOwner'
    BY <1>1 DEF Inv, CallsReachOwner, OwnerOf, AllOpenUpTo
  <1>6. EventsKeepOwner'
    <2>1. PICK n \in Nat : n = Len(sub_hw_modules)
      BY <1>3, LenProperties DEF Inv, ModulesInv
    <2>2. i - 1 \in 0 .. n - 1
      BY <1>3, <2>1 DEF Inv, MapsInv
    <2>3. i \in 0 .. n /\ i \in 1 .. i /\ (i - 1) + 1 = i
      BY <2>1, <2>2
    <2>4. AllOpenUpTo(i) => sub_hw_devices[i] = sub_hw_modules[i]
      BY <1>3, <2>1, <2>3 DEF Inv, DevicesInv
    <2>5. QED
      BY <1>1, <1>3, <2>3, <2>4 DEF EventsKeepOwner, OwnerOf, AllOpenUpTo
  <1>7. QED
    BY <1>2, <1>4, <1>5, <1>6 DEF Inv

-----------------------------------------------------------------------------
\* Inv holds in every state, for every configuration and every choice of modules that
\* load and of devices that open.
THEOREM Inductive == Spec => []Inv
  <1>1. Init => Inv
    BY DEF Init, Inv, ModulesInv, MapsInv, DevicesInv, SeenInv, KnownHandles, CallsReachOwner,
           EventsKeepOwner
  <1>2. Inv /\ [Next]_vars => Inv'
    <2> SUFFICES ASSUME Inv, [Next]_vars PROVE Inv'
      OBVIOUS
    <2>1. CASE \E ok \in SUBSET DOMAIN Config : GetSensorsList(ok)
      BY <2>1, GetSensorsListKeeps
    <2>2. CASE \E ok, opens \in SUBSET DOMAIN Config : Open(ok, opens)
      BY <2>2, OpenKeeps
    <2>3. CASE \E h \in KnownHandles : CallDevice(h)
      BY <2>3, CallDeviceKeeps
    <2>4. CASE \E i \in 1 .. Len(Config), local \in LocalHandles : PassEvent(i, local)
      BY <2>4, PassEventKeeps
    <2>5. CASE UNCHANGED vars
      BY <2>5 DEF vars, Inv, ModulesInv, MapsInv, DevicesInv, SeenInv, KnownHandles,
                  CallsReachOwner, EventsKeepOwner, OwnerOf, AllOpenUpTo
    <2>6. QED
      BY <2>1, <2>2, <2>3, <2>4, <2>5 DEF Next
  <1>3. QED
    BY <1>1, <1>2, PTL DEF Spec

\* activate(), setDelay() and batch() reach the sub-HAL that listed the sensor, under its
\* local handle, if that and the ones before it opened.
THEOREM CallsAlwaysReachOwner == Spec => []CallsReachOwner
  <1>1. Inv => CallsReachOwner
    BY DEF Inv
  <1>2. QED
    BY <1>1, Inductive, PTL

\* poll() passes an event on under the handle of the sensor it came from, if the sub-HAL that
\* polled it and the ones before it opened.
THEOREM EventsAlwaysKeepOwner == Spec => []EventsKeepOwner
  <1>1. Inv => EventsKeepOwner
    BY DEF Inv
  <1>2. QED
    BY <1>1, Inductive, PTL
=============================================================================
