-------------------------- MODULE ThermometerProofs --------------------------
(***************************************************************************)
(* Proofs about OneWire and Thermometer, for addresses of any width, any   *)
(* set of sensors and any number of changes of the bus.                    *)
(***************************************************************************)
EXTENDS Thermometer, FiniteSetTheorems, TLAPS

\* The bit that the master writes is one that a listening device has sent.
LEMMA DirectionIsSent ==
  ASSUME TypeOK, idBit \in 1 .. Width, listening # {}
  PROVE  Direction \in {0, 1} /\ \E r \in listening : r[idBit] = Direction
<1> USE RomsAssumption
<1>1. \A r \in listening : r[idBit] \in {0, 1}
  BY DEF TypeOK, Addresses, Bits
<1>2. CASE Differ
  <2>1. PICK r, s \in listening : r[idBit] # s[idBit]
    BY <1>2 DEF Differ
  <2>2. Direction \in {0, 1}
    BY <1>2 DEF Direction, TypeOK, Addresses, Bits
  <2> QED BY <1>1, <2>1, <2>2
<1>3. CASE ~Differ
  <2>1. (CHOOSE r \in listening : TRUE) \in listening
    OBVIOUS
  <2> QED BY <1>1, <1>3, <2>1 DEF Direction
<1> QED BY <1>2, <1>3

\* What writing a bit does: some device stays, and those that stay agree with
\* the address so far in this bit.
LEMMA BitWritten ==
  ASSUME TypeOK, idBit \in 1 .. Width, listening # {}, WriteBit
  PROVE  /\ romNo' \in Addresses
         /\ listening' \subseteq listening /\ listening' # {}
         /\ \A r \in listening' : r[idBit] = romNo'[idBit]
         /\ \A i \in Bits : i # idBit => romNo'[i] = romNo[i]
<1> USE RomsAssumption
<1>1. Direction \in {0, 1} /\ \E r \in listening : r[idBit] = Direction
  BY DirectionIsSent
<1>2. romNo' = [romNo EXCEPT ![idBit] = Direction] /\ romNo \in [Bits -> {0, 1}] /\ idBit \in Bits
  BY DEF WriteBit, TypeOK, Addresses, Bits
<1>3. romNo' \in Addresses
  BY <1>1, <1>2 DEF Addresses
<1>4. romNo'[idBit] = Direction /\ \A i \in Bits : i # idBit => romNo'[i] = romNo[i]
  BY <1>2
<1> QED BY <1>1, <1>3, <1>4 DEF WriteBit

\* The position of the last 0 chosen is a position, or 0.
LEMMA ZeroHereInRange ==
  ASSUME TypeOK
  PROVE  ZeroHere \in 0 .. Width
BY DEF ZeroHere, TypeOK

\* The two ways in which a search fails.
LEMMA FailureTypes ==
  ASSUME TypeOK, NoSearch \/ NobodyLeft
  PROVE  /\ bus' = bus /\ lastZero' = lastZero /\ romNo' = romNo
         /\ listening' = {} /\ idBit' = 0
         /\ lastDiscrepancy' = 0 /\ lastDeviceFlag' = FALSE
BY DEF NoSearch, NobodyLeft, NotFound

\* What a search starts from.
LEMMA ZerosIsAnAddress == Zeros \in Addresses /\ 0 \in 0 .. Width
<1>1. Zeros \in Addresses
  BY DEF Zeros, Addresses
<1>2. Width \in Nat
  BY RomsAssumption
<1> QED BY <1>1, <1>2

\* The parts of the type invariant that a search can change.
SearchTypeOK ==
  /\ bus \subseteq Roms /\ listening \subseteq bus
  /\ idBit \in 0 .. Width /\ lastZero \in 0 .. Width
  /\ lastDiscrepancy \in 0 .. Width /\ lastDeviceFlag \in BOOLEAN
  /\ romNo \in Addresses

\* And those that it cannot.
TaskTypeOK ==
  /\ at \in Places /\ devices \in Nat
  /\ scratchpad \in [Roms -> {"poweron", "busy", "fresh"}]
  /\ temp \in {"none", "disconnected", "poweron", "old", "measured"}
  /\ changes \in Nat /\ found \subseteq Addresses
  /\ steady \in BOOLEAN /\ gaveUp \in BOOLEAN

\* The steps of a search keep its types.
LEMMA SearchKeepsTypes ==
  ASSUME TypeOK, StartSearch \/ SearchBit \/ LastBit \/ NoSearch \/ NobodyLeft \/ ResetSearch
  PROVE  SearchTypeOK'
<1> USE RomsAssumption
<1>1. CASE StartSearch
  BY <1>1 DEF StartSearch, TypeOK, SearchTypeOK
<1>2. CASE SearchBit
  BY <1>2, BitWritten, ZeroHereInRange DEF SearchBit, TypeOK, SearchTypeOK
<1>3. CASE LastBit
  <2>1. (ZeroHere = 0) \in BOOLEAN
    OBVIOUS
  <2>2. /\ romNo' \in Addresses /\ listening' \subseteq bus /\ bus' = bus
        /\ idBit' \in 0 .. Width /\ lastZero' \in 0 .. Width
        /\ lastDiscrepancy' \in 0 .. Width
    BY <1>3, BitWritten, ZeroHereInRange DEF LastBit, TypeOK
  <2> QED BY <1>3, <2>1, <2>2 DEF LastBit, TypeOK, SearchTypeOK
<1>4. CASE NoSearch \/ NobodyLeft
  <2>1. /\ bus' = bus /\ lastZero' = lastZero /\ romNo' = romNo
        /\ listening' = {} /\ idBit' = 0
        /\ lastDiscrepancy' = 0 /\ lastDeviceFlag' \in BOOLEAN
    BY <1>4, FailureTypes, Zenon
  <2>2. /\ bus \subseteq Roms /\ lastZero \in 0 .. Width /\ romNo \in Addresses
        /\ {} \subseteq bus
    BY DEF TypeOK
  <2> QED BY <2>1, <2>2, ZerosIsAnAddress, Zenon DEF SearchTypeOK
<1>5. CASE ResetSearch
  <2>1. /\ bus' = bus /\ lastZero' = lastZero /\ romNo' = Zeros
        /\ listening' = listening /\ idBit' = idBit
        /\ lastDiscrepancy' = 0 /\ lastDeviceFlag' \in BOOLEAN
    BY <1>5, Zenon DEF ResetSearch
  <2>2. /\ bus \subseteq Roms /\ lastZero \in 0 .. Width
        /\ listening \subseteq bus /\ idBit \in 0 .. Width
    BY DEF TypeOK
  <2> QED BY <2>1, <2>2, ZerosIsAnAddress, Zenon DEF SearchTypeOK
<1> QED BY <1>1, <1>2, <1>3, <1>4, <1>5

\* Types of the search and of the task.
THEOREM ThermometerTypes == Spec => []TypeOK
<1> USE RomsAssumption, ChangesAssumption
<1>0. TypeOK <=> SearchTypeOK /\ TaskTypeOK
  BY DEF TypeOK, SearchTypeOK, TaskTypeOK
<1>1. Init => TypeOK
  <2> SUFFICES ASSUME Init PROVE TypeOK
    OBVIOUS
  <2>1. SearchTypeOK
    <3>1. /\ bus \subseteq Roms /\ listening = {} /\ idBit = 0 /\ lastZero = 0
          /\ lastDiscrepancy = 0 /\ lastDeviceFlag \in BOOLEAN /\ romNo = Zeros
      BY Zenon DEF Init, SearchInit
    <3>2. {} \subseteq bus
      OBVIOUS
    <3> QED BY <3>1, <3>2, ZerosIsAnAddress, Zenon DEF SearchTypeOK
  <2>2. TaskTypeOK
    BY DEF Init, TaskTypeOK, Places
  <2> QED BY <1>0, <2>1, <2>2
<1>2. TypeOK /\ [Next]_vars => TypeOK'
  <2> SUFFICES ASSUME TypeOK, [Next]_vars PROVE SearchTypeOK' /\ TaskTypeOK'
    BY DEF TypeOK, SearchTypeOK, TaskTypeOK
  <2>0. SearchTypeOK /\ TaskTypeOK
    BY <1>0
  <2>1. CASE Searching
    BY <2>0, <2>1, SearchKeepsTypes DEF Searching, taskVars, outside, TaskTypeOK
  <2>2. CASE Found
    <3>1. SearchTypeOK'
      BY <2>2, SearchKeepsTypes DEF Found
    <3>2. romNo' \in Addresses
      BY <3>1 DEF SearchTypeOK
    <3>3. (devices + 1) % CountRange \in Nat
      BY <2>0 DEF TaskTypeOK
    <3> QED BY <2>0, <2>2, <3>1, <3>2, <3>3 DEF Found, outside, TaskTypeOK, Places
  <2>3. CASE SearchFails
    BY <2>0, <2>3, SearchKeepsTypes DEF SearchFails, outside, TaskTypeOK, Places
  <2>4. CASE RequestTemperatures
    BY <2>0, <2>4 DEF RequestTemperatures, searchVars, TaskTypeOK, SearchTypeOK, Places
  <2>5. CASE Converted \/ ConversionTimeout
    BY <2>0, <2>5, SearchKeepsTypes DEF Converted, ConversionTimeout, outside, TaskTypeOK, Places
  <2>6. CASE GetTemp
    <3>1. romNo \in bus => Reading(scratchpad[romNo]) \in {"measured", "old", "poweron"}
      BY <2>0 DEF SearchTypeOK, TaskTypeOK, Reading
    <3> QED BY <2>0, <2>6, <3>1 DEF GetTemp, searchVars, outside, TaskTypeOK, SearchTypeOK, Places
  <2>7. CASE Measured
    BY <2>0, <2>7 DEF Measured, searchVars, taskVars, TaskTypeOK, SearchTypeOK
  <2>8. CASE Plugged
    <3>1. PICK r \in Roms :
            \/ Plug(r) /\ scratchpad' = [scratchpad EXCEPT ![r] = "poweron"]
            \/ Unplug(r) /\ UNCHANGED scratchpad
      BY <2>8, Zenon DEF Plugged
    <3>2. changes' \in Nat /\ scratchpad' \in [Roms -> {"poweron", "busy", "fresh"}]
      BY <2>0, <2>8, <3>1 DEF Plugged, TaskTypeOK
    <3>3. steady' \in BOOLEAN /\ UNCHANGED taskVars
      BY <2>8, Zenon DEF Plugged
    <3>4. TaskTypeOK'
      BY <2>0, <3>2, <3>3, Zenon DEF TaskTypeOK, taskVars
    <3>5. bus' \subseteq Roms /\ listening' \subseteq bus'
      BY <2>0, <3>1 DEF Plug, Unplug, searchVars, SearchTypeOK
    <3>6. UNCHANGED <<idBit, lastZero, lastDiscrepancy, lastDeviceFlag, romNo>>
      BY <3>1, Zenon DEF Plug, Unplug, searchVars
    <3> QED BY <2>0, <3>4, <3>5, <3>6, Zenon DEF SearchTypeOK
  <2>9. CASE UNCHANGED vars
    BY <2>0, <2>9 DEF vars, searchVars, taskVars, TaskTypeOK, SearchTypeOK
  <2> QED BY <2>1, <2>2, <2>3, <2>4, <2>5, <2>6, <2>7, <2>8, <2>9 DEF Next, Task
<1> QED BY <1>1, <1>2, PTL DEF Spec

-----------------------------------------------------------------------------
\* Every device that still takes part has the address that was written so far,
\* and only begin() and getAddress search.
ListenInv ==
  /\ idBit # 0 => at \in {"begin", "getAddress"}
  /\ \A r \in listening : \A i \in Bits : i < idBit => r[i] = romNo[i]

\* A step of the search keeps this, because the devices that disagree drop out.
LEMMA ListenKept ==
  ASSUME TypeOK, ListenInv, [Next]_vars
  PROVE  ListenInv'
<1> USE RomsAssumption
<1>1. CASE Searching /\ StartSearch
  BY <1>1 DEF Searching, StartSearch, taskVars, ListenInv, Bits
<1>2. CASE Searching /\ SearchBit
  <2>1. /\ idBit \in 1 .. Width /\ listening # {} /\ WriteBit
        /\ idBit' = idBit + 1 /\ at' = at /\ at \in {"begin", "getAddress"}
    BY <1>2 DEF Searching, SearchBit, taskVars
  <2>2. \A i \in Bits : i < idBit + 1 => i < idBit \/ i = idBit
    BY <2>1 DEF Bits
  <2> QED BY <2>1, <2>2, BitWritten DEF ListenInv
<1>3. CASE Found
  BY <1>3 DEF Found, LastBit, ListenInv, Bits
<1>4. CASE SearchFails
  BY <1>4, FailureTypes DEF SearchFails, ListenInv
<1>5. CASE RequestTemperatures
  BY <1>5 DEF RequestTemperatures, searchVars, ListenInv
<1>6. CASE Converted \/ ConversionTimeout
  <2>1. idBit = 0 /\ idBit' = 0
    BY <1>6 DEF Converted, ConversionTimeout, ResetSearch, ListenInv
  <2> QED BY <2>1 DEF ListenInv, Bits
<1>7. CASE GetTemp
  BY <1>7 DEF GetTemp, searchVars, ListenInv
<1>8. CASE Measured
  BY <1>8 DEF Measured, searchVars, taskVars, ListenInv
<1>9. CASE Plugged
  BY <1>9 DEF Plugged, Plug, Unplug, searchVars, taskVars, ListenInv
<1>10. CASE UNCHANGED vars
  BY <1>10 DEF vars, searchVars, taskVars, ListenInv
<1> QED BY <1>1, <1>2, <1>3, <1>4, <1>5, <1>6, <1>7, <1>8, <1>9, <1>10
        DEF Next, Task, Searching

\* In every reachable state.
THEOREM Listening == Spec => []ListenInv
<1>1. Init => ListenInv
  BY RomsAssumption DEF Init, SearchInit, ListenInv, Bits
<1> QED BY <1>1, ListenKept, ThermometerTypes, PTL DEF Spec

\* A search never returns an address that is pieced together from several
\* devices, nor one of a device that has left (OneWire::search).
THEOREM SearchFindsAListener == Spec => FindsAListener
<1> USE RomsAssumption
<1>1. TypeOK /\ ListenInv
        => [LastBit => romNo' \in bus /\ listening' = {romNo'}]_vars
  <2> SUFFICES ASSUME TypeOK, ListenInv, LastBit
               PROVE  romNo' \in bus /\ listening' = {romNo'}
    OBVIOUS
  <2>1. idBit = Width /\ idBit \in 1 .. Width /\ listening # {} /\ WriteBit
    BY DEF LastBit
  <2>2. ASSUME NEW r \in listening' PROVE r = romNo' /\ r \in bus
    <3>1. r \in listening /\ r \in bus /\ r \in Addresses /\ romNo' \in Addresses
      BY <2>1, <2>2, BitWritten DEF TypeOK
    <3>2. ASSUME NEW i \in Bits PROVE r[i] = romNo'[i]
      <4>1. CASE i = idBit
        BY <2>1, <2>2, <4>1, BitWritten
      <4>2. CASE i # idBit
        <5>1. i < idBit
          BY <2>1, <4>2 DEF Bits
        <5> QED BY <2>1, <3>1, <4>2, <5>1, BitWritten DEF ListenInv
      <4> QED BY <4>1, <4>2
    <3> QED BY <3>1, <3>2 DEF Addresses
  <2>3. listening' # {}
    BY <2>1, BitWritten
  <2> QED BY <2>2, <2>3
<1> QED BY <1>1, ThermometerTypes, Listening, PTL DEF Spec, FindsAListener

-----------------------------------------------------------------------------
\* Behind a conversion that was waited for no connected sensor is converting.
ConversionInv ==
  at \in {"getAddress", "getTemp"} /\ ~gaveUp
    => \A r \in bus : scratchpad[r] # "busy"

\* Steps of the task and of the sensors keep this: a sensor that is plugged in
\* does not convert.
LEMMA ConversionKept ==
  ASSUME TypeOK, ConversionInv, [Next]_vars
  PROVE  ConversionInv'
<1>1. CASE Searching
  BY <1>1 DEF Searching, StartSearch, SearchBit, taskVars, outside, ConversionInv
<1>2. CASE Found
  BY <1>2 DEF Found, LastBit, outside, ConversionInv
<1>3. CASE SearchFails
  BY <1>3 DEF SearchFails, ConversionInv
<1>4. CASE RequestTemperatures
  BY <1>4 DEF RequestTemperatures, ConversionInv
<1>5. CASE Converted
  BY <1>5 DEF Converted, ResetSearch, outside, ConversionInv
<1>6. CASE ConversionTimeout
  BY <1>6 DEF ConversionTimeout, ConversionInv
<1>7. CASE GetTemp
  BY <1>7 DEF GetTemp, ConversionInv
<1>8. CASE Measured
  BY <1>8 DEF Measured, taskVars, ConversionInv, TypeOK
<1>9. CASE Plugged
  BY <1>9 DEF Plugged, Plug, Unplug, taskVars, ConversionInv, TypeOK
<1>10. CASE UNCHANGED vars
  BY <1>10 DEF vars, taskVars, ConversionInv
<1> QED BY <1>1, <1>2, <1>3, <1>4, <1>5, <1>6, <1>7, <1>8, <1>9, <1>10 DEF Next, Task

\* A reading is of this pass, unless the driver did not wait for the sensor
\* (blockTillConversionComplete).
THEOREM ReadingIsNew == Spec => NoOldReading
<1>1. Init => ConversionInv
  BY DEF Init, ConversionInv
<1>2. TypeOK /\ ConversionInv => [GetTemp /\ temp' = "old" => gaveUp]_vars
  <2> SUFFICES ASSUME TypeOK, ConversionInv, GetTemp, temp' = "old" PROVE gaveUp
    OBVIOUS
  <2>1. romNo \in bus /\ Reading(scratchpad[romNo]) = "old"
    BY DEF GetTemp
  <2>2. scratchpad[romNo] = "busy"
    BY <2>1 DEF Reading, TypeOK
  <2> QED BY <2>1, <2>2 DEF ConversionInv, GetTemp
<1> QED BY <1>1, <1>2, ConversionKept, ThermometerTypes, PTL DEF Spec, NoOldReading

-----------------------------------------------------------------------------
(* begin() goes through the devices in the order of their addresses, as     *)
(* numbers whose first bit counts most: the directions along a path p.      *)

Agree(p, r, k)  == \A i \in Bits : i < k => r[i] = p[i]
Before(p, r, k) == \E i \in Bits : i < k /\ Agree(p, r, i) /\ r[i] = 0 /\ p[i] = 1
After(p, r, k)  == \E i \in Bits : i < k /\ Agree(p, r, i) /\ r[i] = 1 /\ p[i] = 0

\* Below position k the path has left every other device to one of its sides.
Ordered(p, k) == \A r \in bus : Agree(p, r, k) \/ Before(p, r, k) \/ After(p, r, k)

\* z is the last position below k at which the path takes the 0 and some device
\* has a 1; there is none when z is 0.
LastBranch(p, z, k) ==
  /\ z # 0 => z < k /\ p[z] = 0 /\ \E r \in bus : Agree(p, r, z) /\ r[z] = 1
  /\ \A i \in Bits : z < i /\ i < k /\ p[i] = 0
       => \A r \in bus : Agree(p, r, i) => r[i] = 0

\* No search has returned yet.
First == found = {} /\ lastDiscrepancy = 0 /\ ~lastDeviceFlag

\* The last search has returned romNo, and the searches so far every device up
\* to it; LastDiscrepancy is where the next one leaves its path.
Returned ==
  /\ romNo \in bus
  /\ found = {r \in bus : r = romNo \/ Before(romNo, r, Width + 1)}
  /\ Ordered(romNo, Width + 1)
  /\ LastBranch(romNo, lastDiscrepancy, Width + 1)
  /\ lastDeviceFlag <=> lastDiscrepancy = 0

\* A search has decided the bits below k of the path p, with z for last_zero and
\* the devices l still listening.  Up to the last discrepancy it follows the
\* search before; behind it the devices before its path are those found.
Underway(p, z, l, k) ==
  /\ l = {r \in bus : Agree(p, r, k)} /\ l # {}
  /\ z < k /\ LastBranch(p, z, k)
  /\ ~lastDeviceFlag
  /\ IF k <= lastDiscrepancy THEN p = romNo /\ Returned
     ELSE found = {r \in bus : Before(p, r, k)} /\ Ordered(p, k)

EnumInv ==
  steady =>
    /\ found \subseteq bus /\ devices = Cardinality(found) % CountRange
    /\ at # "begin" => found = bus
    /\ at = "begin" => IF idBit = 0 THEN First \/ Returned
                       ELSE Underway(romNo, lastZero, listening, idBit)

\* One position more: a device that agrees so far goes on with the path or
\* leaves it to one of its sides.
LEMMA NextPosition ==
  ASSUME NEW p, NEW r, NEW k \in Bits
  PROVE  /\ Agree(p, r, k + 1) <=> Agree(p, r, k) /\ r[k] = p[k]
         /\ Before(p, r, k + 1) <=> Before(p, r, k) \/ (Agree(p, r, k) /\ r[k] = 0 /\ p[k] = 1)
         /\ After(p, r, k + 1) <=> After(p, r, k) \/ (Agree(p, r, k) /\ r[k] = 1 /\ p[k] = 0)
<1>1. \A i \in Bits : i < k + 1 <=> i < k \/ i = k
  BY RomsAssumption DEF Bits
<1> QED BY <1>1 DEF Agree, Before, After

\* What is said of the positions below k is the same for paths that agree there.
LEMMA SamePath ==
  ASSUME NEW p, NEW q, NEW k \in 0 .. Width + 1, Agree(p, q, k)
  PROVE  \A r : \A j \in 0 .. Width + 1 : j <= k =>
           /\ Agree(p, r, j) <=> Agree(q, r, j)
           /\ Before(p, r, j) <=> Before(q, r, j)
           /\ After(p, r, j) <=> After(q, r, j)
<1> USE RomsAssumption
<1> SUFFICES ASSUME NEW r, NEW j \in 0 .. Width + 1, j <= k
             PROVE  /\ Agree(p, r, j) <=> Agree(q, r, j)
                    /\ Before(p, r, j) <=> Before(q, r, j)
                    /\ After(p, r, j) <=> After(q, r, j)
  OBVIOUS
<1>1. \A i \in Bits : i < j => p[i] = q[i]
  BY DEF Agree, Bits
<1>2. \A m \in 0 .. Width + 1 : m <= j => (Agree(p, r, m) <=> Agree(q, r, m))
  BY <1>1 DEF Agree, Bits
<1>3. \A i \in Bits : i < j => i \in 0 .. Width + 1 /\ i <= j
  BY DEF Bits
<1> QED BY <1>1, <1>2, <1>3 DEF Before, After

\* The whole path is one address, and no address is before itself.
LEMMA WholePath ==
  ASSUME NEW p \in Addresses, NEW r \in Addresses
  PROVE  /\ Agree(p, r, Width + 1) <=> r = p
         /\ ~Before(p, p, Width + 1)
<1>1. \A i \in Bits : i < Width + 1
  BY RomsAssumption DEF Bits
<1>2. Agree(p, r, Width + 1) => \A i \in Bits : r[i] = p[i]
  BY <1>1 DEF Agree
<1>3. (\A i \in Bits : r[i] = p[i]) => r = p
  BY DEF Addresses
<1>4. r = p => Agree(p, r, Width + 1)
  BY DEF Agree
<1>5. ~Before(p, p, Width + 1)
  BY DEF Before
<1> QED BY <1>2, <1>3, <1>4, <1>5

\* What the search decides at position idBit: where nobody or everybody of the
\* listening devices has a 1 there is no choice; and up to the last discrepancy
\* it takes the path of the search before, at the discrepancy the 1.
LEMMA DirectionTaken ==
  ASSUME TypeOK, idBit \in 1 .. Width, listening # {}
  PROVE  /\ ~Differ => \A r \in listening : r[idBit] = Direction
         /\ Differ /\ idBit > lastDiscrepancy => Direction = 0
         /\ Differ /\ idBit = lastDiscrepancy => Direction = 1
         /\ Differ /\ idBit < lastDiscrepancy => Direction = romNo[idBit]
<1> USE RomsAssumption
<1>1. (CHOOSE r \in listening : TRUE) \in listening
  OBVIOUS
<1>2. ~Differ => \A r \in listening : r[idBit] = Direction
  BY <1>1 DEF Differ, Direction
<1>3. idBit \in Int /\ lastDiscrepancy \in Int
  BY DEF TypeOK
<1> QED BY <1>2, <1>3 DEF Direction

\* A bit is written: the devices that go on with the new path are those that
\* listen then, and lastZero is its last branch.
LEMMA PathGoesOn ==
  ASSUME TypeOK, idBit \in 1 .. Width, WriteBit,
         Underway(romNo, lastZero, listening, idBit)
  PROVE  /\ romNo' \in Addresses /\ Agree(romNo, romNo', idBit)
         /\ romNo'[idBit] = Direction
         /\ listening' = {r \in bus : Agree(romNo', r, idBit + 1)} /\ listening' # {}
         /\ ZeroHere < idBit + 1 /\ LastBranch(romNo', ZeroHere, idBit + 1)
<1> USE RomsAssumption
<1>1. idBit \in Bits /\ idBit \in 0 .. Width + 1 /\ lastZero \in 0 .. Width /\ lastZero < idBit
  BY DEF Bits, TypeOK, Underway
<1>2. listening = {r \in bus : Agree(romNo, r, idBit)} /\ listening # {}
  BY DEF Underway
<1>3. /\ romNo' \in Addresses /\ listening' # {}
      /\ \A i \in Bits : i # idBit => romNo'[i] = romNo[i]
  BY <1>2, BitWritten
<1>4. romNo'[idBit] = Direction /\ listening' = {r \in listening : r[idBit] = Direction}
  BY <1>1 DEF WriteBit, TypeOK, Addresses
<1>5. Agree(romNo, romNo', idBit)
  BY <1>1, <1>3 DEF Agree, Bits
<1>6. \A r : \A j \in 0 .. Width + 1 : j <= idBit => (Agree(romNo, r, j) <=> Agree(romNo', r, j))
  BY <1>1, <1>5, SamePath
<1>7. listening' = {r \in bus : Agree(romNo', r, idBit + 1)}
  BY <1>1, <1>2, <1>4, <1>6, NextPosition
<1>8. Direction \in {0, 1} /\ \A r \in listening : r[idBit] \in {0, 1}
  BY <1>1, <1>2, DirectionIsSent DEF TypeOK, Addresses
<1>9. ZeroHere < idBit + 1
  BY <1>1 DEF ZeroHere
<1>10. LastBranch(romNo', ZeroHere, idBit + 1)
  <2>0. LastBranch(romNo, lastZero, idBit)
    BY DEF Underway
  <2>1. ASSUME ZeroHere # 0
        PROVE  romNo'[ZeroHere] = 0 /\ \E r \in bus : Agree(romNo', r, ZeroHere) /\ r[ZeroHere] = 1
    <3>1. CASE Differ /\ Direction = 0
      <4>1. ZeroHere = idBit
        BY <3>1 DEF ZeroHere
      <4>2. PICK r \in listening : r[idBit] = 1
        BY <1>8, <3>1 DEF Differ
      <4>3. r \in bus /\ Agree(romNo', r, idBit)
        BY <1>1, <1>2, <1>6, <4>2
      <4> QED BY <1>4, <3>1, <4>1, <4>2, <4>3
    <3>2. CASE ~(Differ /\ Direction = 0)
      <4>1. ZeroHere = lastZero /\ lastZero # 0
        BY <2>1, <3>2 DEF ZeroHere
      <4>2. lastZero \in Bits /\ lastZero # idBit /\ lastZero \in 0 .. Width + 1 /\ lastZero <= idBit
        BY <1>1, <4>1 DEF Bits
      <4>3. romNo[lastZero] = 0 /\ \E r \in bus : Agree(romNo, r, lastZero) /\ r[lastZero] = 1
        BY <2>0, <4>1 DEF LastBranch
      <4> QED BY <1>3, <1>6, <4>1, <4>2, <4>3
    <3> QED BY <3>1, <3>2
  <2>2. ASSUME NEW i \in Bits, ZeroHere < i, i < idBit + 1, romNo'[i] = 0,
               NEW r \in bus, Agree(romNo', r, i)
        PROVE  r[i] = 0
    <3>1. i \in 0 .. Width + 1 /\ i <= idBit
      BY <1>1, <2>2 DEF Bits
    <3>2. Agree(romNo, r, i)
      BY <1>6, <2>2, <3>1
    <3>3. CASE i = idBit
      <4>1. Direction = 0 /\ ~Differ
        BY <1>1, <1>4, <2>2, <3>3 DEF ZeroHere
      <4>2. r \in listening
        BY <1>2, <3>2, <3>3
      <4> QED BY <1>2, <3>3, <4>1, <4>2, DirectionTaken
    <3>4. CASE i # idBit
      <4>1. i < idBit /\ ZeroHere = lastZero
        BY <1>1, <2>2, <3>1, <3>4 DEF ZeroHere
      <4>2. romNo[i] = 0
        BY <1>3, <2>2, <3>4
      <4> QED BY <2>0, <2>2, <3>2, <4>1, <4>2 DEF LastBranch
    <3> QED BY <3>3, <3>4
  <2> QED BY <1>9, <2>1, <2>2 DEF LastBranch
<1> QED BY <1>3, <1>4, <1>5, <1>7, <1>9, <1>10

\* Up to the last discrepancy the search takes the path of the one before: some
\* device that was not found takes it there.
LEMMA OldPathFollowed ==
  ASSUME TypeOK, idBit \in 1 .. Width, Underway(romNo, lastZero, listening, idBit),
         idBit <= lastDiscrepancy
  PROVE  /\ idBit < lastDiscrepancy => Direction = romNo[idBit]
         /\ idBit = lastDiscrepancy => Direction = 1
<1> USE RomsAssumption
<1>1. /\ lastDiscrepancy \in Bits /\ lastDiscrepancy # 0 /\ idBit \in Bits /\ listening # {}
      /\ listening = {r \in bus : Agree(romNo, r, idBit)}
      /\ Returned
  BY DEF TypeOK, Bits, Underway
<1>2. /\ romNo[lastDiscrepancy] = 0
      /\ \E r \in bus : Agree(romNo, r, lastDiscrepancy) /\ r[lastDiscrepancy] = 1
  BY <1>1 DEF Returned, LastBranch
<1>3. PICK r \in bus : Agree(romNo, r, lastDiscrepancy) /\ r[lastDiscrepancy] = 1
  BY <1>2
<1>4. r \in listening
  BY <1>1, <1>3 DEF Agree, Bits
<1>5. CASE idBit < lastDiscrepancy
  <2>1. r[idBit] = romNo[idBit]
    BY <1>1, <1>3, <1>5 DEF Agree
  <2> QED BY <1>1, <1>4, <1>5, <2>1, DirectionTaken
<1>6. CASE idBit = lastDiscrepancy
  <2>1. romNo \in listening
    BY <1>1 DEF Returned, Agree
  <2>2. Differ
    BY <1>2, <1>3, <1>4, <1>6, <2>1 DEF Differ
  <2> QED BY <1>1, <1>6, <2>2, DirectionTaken
<1> QED BY <1>5, <1>6

\* At the last discrepancy the new path leaves the old one to the 1: the
\* devices that were found are those before it.
LEMMA NewBranchTaken ==
  ASSUME Returned, lastDiscrepancy \in Bits, NEW q, Agree(romNo, q, lastDiscrepancy),
         q[lastDiscrepancy] = 1, romNo \in Addresses, bus \subseteq Addresses
  PROVE  /\ found = {r \in bus : Before(q, r, lastDiscrepancy + 1)}
         /\ Ordered(q, lastDiscrepancy + 1)
<1> USE RomsAssumption
<1> DEFINE d == lastDiscrepancy
<1>1. d \in 0 .. Width + 1 /\ d + 1 \in 0 .. Width + 1 /\ d # 0 /\ romNo[d] = 0 /\ q[d] = 1
  BY DEF Bits, Returned, LastBranch
<1>2. \A r : /\ Agree(romNo, r, d) <=> Agree(q, r, d)
             /\ Before(romNo, r, d) <=> Before(q, r, d)
             /\ After(romNo, r, d) <=> After(q, r, d)
  BY <1>1, SamePath
<1>3. ASSUME NEW r \in bus
      PROVE  /\ Agree(q, r, d + 1) <=> Agree(romNo, r, d) /\ r[d] = 1
             /\ Before(q, r, d + 1) <=> Before(romNo, r, d) \/ (Agree(romNo, r, d) /\ r[d] = 0)
             /\ After(q, r, d + 1) <=> After(romNo, r, d)
  BY <1>1, <1>2, NextPosition
<1>4. ASSUME NEW r \in bus, Before(romNo, r, Width + 1)
      PROVE  Before(romNo, r, d) \/ (Agree(romNo, r, d) /\ r[d] = 0)
  <2>1. PICK i \in Bits : Agree(romNo, r, i) /\ r[i] = 0 /\ romNo[i] = 1
    BY <1>4 DEF Before
  <2>2. CASE i < d
    BY <2>1, <2>2 DEF Before
  <2>3. CASE i > d
    BY <1>1, <2>1, <2>3 DEF Agree, Bits
  <2>4. i # d
    BY <1>1, <2>1
  <2> QED BY <2>2, <2>3, <2>4 DEF Bits
<1>5. ASSUME NEW r \in bus, Before(romNo, r, d)
      PROVE  Before(romNo, r, Width + 1)
  BY <1>1, <1>5 DEF Before, Bits
<1>6. ASSUME NEW r \in bus, After(romNo, r, Width + 1)
      PROVE  After(romNo, r, d) \/ (Agree(romNo, r, d) /\ r[d] = 1)
  <2>1. PICK i \in Bits : Agree(romNo, r, i) /\ r[i] = 1 /\ romNo[i] = 0
    BY <1>6 DEF After
  <2>2. i < Width + 1 /\ ~(d < i)
    BY <2>1 DEF Returned, LastBranch, Bits
  <2>3. CASE i < d
    BY <2>1, <2>3 DEF After
  <2> QED BY <1>1, <2>1, <2>2, <2>3 DEF Bits
<1>7. \A r \in bus : r = romNo \/ Before(romNo, r, Width + 1) \/ After(romNo, r, Width + 1)
  BY WholePath DEF Returned, Ordered
<1>8. Agree(romNo, romNo, d) /\ romNo[d] = 0
  BY <1>1 DEF Agree
<1>9. ASSUME NEW r \in bus
      PROVE  ~(After(romNo, r, d) /\ Before(romNo, r, d)) /\ ~(After(romNo, r, d) /\ Agree(romNo, r, d))
  <2>1. ASSUME After(romNo, r, d) PROVE ~Agree(romNo, r, d)
    BY <2>1 DEF After, Agree
  <2>2. ASSUME After(romNo, r, d), Before(romNo, r, d) PROVE FALSE
    <3>1. PICK i \in Bits : i < d /\ Agree(romNo, r, i) /\ r[i] = 1 /\ romNo[i] = 0
      BY <2>2 DEF After
    <3>2. PICK j \in Bits : j < d /\ Agree(romNo, r, j) /\ r[j] = 0 /\ romNo[j] = 1
      BY <2>2 DEF Before
    <3>3. i # j
      BY <3>1, <3>2
    <3>4. ~(i < j) /\ ~(j < i)
      BY <3>1, <3>2 DEF Agree
    <3> QED BY <3>3, <3>4 DEF Bits
  <2> QED BY <2>1, <2>2
<1>10. ASSUME NEW r \in bus
       PROVE  r \in found <=> Before(q, r, d + 1)
  BY <1>3, <1>4, <1>5, <1>6, <1>7, <1>8, <1>9 DEF Returned
<1>11. Ordered(q, d + 1)
  BY <1>3, <1>4, <1>6, <1>7, <1>8 DEF Ordered
<1> QED BY <1>10, <1>11 DEF Returned

\* One bit of a search: what Underway says of the position, it says of the next.
LEMMA BitDecided ==
  ASSUME TypeOK, idBit \in 1 .. Width, WriteBit,
         Underway(romNo, lastZero, listening, idBit)
  PROVE  Underway(romNo', ZeroHere, listening', idBit + 1)
<1> USE RomsAssumption
<1>1. /\ romNo' \in Addresses /\ romNo \in Addresses /\ Agree(romNo, romNo', idBit)
      /\ romNo'[idBit] = Direction /\ bus \subseteq Addresses
  BY PathGoesOn DEF TypeOK
<1>2. idBit \in Bits /\ lastDiscrepancy \in 0 .. Width
  BY DEF Bits, TypeOK
<1>3. CASE idBit < lastDiscrepancy
  <2>1. idBit <= lastDiscrepancy /\ idBit + 1 <= lastDiscrepancy
    BY <1>2, <1>3 DEF Bits
  <2>2. Direction = romNo[idBit]
    BY <1>3, <2>1, OldPathFollowed
  <2>3. romNo' = romNo
    BY <2>2 DEF WriteBit, TypeOK, Addresses
  <2>4. Returned /\ ~lastDeviceFlag
    BY <2>1 DEF Underway
  <2> QED BY <2>1, <2>3, <2>4, PathGoesOn DEF Underway
<1>4. CASE idBit = lastDiscrepancy
  <2>1. idBit <= lastDiscrepancy /\ ~(idBit + 1 <= lastDiscrepancy)
    BY <1>2, <1>4 DEF Bits
  <2>2. romNo'[lastDiscrepancy] = 1 /\ Agree(romNo, romNo', lastDiscrepancy)
    BY <1>1, <1>4, <2>1, OldPathFollowed
  <2>3. Returned /\ ~lastDeviceFlag
    BY <2>1 DEF Underway
  <2>4. /\ found = {r \in bus : Before(romNo', r, idBit + 1)}
        /\ Ordered(romNo', idBit + 1)
    BY <1>1, <1>2, <1>4, <2>2, <2>3, NewBranchTaken
  <2> QED BY <2>1, <2>3, <2>4, PathGoesOn DEF Underway
<1>5. CASE idBit > lastDiscrepancy
  <2>1. ~(idBit <= lastDiscrepancy) /\ ~(idBit + 1 <= lastDiscrepancy)
    BY <1>2, <1>5 DEF Bits
  <2>2. /\ ~lastDeviceFlag /\ listening # {}
        /\ listening = {r \in bus : Agree(romNo, r, idBit)}
        /\ found = {r \in bus : Before(romNo, r, idBit)} /\ Ordered(romNo, idBit)
    BY <2>1 DEF Underway
  <2>3. \A r : /\ Agree(romNo, r, idBit) <=> Agree(romNo', r, idBit)
               /\ Before(romNo, r, idBit) <=> Before(romNo', r, idBit)
               /\ After(romNo, r, idBit) <=> After(romNo', r, idBit)
    <3>1. idBit \in 0 .. Width + 1 /\ idBit <= idBit
      BY <1>2 DEF Bits
    <3> QED BY <1>1, <3>1, SamePath
  <2>4. Direction \in {0, 1} /\ (Direction = 1 => \A r \in listening : r[idBit] = 1)
    BY <1>2, <1>5, <2>2, DirectionIsSent, DirectionTaken
  <2>5. \A r \in bus : r[idBit] \in {0, 1}
    BY <1>1, <1>2 DEF Addresses
  <2>6. ASSUME NEW r \in bus
        PROVE  /\ Before(romNo', r, idBit + 1) <=> Before(romNo, r, idBit)
               /\ Agree(romNo', r, idBit + 1) \/ Before(romNo', r, idBit + 1)
                    \/ After(romNo', r, idBit + 1)
    <3>1. Agree(romNo, r, idBit) => r \in listening
      BY <2>2
    <3>2. Agree(romNo, r, idBit) /\ Direction = 1 => r[idBit] = 1
      BY <2>4, <3>1
    <3>3. /\ Agree(romNo', r, idBit + 1) <=> Agree(romNo, r, idBit) /\ r[idBit] = Direction
          /\ Before(romNo', r, idBit + 1)
               <=> Before(romNo, r, idBit) \/ (Agree(romNo, r, idBit) /\ r[idBit] = 0 /\ Direction = 1)
          /\ After(romNo', r, idBit + 1)
               <=> After(romNo, r, idBit) \/ (Agree(romNo, r, idBit) /\ r[idBit] = 1 /\ Direction = 0)
      BY <1>1, <1>2, <2>3, NextPosition
    <3>4. Agree(romNo, r, idBit) \/ Before(romNo, r, idBit) \/ After(romNo, r, idBit)
      BY <2>2 DEF Ordered
    <3> QED BY <2>4, <2>5, <3>2, <3>3, <3>4
  <2>7. found = {r \in bus : Before(romNo', r, idBit + 1)} /\ Ordered(romNo', idBit + 1)
    BY <2>2, <2>6 DEF Ordered
  <2> QED BY <2>1, <2>2, <2>7, PathGoesOn DEF Underway
<1> QED BY <1>2, <1>3, <1>4, <1>5 DEF Bits

\* A counter of C values that counts one more.
LEMMA CountOneMore ==
  ASSUME NEW n \in Nat, NEW C \in Nat \ {0}
  PROVE  ((n % C) + 1) % C = (n + 1) % C
<1> DEFINE q == n \div C
           r == n % C
<1>1. q \in Nat /\ r \in 0 .. C - 1 /\ n = q * C + r
  OBVIOUS
<1>2. n % C = r
  OBVIOUS
<1> HIDE DEF q, r
<1>3. CASE r + 1 < C
  <2>1. (q * C + (r + 1)) % C = r + 1 /\ (r + 1) % C = r + 1
    BY <1>1, <1>3
  <2>2. n + 1 = q * C + (r + 1)
    BY <1>1
  <2> QED BY <1>2, <2>1, <2>2
<1>4. CASE r + 1 = C
  <2>1. n + 1 = (q + 1) * C
    BY <1>1, <1>4
  <2>2. ((q + 1) * C) % C = 0 /\ C % C = 0
    BY <1>1
  <2> QED BY <1>2, <1>4, <2>1, <2>2
<1> QED BY <1>1, <1>3, <1>4

\* Before begin() has found anything.
LEMMA NothingFound ==
  ASSUME Init
  PROVE  EnumInv
<1>1. Cardinality({}) = 0
  BY FS_EmptySet
<1>2. 0 % CountRange = 0
  BY ChangesAssumption
<1> QED BY <1>1, <1>2 DEF Init, SearchInit, EnumInv, First

\* A first search, or one after a search that left a branch, has its whole path
\* before it.
LEMMA SearchStarts ==
  ASSUME TypeOK, First \/ Returned, StartSearch, UNCHANGED found
  PROVE  Underway(romNo, lastZero, listening, idBit)'
<1> USE RomsAssumption
<1>1. /\ idBit' = 1 /\ lastZero' = 0 /\ listening' = bus /\ bus # {} /\ ~lastDeviceFlag
      /\ UNCHANGED <<bus, romNo, lastDiscrepancy, lastDeviceFlag, found>>
  BY DEF StartSearch
<1>2. \A p, r : Agree(p, r, 1) /\ ~Before(p, r, 1)
  BY DEF Agree, Before, Bits
<1>3. LastBranch(romNo, 0, 1)
  BY DEF LastBranch, Bits
<1>4. lastDiscrepancy \in Nat
  BY DEF TypeOK
<1>5. CASE First
  <2>1. ~(1 <= lastDiscrepancy) /\ found = {}
    BY <1>5 DEF First
  <2>2. Underway(romNo, 0, bus, 1)
    BY <1>1, <1>2, <1>3, <2>1 DEF Underway, Ordered
  <2> QED BY <1>1, <2>2 DEF Underway, Ordered, Returned, LastBranch
<1>6. CASE Returned
  <2>1. 1 <= lastDiscrepancy
    BY <1>1, <1>4, <1>6 DEF Returned
  <2>2. Underway(romNo, 0, bus, 1)
    BY <1>1, <1>2, <1>3, <1>6, <2>1 DEF Underway
  <2> QED BY <1>1, <2>2 DEF Underway, Ordered, Returned, LastBranch
<1> QED BY <1>5, <1>6

\* The last bit of a search adds a device to those found, behind all of them.
LEMMA SearchReturns ==
  ASSUME TypeOK, Underway(romNo, lastZero, listening, idBit), LastBit,
         found' = found \cup {romNo'}
  PROVE  romNo' \in bus /\ romNo' \notin found /\ Returned'
<1> USE RomsAssumption
<1>0. lastDeviceFlag' <=> ZeroHere = 0
  BY Zenon DEF LastBit
<1>1. /\ idBit = Width /\ idBit \in 1 .. Width /\ WriteBit /\ bus' = bus
      /\ lastDiscrepancy' = ZeroHere
  BY DEF LastBit
<1>2. Underway(romNo', ZeroHere, listening', Width + 1)
  BY <1>1, BitDecided
<1>3. ~(Width + 1 <= lastDiscrepancy)
  BY DEF TypeOK
<1>4. /\ listening' = {r \in bus : Agree(romNo', r, Width + 1)} /\ listening' # {}
      /\ LastBranch(romNo', ZeroHere, Width + 1)
      /\ found = {r \in bus : Before(romNo', r, Width + 1)} /\ Ordered(romNo', Width + 1)
  BY <1>2, <1>3 DEF Underway
<1>5. romNo' \in Addresses /\ bus \subseteq Addresses
  BY <1>1, BitWritten DEF LastBit, TypeOK
<1>6. romNo' \in bus /\ romNo' \notin found
  BY <1>4, <1>5, WholePath
<1>7. found' = {r \in bus : r = romNo' \/ Before(romNo', r, Width + 1)}
  BY <1>4, <1>6
<1> QED BY <1>0, <1>1, <1>4, <1>6, <1>7 DEF Returned, Ordered, LastBranch

\* When nothing is left to branch to, every device is before the last or is it.
LEMMA NothingLeft ==
  ASSUME TypeOK, Returned, lastDeviceFlag
  PROVE  found = bus
<1>1. lastDiscrepancy = 0
  BY DEF Returned
<1>2. ASSUME NEW r \in bus PROVE ~After(romNo, r, Width + 1)
  BY <1>1, <1>2 DEF Returned, LastBranch, After, Bits
<1>3. bus \subseteq Addresses /\ romNo \in Addresses
  BY RomsAssumption DEF TypeOK
<1> QED BY <1>2, <1>3, WholePath DEF Returned, Ordered

\* What begin() knows depends on these variables only.
enumVars == <<bus, found, devices, steady, at, idBit, lastZero, listening,
              lastDiscrepancy, lastDeviceFlag, romNo>>

\* Every step keeps the enumeration, up to the first change of the bus.
LEMMA EnumKept ==
  ASSUME TypeOK, EnumInv, [Next]_vars
  PROVE  EnumInv'
<1> USE RomsAssumption, ChangesAssumption
<1> SUFFICES ASSUME steady' PROVE EnumInv'
  BY DEF EnumInv
<1>0. ASSUME UNCHANGED enumVars PROVE EnumInv'
  BY <1>0, Zenon DEF enumVars, EnumInv, First, Returned, Underway, Ordered, LastBranch
<1>1. CASE Plugged
  BY <1>1 DEF Plugged
<1>2. CASE Measured \/ UNCHANGED vars
  <2>1. UNCHANGED enumVars
    BY <1>2, Zenon DEF Measured, vars, searchVars, taskVars, enumVars
  <2> QED BY <1>0, <2>1
<1>3. (steady /\ UNCHANGED <<bus, steady>>) \/ Plugged \/ Measured \/ UNCHANGED vars
  BY Zenon DEF Next, Task, Searching, Found, SearchFails, RequestTemperatures, Converted,
       ConversionTimeout, GetTemp, StartSearch, SearchBit, LastBit, NoSearch, NobodyLeft,
       ResetSearch, outside
<1> SUFFICES ASSUME steady, UNCHANGED <<bus, steady>>, Task PROVE EnumInv'
  BY <1>1, <1>2, <1>3, Zenon DEF Next
<1>4. /\ found \subseteq bus /\ devices = Cardinality(found) % CountRange
      /\ at # "begin" => found = bus
  BY DEF EnumInv
<1>5. ASSUME at # "begin", at' # "begin", UNCHANGED <<found, devices>> PROVE EnumInv'
  BY <1>4, <1>5 DEF EnumInv
<1>6. CASE RequestTemperatures \/ Converted \/ ConversionTimeout \/ GetTemp
  <2>1. at # "begin" /\ at' # "begin" /\ UNCHANGED <<found, devices>>
    BY <1>6 DEF RequestTemperatures, Converted, ConversionTimeout, GetTemp
  <2> QED BY <1>5, <2>1
<1>7. CASE at # "begin" /\ (Searching \/ Found \/ SearchFails)
  <2>1. at' # "begin" /\ UNCHANGED <<found, devices>>
    BY <1>7 DEF Searching, Found, SearchFails, taskVars
  <2> QED BY <1>5, <1>7, <2>1
<1>8. CASE at = "begin" /\ Searching
  <2>1. UNCHANGED <<found, devices, at>> /\ (StartSearch \/ SearchBit)
    BY <1>8, Zenon DEF Searching, taskVars
  <2>2. idBit' # 0 /\ Underway(romNo, lastZero, listening, idBit)'
    <3>1. CASE StartSearch
      <4>1. First \/ Returned
        BY <1>8, <3>1 DEF EnumInv, StartSearch
      <4> QED BY <2>1, <3>1, <4>1, SearchStarts DEF StartSearch
    <3>2. CASE SearchBit
      <4>1. /\ idBit \in 1 .. Width /\ idBit # 0 /\ WriteBit
            /\ idBit' = idBit + 1 /\ lastZero' = ZeroHere
            /\ UNCHANGED <<lastDiscrepancy, lastDeviceFlag>>
        BY <3>2 DEF SearchBit
      <4>2. Underway(romNo', ZeroHere, listening', idBit + 1)
        BY <1>8, <4>1, BitDecided DEF EnumInv
      <4>3. idBit + 1 <= lastDiscrepancy => romNo' = romNo
        BY <4>2 DEF Underway
      <4>4. Underway(romNo, lastZero, listening, idBit)'
        BY <2>1, <4>1, <4>2, <4>3 DEF Underway, Returned, Ordered, LastBranch
      <4> QED BY <4>1, <4>4
    <3> QED BY <2>1, <3>1, <3>2
  <2> QED BY <1>4, <1>8, <2>1, <2>2 DEF EnumInv
<1>9. CASE at = "begin" /\ Found
  <2>1. /\ LastBit /\ idBit # 0 /\ idBit' = 0 /\ at' = "begin"
        /\ found' = found \cup {romNo'} /\ devices' = (devices + 1) % CountRange
    BY <1>9 DEF Found, LastBit
  <2>2. romNo' \in bus /\ romNo' \notin found /\ Returned'
    BY <1>9, <2>1, SearchReturns DEF EnumInv
  <2>3. found' \subseteq bus'
    BY <1>4, <2>1, <2>2
  <2>4. IsFiniteSet(found)
    BY <1>4, FS_Subset DEF TypeOK
  <2>5. Cardinality(found) \in Nat /\ Cardinality(found') = Cardinality(found) + 1
    BY <2>1, <2>2, <2>4, FS_AddElement, FS_CardinalityType
  <2>6. devices' = Cardinality(found') % CountRange
    BY <1>4, <2>1, <2>5, CountOneMore
  <2> QED BY <2>1, <2>2, <2>3, <2>6 DEF EnumInv
<1>10. CASE at = "begin" /\ SearchFails
  <2>1. UNCHANGED <<found, devices>> /\ at' = "pass" /\ (NoSearch \/ NobodyLeft)
    BY <1>10 DEF SearchFails
  <2>2. found = bus
    <3>1. CASE NoSearch
      <4>1. (First \/ Returned) /\ (lastDeviceFlag \/ bus = {})
        BY <1>10, <3>1 DEF EnumInv, NoSearch
      <4>2. bus = {} => found = bus
        BY <1>4
      <4> QED BY <4>1, <4>2, NothingLeft DEF First
    <3>2. CASE NobodyLeft
      BY <1>10, <3>2 DEF EnumInv, NobodyLeft, Underway, TypeOK
    <3> QED BY <2>1, <3>1, <3>2
  <2> QED BY <1>4, <2>1, <2>2 DEF EnumInv
<1> QED BY <1>6, <1>7, <1>8, <1>9, <1>10 DEF Task

\* On a bus that does not change begin() gets every device and counts each once,
\* however many there are and whatever their addresses: each search takes up the
\* path of the last at its last discrepancy (OneWire::search).
THEOREM EveryDeviceIsCounted == Spec => []EveryDeviceOnce
<1>1. EnumInv => EveryDeviceOnce
  BY DEF EnumInv, EveryDeviceOnce
<1> QED BY <1>1, NothingFound, EnumKept, ThermometerTypes, PTL DEF Spec
=============================================================================
