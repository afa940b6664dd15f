------------------------------ MODULE OneWire -------------------------------
(***************************************************************************)
(* OneWire::search: find the next device on a bus on which all devices     *)
(* answer at once.  In each step every device that still takes part sends  *)
(* a bit of its address and then its complement, a 0 pulls the wire down   *)
(* for all, and the devices whose bit is not the one that the master then  *)
(* writes drop out.  Devices may be plugged and unplugged at any moment.   *)
(*                                                                         *)
(* Bits are read as they are sent: noise and timing are left out, and so   *)
(* are the searches by family and by alarm, which nothing calls.           *)
(***************************************************************************)
EXTENDS Naturals, FiniteSets

CONSTANTS
  Width,       \* bits of an address: 64
  FamilyBits,  \* bits of its first byte: 8
  Roms         \* the addresses of the devices that there are

Bits      == 1 .. Width
Addresses == [Bits -> {0, 1}]
Zeros     == [i \in Bits |-> 0]

\* ROM_NO[0] is not 0.
HasFamily(rom) == \E i \in 1 .. FamilyBits : rom[i] = 1

ASSUME RomsAssumption ==
  /\ Width \in Nat \ {0} /\ FamilyBits \in 1 .. Width
  /\ Roms \subseteq Addresses /\ IsFiniteSet(Roms)
  /\ \A r \in Roms : HasFamily(r)

VARIABLES
  bus,              \* the devices that are connected
  listening,        \* those that take part in the search
  idBit,            \* id_bit_number, or 0 when no search is going on
  lastZero,         \* last_zero
  lastDiscrepancy,  \* LastDiscrepancy
  lastDeviceFlag,   \* LastDeviceFlag
  romNo             \* ROM_NO

searchVars == <<listening, idBit, lastZero, lastDiscrepancy, lastDeviceFlag, romNo>>

SearchInit ==
  /\ bus \in SUBSET Roms
  /\ listening = {} /\ idBit = 0 /\ lastZero = 0
  /\ lastDiscrepancy = 0 /\ lastDeviceFlag = FALSE /\ romNo = Zeros

ResetSearch ==
  /\ lastDiscrepancy' = 0 /\ lastDeviceFlag' = FALSE /\ romNo' = Zeros
  /\ UNCHANGED <<bus, listening, idBit, lastZero>>

\* search returns FALSE, and the next one will be like a first.
NotFound ==
  /\ listening' = {} /\ idBit' = 0
  /\ lastDiscrepancy' = 0 /\ lastDeviceFlag' = FALSE

\* The last device has been found already, or nobody answers the reset.
NoSearch ==
  /\ idBit = 0
  /\ lastDeviceFlag \/ bus = {}
  /\ NotFound
  /\ UNCHANGED <<bus, lastZero, romNo>>

StartSearch ==
  /\ idBit = 0 /\ ~lastDeviceFlag /\ bus # {}
  /\ listening' = bus /\ idBit' = 1 /\ lastZero' = 0
  /\ UNCHANGED <<bus, lastDiscrepancy, lastDeviceFlag, romNo>>

Differ == \E r, s \in listening : r[idBit] # s[idBit]

\* Slip: the path of the search before is not followed.
Direction_Afresh ==
  IF Differ
  THEN IF idBit = lastDiscrepancy THEN 1 ELSE 0
  ELSE (CHOOSE r \in listening : TRUE)[idBit]

\* Where devices differ: the branch taken last time before the last
\* discrepancy, the other one there, and 0 behind it.
Direction ==
  IF Differ
  THEN IF idBit < lastDiscrepancy THEN romNo[idBit]
       ELSE IF idBit = lastDiscrepancy THEN 1 ELSE 0
  ELSE (CHOOSE r \in listening : TRUE)[idBit]

\* Slip: the devices that sent the other bit stay in the search.
WriteBit_NoneLeaves ==
  /\ romNo' = [romNo EXCEPT ![idBit] = Direction]
  /\ UNCHANGED listening

WriteBit ==
  /\ romNo' = [romNo EXCEPT ![idBit] = Direction]
  /\ listening' = {r \in listening : r[idBit] = Direction}

ZeroHere == IF Differ /\ Direction = 0 THEN idBit ELSE lastZero

\* Slip: one bit too many.
SearchBit_OneMore ==
  /\ idBit \in 1 .. Width /\ listening # {}
  /\ WriteBit
  /\ idBit' = idBit + 1 /\ lastZero' = ZeroHere
  /\ UNCHANGED <<bus, lastDiscrepancy, lastDeviceFlag>>

SearchBit ==
  /\ idBit \in 1 .. Width - 1 /\ listening # {}
  /\ WriteBit
  /\ idBit' = idBit + 1 /\ lastZero' = ZeroHere
  /\ UNCHANGED <<bus, lastDiscrepancy, lastDeviceFlag>>

\* Both bits read 1: everybody has left.
NobodyLeft ==
  /\ idBit > 0 /\ listening = {}
  /\ NotFound
  /\ UNCHANGED <<bus, lastZero, romNo>>

\* Slip: the last discrepancy is forgotten.
LastBit_ForgetsBranch ==
  /\ idBit = Width /\ listening # {}
  /\ WriteBit
  /\ idBit' = 0 /\ lastZero' = ZeroHere
  /\ lastDiscrepancy' = 0 /\ lastDeviceFlag' = (ZeroHere = 0)
  /\ UNCHANGED bus

\* The last bit: search returns TRUE.
LastBit ==
  /\ idBit = Width /\ listening # {}
  /\ WriteBit
  /\ idBit' = 0 /\ lastZero' = ZeroHere
  /\ lastDiscrepancy' = ZeroHere /\ lastDeviceFlag' = (ZeroHere = 0)
  /\ UNCHANGED bus

Plug(d) ==
  /\ d \notin bus /\ bus' = bus \cup {d}
  /\ UNCHANGED searchVars

Unplug(d) ==
  /\ d \in bus /\ bus' = bus \ {d}
  /\ listening' = listening \ {d}
  /\ UNCHANGED <<idBit, lastZero, lastDiscrepancy, lastDeviceFlag, romNo>>
=============================================================================
