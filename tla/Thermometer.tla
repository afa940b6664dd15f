---------------------------- MODULE Thermometer -----------------------------
(***************************************************************************)
(* DallasTemperature as the sketch uses it: begin() counts the sensors in  *)
(* setup(), if autoConnect returned TRUE; then each pass of the TempReader *)
(* task starts a conversion on all of them, waits for it, looks for the    *)
(* first sensor and reads it.                                              *)
(*                                                                         *)
(* The sensors measure by themselves while they are powered; one that is   *)
(* plugged in holds the power-on value.  What begin() reads of each sensor *)
(* (power supply, resolution) is left out.                                 *)
(***************************************************************************)
EXTENDS OneWire

CONSTANTS
  CountRange,   \* 2^8: devices is a uint8_t
  MaxChanges    \* bound on devices plugged and unplugged

ASSUME ChangesAssumption == CountRange \in Nat \ {0} /\ MaxChanges \in Nat

VARIABLES
  at,          \* where the task is
  devices,     \* devices: how many begin() has counted
  scratchpad,  \* what each sensor holds: "poweron", "busy" or "fresh"
  temp,        \* what getTempCByIndex returned last
  changes,     \* counter of plugged and unplugged devices
  found,       \* history: the addresses that begin() got
  steady,      \* history: no change since begin()
  gaveUp       \* history: the last conversion was not waited for to its end

taskVars == <<at, devices, temp, found, gaveUp>>
vars     == <<bus, searchVars, taskVars, scratchpad, changes, steady>>

Places == {"begin", "pass", "convert", "getAddress", "getTemp"}

TypeOK ==
  /\ bus \subseteq Roms /\ listening \subseteq bus
  /\ idBit \in 0 .. Width /\ lastZero \in 0 .. Width
  /\ lastDiscrepancy \in 0 .. Width /\ lastDeviceFlag \in BOOLEAN
  /\ romNo \in Addresses
  /\ at \in Places /\ devices \in Nat
  /\ scratchpad \in [Roms -> {"poweron", "busy", "fresh"}]
  /\ temp \in {"none", "disconnected", "poweron", "old", "measured"}
  /\ changes \in Nat /\ found \subseteq Addresses
  /\ steady \in BOOLEAN /\ gaveUp \in BOOLEAN

Init ==
  /\ SearchInit
  /\ at \in {"begin", "pass"} /\ devices = 0
  /\ scratchpad = [r \in Roms |-> "poweron"]
  /\ temp = "none" /\ changes = 0
  /\ found = {} /\ steady = (at = "begin") /\ gaveUp = FALSE

outside == <<scratchpad, changes, steady>>

-----------------------------------------------------------------------------
\* A search for begin() or for getAddress(0) goes on.
Searching ==
  /\ at \in {"begin", "getAddress"}
  /\ StartSearch \/ SearchBit
  /\ UNCHANGED <<taskVars, outside>>

\* begin() counts and goes on; getAddress(0) has what it looks for.
Found ==
  /\ at \in {"begin", "getAddress"}
  /\ LastBit
  /\ IF at = "begin"
     THEN devices' = (devices + 1) % CountRange /\ found' = found \cup {romNo'} /\ UNCHANGED at
     ELSE at' = "getTemp" /\ UNCHANGED <<devices, found>>
  /\ UNCHANGED <<temp, gaveUp, outside>>

SearchFails ==
  /\ at \in {"begin", "getAddress"}
  /\ NoSearch \/ NobodyLeft
  /\ at' = "pass"
  /\ temp' = IF at = "getAddress" THEN "disconnected" ELSE temp
  /\ UNCHANGED <<devices, found, gaveUp, outside>>

RequestTemperatures ==
  /\ at = "pass" /\ at' = "convert"
  /\ scratchpad' = [r \in Roms |-> IF r \in bus THEN "busy" ELSE scratchpad[r]]
  /\ gaveUp' = FALSE
  /\ UNCHANGED <<bus, searchVars, devices, temp, found, changes, steady>>

\* Slip: the wire is not looked at.
Converted_Unseen ==
  /\ at = "convert" /\ at' = "getAddress"
  /\ ResetSearch
  /\ UNCHANGED <<devices, temp, found, gaveUp, outside>>

\* Nobody pulls the wire down any more.
Converted ==
  /\ at = "convert" /\ at' = "getAddress"
  /\ \A r \in bus : scratchpad[r] # "busy"
  /\ ResetSearch
  /\ UNCHANGED <<devices, temp, found, gaveUp, outside>>

\* After 750 ms the task goes on anyway.
ConversionTimeout ==
  /\ at = "convert" /\ at' = "getAddress"
  /\ gaveUp' = TRUE
  /\ ResetSearch
  /\ UNCHANGED <<devices, temp, found, outside>>

\* A sensor that has not finished still holds what it measured before.
Reading(held) == CASE held = "fresh"   -> "measured"
                   [] held = "busy"    -> "old"
                   [] held = "poweron" -> "poweron"

\* A sensor that is gone leaves the wire at 1, which is no valid scratchpad.
GetTemp ==
  /\ at = "getTemp" /\ at' = "pass"
  /\ temp' = IF romNo \in bus THEN Reading(scratchpad[romNo]) ELSE "disconnected"
  /\ UNCHANGED <<bus, searchVars, devices, found, gaveUp, outside>>

-----------------------------------------------------------------------------
Measured ==
  /\ \E r \in bus : scratchpad[r] = "busy" /\ scratchpad' = [scratchpad EXCEPT ![r] = "fresh"]
  /\ UNCHANGED <<bus, searchVars, taskVars, changes, steady>>

Plugged ==
  /\ changes < MaxChanges /\ changes' = changes + 1
  /\ \E r \in Roms :
       \/ Plug(r) /\ scratchpad' = [scratchpad EXCEPT ![r] = "poweron"]
       \/ Unplug(r) /\ UNCHANGED scratchpad
  /\ steady' = FALSE
  /\ UNCHANGED taskVars

Task ==
  \/ Searching \/ Found \/ SearchFails
  \/ RequestTemperatures \/ Converted \/ ConversionTimeout \/ GetTemp

Next == Task \/ Measured \/ Plugged

\* The task runs; a sensor may measure for ever.
Spec == Init /\ [][Next]_vars /\ WF_vars(Task)

-----------------------------------------------------------------------------
(* Properties.                                                             *)

\* A search that returns TRUE returns the address of one device that listened
\* to the end, never one pieced together from several, whatever is plugged and
\* unplugged meanwhile (OneWire::search).
FindsAListener == [][ LastBit => romNo' \in bus /\ listening' = {romNo'} ]_vars

\* On a bus that does not change begin() gets every device, and counts each
\* once, in its uint8_t (OneWire::search, DallasTemperature::begin).
EveryDeviceOnce ==
  steady => /\ devices = Cardinality(found) % CountRange
            /\ at # "begin" => found = bus

\* What getTempCByIndex returns is no measurement of an earlier pass, unless
\* the sensor took longer than the driver waits (blockTillConversionComplete).
NoOldReading == [][ GetTemp /\ temp' = "old" => gaveUp ]_vars

\* begin() comes to an end once the bus stays as it is.
BeginEnds == <>(at # "begin")
=============================================================================
