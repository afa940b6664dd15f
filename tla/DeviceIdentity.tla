--------------------------- MODULE DeviceIdentity ---------------------------
(***************************************************************************)
(* The id under which the device polls the server: restored from flash by  *)
(* setup(), asked for by GetDeviceID, written back to flash, and used in   *)
(* every request afterwards.  Power may fail at any moment.                *)
(*                                                                         *)
(* Flash is the "waterpump" namespace of Preferences with its one key.     *)
(* Between putInt's set and its commit a loss of power may leave the old   *)
(* or the new value.  Every call of the flash driver may fail; Preferences *)
(* then logs the error, and the sketch does not look at what it returns.   *)
(***************************************************************************)
EXTENDS Naturals

CONSTANT Ids    \* the ids that the server assigns

ASSUME IdsAssumption == Ids \subseteq Nat \ {0}

VARIABLES
  serverId,    \* the id under which the server knows this device; 0: none
  stored,      \* deviceId in flash, 0 when the key is absent
  pending,     \* the value set and not committed, if there is one
  deviceId,
  started,     \* Preferences::_started: the namespace is open
  connected,   \* the device has joined the network
  joined,      \* history: it had joined it at some moment of this boot
  failed,      \* history: a call of the flash driver failed in this boot and
               \* none has stored the id since
  pc           \* the next step of setup()

flash == <<stored, pending>>
network == <<connected, joined>>
vars  == <<serverId, flash, deviceId, started, network, failed, pc>>

TypeOK ==
  /\ serverId \in Ids \cup {0} /\ stored \in Ids \cup {0}
  /\ deviceId \in Ids \cup {0} /\ pending \subseteq Ids \cup {0}
  /\ started \in BOOLEAN /\ connected \in BOOLEAN
  /\ joined \in BOOLEAN /\ failed \in BOOLEAN
  /\ pc \in {"boot", "load", "post", "ask", "begin", "put", "commit", "running"}

Init ==
  /\ serverId = 0 /\ stored = 0 /\ pending = {}
  /\ deviceId = 0 /\ started = FALSE /\ connected = FALSE
  /\ joined = FALSE /\ failed = FALSE
  /\ pc = "boot"

\* wMan.autoConnect returns, with or without the network (ConfigPortal).
AutoConnect ==
  /\ pc = "boot"
  /\ pc' = "load"
  /\ connected' \in BOOLEAN /\ joined' = connected'
  /\ UNCHANGED <<serverId, flash, deviceId, started, failed>>

\* The network comes or goes, with the router or in the background.
NetworkChanges ==
  /\ pc # "boot"
  /\ connected' = ~connected
  /\ joined' = TRUE
  /\ UNCHANGED <<serverId, flash, deviceId, started, failed, pc>>

\* prefs.begin and prefs.getInt.  The namespace stays open, or was not opened;
\* the default, 0, is returned then, and when the key cannot be read.
LoadId ==
  /\ pc = "load"
  /\ pc' = "post"
  /\ \/ started' = TRUE /\ deviceId' = stored /\ UNCHANGED failed
     \/ started' \in BOOLEAN /\ deviceId' = 0 /\ failed' = TRUE
  /\ UNCHANGED <<serverId, flash, network>>

\* PostNewDevice on every boot; nobody looks at the outcome.  A server that
\* hears of the device may assign it an id, or another one.
PostNewDevice ==
  /\ pc = "post"
  /\ pc' = "ask"
  /\ \/ UNCHANGED serverId
     \/ connected /\ serverId' \in Ids
  /\ UNCHANGED <<flash, deviceId, started, network, failed>>

\* GetDeviceID with code > 0: the id, or a page that reads as 0.
IdAnswered ==
  /\ pc = "ask" /\ connected
  /\ pc' = "begin"
  /\ deviceId' \in {serverId, 0}
  /\ UNCHANGED <<serverId, flash, started, network, failed>>

\* Slip: the empty answer of a failed request is taken for an id.
IdFailed_ReadsAnyway ==
  /\ pc = "ask"
  /\ pc' = "begin"
  /\ deviceId' = 0
  /\ UNCHANGED <<serverId, flash, started, network, failed>>

IdFailed ==
  /\ pc = "ask"
  /\ pc' = "running"
  /\ UNCHANGED <<serverId, flash, deviceId, started, network, failed>>

\* Slip: the refusal of the second begin is taken for a failure.
BeginAgain_GivesUp ==
  /\ pc = "begin"
  /\ pc' = IF started THEN "running" ELSE "put"
  /\ \/ started' = TRUE /\ UNCHANGED failed
     \/ ~started /\ started' = FALSE /\ failed' = TRUE
  /\ UNCHANGED <<serverId, flash, deviceId, network>>

\* prefs.begin: refused when the namespace is open already, which is ignored,
\* as is a failure to open it.
BeginAgain ==
  /\ pc = "begin"
  /\ pc' = "put"
  /\ \/ started' = TRUE /\ UNCHANGED failed
     \/ ~started /\ started' = FALSE /\ failed' = TRUE
  /\ UNCHANGED <<serverId, flash, deviceId, network>>

\* putInt returns, and prefs.end closes the namespace.
Ends == pc' = "running" /\ pending' = {} /\ started' = FALSE

\* nvs_set_i32 in putInt.  One that fails may have written the value.
PutInt ==
  /\ pc = "put" /\ started
  /\ \/ pc' = "commit" /\ pending' = {deviceId} /\ UNCHANGED <<stored, started, failed>>
     \/ Ends /\ stored' \in {stored, deviceId} /\ failed' = TRUE
  /\ UNCHANGED <<serverId, deviceId, network>>

\* putInt on a namespace that is not open does nothing.
PutRefused ==
  /\ pc = "put" /\ ~started
  /\ Ends
  /\ UNCHANGED <<serverId, stored, deviceId, network, failed>>

\* nvs_commit in putInt.
Commit ==
  /\ pc = "commit"
  /\ Ends
  /\ \/ stored' \in pending /\ failed' = FALSE
     \/ stored' \in {stored} \cup pending /\ failed' = TRUE
  /\ UNCHANGED <<serverId, deviceId, network>>

PowerLoss ==
  /\ pc # "boot"
  /\ pc' = "boot"
  /\ stored' \in {stored} \cup pending
  /\ pending' = {}
  /\ deviceId' = 0 /\ started' = FALSE /\ connected' = FALSE
  /\ joined' = FALSE /\ failed' = FALSE
  /\ UNCHANGED serverId

Next ==
  \/ AutoConnect \/ NetworkChanges \/ LoadId \/ PostNewDevice
  \/ IdAnswered \/ IdFailed
  \/ BeginAgain \/ PutInt \/ PutRefused \/ Commit
  \/ PowerLoss

Spec == Init /\ [][Next]_vars

-----------------------------------------------------------------------------
(* Properties.                                                             *)

\* The id that the device uses is the id it will find after a loss of power,
\* whether the server answered in this boot or not, and although GetDeviceID
\* opens the namespace a second time: unless the flash driver failed in this
\* boot, which the sketch does not notice, and the id was not stored since.  An
\* id that is stored in the end makes up for a namespace that could not be
\* opened, or a key that could not be read, at first.
IdSurvivesPowerLoss == pc = "running" /\ ~failed => deviceId = stored

\* A boot in which the device has not joined the network leaves the id in flash
\* as it is, at whatever step of setup() the power is lost again.
OutageKeepsId == [][ ~joined => stored' = stored ]_vars
=============================================================================
