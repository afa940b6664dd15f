---------------------------- MODULE ConfigPortal ----------------------------
(***************************************************************************)
(* WiFiManager::autoConnect as setup() calls it: join the network whose    *)
(* credentials are in flash, or open an access point with a web page and   *)
(* wait there, without a timeout, for somebody to enter others.            *)
(*                                                                         *)
(* The station is the ESP32's radio as a client of a router: it may join   *)
(* or lose the network at any time while it is on.  Requests of the portal *)
(* that only show a page (and probes for a captive portal) change nothing  *)
(* that is modelled; an access point that failed to start, which startAP's *)
(* caller does not notice, is a portal to which no request comes.          *)
(***************************************************************************)
EXTENDS Naturals

CONSTANTS
  Networks,   \* names of networks that a client may enter
  Wrap        \* 2^8: retry and _connectRetries are uint8_t

None == ""

VARIABLES
  at,              \* where autoConnect is
  result,          \* what it returns
  sta,             \* the station: "off", "on" (not joined) or "joined"
  saved,           \* the network in flash, or None
  ssid,            \* WiFiManager::_ssid, the network entered last, or None
  connect, abort,  \* the flags that the handlers raise
  retry,           \* attempts of this call of connectWifi, from 1
  connectRetries,  \* WiFiManager::_connectRetries
  adrift,          \* history: the station changed when nobody waited for it
  net,             \* history: the network that the station joined last
  erased           \* history: an erase failed half-way after that

flags      == <<connect, abort>>
counters   == <<retry, connectRetries>>
history    == <<adrift, net, erased>>
portalVars == <<at, result, sta, saved, ssid, flags, counters, history>>

Places == {"off", "joining", "portal", "closing", "leaving", "back"}

Init ==
  /\ at = "off" /\ result = FALSE
  /\ sta = "off" /\ saved = None /\ ssid = None
  /\ connect = FALSE /\ abort = FALSE
  /\ retry = 1 /\ connectRetries = 1
  /\ adrift = FALSE /\ net = None /\ erased = FALSE

\* A loss of power or a restart: flash stays.
Reset ==
  /\ at' = "off" /\ result' = FALSE
  /\ sta' = "off" /\ ssid' = None
  /\ connect' = FALSE /\ abort' = FALSE
  /\ retry' = 1 /\ connectRetries' = 1
  /\ adrift' = FALSE /\ net' = None /\ erased' = FALSE

PowerLoss == at # "off" /\ Reset /\ UNCHANGED saved

-----------------------------------------------------------------------------
(* Joining.                                                                *)

\* The station is enabled, and connectWifi called for the saved network; the
\* driver may refuse to enable it, which ends autoConnect without a portal.
AutoConnect ==
  /\ at = "off"
  /\ \/ at' = "joining" /\ sta' = "on"
     \/ at' = "back" /\ UNCHANGED sta
  /\ UNCHANGED <<result, saved, ssid, flags, counters, history>>

Target == IF ssid # None THEN ssid ELSE saved

\* One turn of connectWifi's loop.  A network that was entered goes to flash
\* before it is tried.
Attempt ==
  /\ at = "joining" /\ retry <= connectRetries
  /\ retry' = (retry + 1) % Wrap
  /\ saved' = Target
  /\ UNCHANGED <<ssid, flags, connectRetries, adrift>>

AttemptJoins ==
  /\ Attempt
  /\ Target # None
  /\ sta' = "joined"
  /\ result' = TRUE
  /\ net' = Target /\ erased' = FALSE
  /\ at' = IF ssid = None THEN "back" ELSE "closing"

AttemptFails ==
  Attempt /\ sta' = "on" /\ UNCHANGED <<at, result, net, erased>>

\* Slip: two more attempts instead of four.
WiFiEvent_TwoMore ==
  /\ at = "joining" /\ sta = "on" /\ saved # None
  /\ connectRetries' = (connectRetries + 2) % Wrap
  /\ UNCHANGED <<at, result, sta, saved, ssid, flags, retry, history>>

\* The router refused the association: the limit of the loop that is running
\* is raised from the driver's task.
WiFiEvent ==
  /\ at = "joining" /\ sta = "on" /\ saved # None
  /\ connectRetries' = (connectRetries + 4) % Wrap
  /\ UNCHANGED <<at, result, sta, saved, ssid, flags, retry, history>>

GivesUp == at = "joining" /\ retry > connectRetries

\* autoConnect opens the portal, and switches the station off unless it has
\* joined since the last attempt was given up.
StartConfigPortal ==
  /\ GivesUp /\ ssid = None
  /\ at' = "portal"
  /\ sta' = IF sta = "joined" THEN sta ELSE "off"
  /\ connect' = FALSE /\ abort' = FALSE
  /\ UNCHANGED <<result, saved, ssid, counters, history>>

\* Slip: the station is left on when the entered network cannot be joined.
SaveFailed_StationOn ==
  /\ GivesUp /\ ssid # None
  /\ at' = "portal" /\ ssid' = None
  /\ UNCHANGED <<result, sta, saved, flags, counters, history>>

\* The portal goes on after the entered network could not be joined.
SaveFailed ==
  /\ GivesUp /\ ssid # None
  /\ at' = "portal" /\ ssid' = None /\ sta' = "off"
  /\ UNCHANGED <<result, saved, flags, counters, history>>

-----------------------------------------------------------------------------
(* The portal.                                                             *)

\* Slip: what is entered goes to flash at once.
HandleWifiSave_PersistsNow ==
  /\ ssid' \in Networks \cup {None} /\ connect' = TRUE
  /\ saved' = IF ssid' = None THEN saved ELSE ssid'
  /\ UNCHANGED <<abort, sta, history>>

\* "Saved" is answered, and only a flag is raised.
HandleWifiSave ==
  /\ ssid' \in Networks \cup {None} /\ connect' = TRUE
  /\ UNCHANGED <<abort, saved, sta, history>>

HandleExit == abort' = TRUE /\ UNCHANGED <<connect, ssid, saved, sta, history>>

\* An erase that fails half-way.
EraseFails ==
  /\ saved' \in {saved, None}
  /\ sta' \in {"on", "off"}
  /\ adrift' = TRUE /\ erased' = TRUE
  /\ UNCHANGED <<flags, ssid, net>>

HandleClient == HandleWifiSave \/ HandleExit \/ EraseFails

\* A pass of the blocking loop up to the test of the flag connect.
Pass ==
  /\ at = "portal" /\ ~connect /\ ~abort
  /\ HandleClient
  /\ UNCHANGED <<at, result, counters>>

\* The rest of the pass: an entered network is tried, an empty name is not.
ProcessSave ==
  /\ at = "portal" /\ connect
  /\ connect' = FALSE
  /\ IF ssid = None
     THEN sta' = "off" /\ UNCHANGED <<at, retry>>
     ELSE at' = "joining" /\ retry' = 1 /\ UNCHANGED sta
  /\ UNCHANGED <<result, saved, ssid, abort, connectRetries, history>>

ExitAsked ==
  /\ at = "portal" /\ abort
  /\ at' = "closing"
  /\ UNCHANGED <<result, sta, saved, ssid, flags, counters, history>>

\* shutdownConfigPortal serves one more request, and nobody looks at the flags
\* any more.
LastRequest ==
  /\ at = "closing"
  /\ at' = "leaving"
  /\ HandleClient \/ UNCHANGED <<flags, ssid, saved, sta, history>>
  /\ UNCHANGED <<result, counters>>

\* The user's mode, station, is restored; it starts to look for its network.
Shutdown ==
  /\ at = "leaving"
  /\ at' = "back"
  /\ sta' = IF sta = "off" THEN "on" ELSE sta
  /\ UNCHANGED <<result, saved, ssid, flags, counters, history>>

\* Pages that restart the device: reset, a firmware update, and an erase.
RestartAsked ==
  /\ \/ at = "portal" /\ ~connect /\ ~abort
     \/ at = "closing"
  /\ saved' \in {saved, None}
  /\ Reset

-----------------------------------------------------------------------------
(* The station by itself.                                                  *)

StationJoins ==
  /\ sta = "on" /\ saved # None
  /\ sta' = "joined"
  /\ adrift' = IF at = "back" THEN adrift ELSE TRUE
  /\ net' = saved
  /\ UNCHANGED <<at, result, saved, ssid, flags, counters, erased>>

StationLost ==
  /\ sta = "joined"
  /\ sta' = "on"
  /\ adrift' = IF at = "back" THEN adrift ELSE TRUE
  /\ UNCHANGED <<at, result, saved, ssid, flags, counters, net, erased>>

-----------------------------------------------------------------------------
Joining == AttemptJoins \/ AttemptFails \/ StartConfigPortal \/ SaveFailed

Next ==
  \/ AutoConnect \/ Joining \/ WiFiEvent
  \/ Pass \/ ProcessSave \/ ExitAsked \/ LastRequest \/ Shutdown \/ RestartAsked
  \/ StationJoins \/ StationLost
  \/ PowerLoss

-----------------------------------------------------------------------------
(* Properties.                                                             *)

\* The loop of connectWifi compares two bytes of which the driver's task raises
\* one meanwhile; retry never reaches the value from which it would start again
\* at 0 (connectWifi, WiFiEvent).
RetryNeverWraps == retry < Wrap - 1

\* While the portal waits for a client the station is off, or joined: one that
\* looks for a network would take the access point with it from channel to
\* channel (startConfigPortal, processConfigPortal).
PortalUndisturbed ==
  at = "portal" /\ ~adrift => sta # "on"

\* When autoConnect returns TRUE, the network that the station has joined is the
\* one in flash, which the next boot will try: neither the one that was there
\* before, nor one that a client entered with the last request, after which the
\* portal closed without trying it (wifiConnectNew, shutdownConfigPortal; an
\* erase that failed half-way may have taken it).
TrueMeansRemembered ==
  at = "back" /\ result /\ ~erased => saved = net /\ net # None

\* However often the router refuses, connectWifi comes to an end.
AttemptsEnd == (at = "joining") ~> (at # "joining")
=============================================================================
