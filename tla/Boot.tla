-------------------------------- MODULE Boot --------------------------------
(***************************************************************************)
(* setup(): WiFiManager's autoConnect (module ConfigPortal) and then the   *)
(* restoring, asking and storing of the device id (module DeviceIdentity). *)
(* setup() does not look at what autoConnect returned; the requests for    *)
(* the id depend on the station as it is when they are made.               *)
(***************************************************************************)
EXTENDS DeviceIdentity

CONSTANTS
  Networks,   \* names of networks that a client may enter
  Wrap        \* 2^8, the range of WiFiManager's counters

VARIABLES at, result, sta, saved, ssid, connect, abort, retry, connectRetries,
          adrift, net, erased

Portal == INSTANCE ConfigPortal

ASSUME NetworksAssumption == Portal!None \notin Networks
ASSUME WrapAssumption == Wrap \in Nat /\ Wrap > 4 /\ Wrap % 4 = 0

portal   == <<at, result, sta, saved, ssid, connect, abort, retry,
              connectRetries, adrift, net, erased>>
bootVars == <<vars, portal>>

BootInit == Init /\ Portal!Init

\* The last step of autoConnect lets setup() go on.
Returns ==
  IF at' = "back"
  THEN AutoConnect /\ connected' = (sta' = "joined")
  ELSE UNCHANGED vars

Connecting == at # "back" /\ Portal!Next /\ Returns

\* The station joins or loses its network while setup() goes on, or later.
Background ==
  /\ at = "back"
  /\ Portal!StationJoins \/ Portal!StationLost
  /\ NetworkChanges

Identify ==
  /\ at = "back"
  /\ \/ LoadId \/ PostNewDevice
     \/ IdAnswered \/ IdFailed
     \/ BeginAgain \/ PutInt \/ PutRefused \/ Commit
  /\ UNCHANGED portal

PowerCut ==
  /\ at = "back"
  /\ PowerLoss
  /\ Portal!PowerLoss

BootNext == Connecting \/ Background \/ Identify \/ PowerCut

\* Nobody need ever come to the portal, but an attempt to join ends at the
\* latest with its timeout.
BootSpec == BootInit /\ [][BootNext]_bootVars

BootFairSpec == BootSpec /\ WF_bootVars(Portal!Joining /\ Returns)

-----------------------------------------------------------------------------
(* Properties, of the composition.                                         *)

RetryNeverWraps     == Portal!RetryNeverWraps
PortalUndisturbed   == Portal!PortalUndisturbed
TrueMeansRemembered == Portal!TrueMeansRemembered
AttemptsEnd         == Portal!AttemptsEnd
=============================================================================
