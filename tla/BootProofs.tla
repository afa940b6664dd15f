----------------------------- MODULE BootProofs -----------------------------
(***************************************************************************)
(* setup() over any number of boots: the id in use and the id in flash,    *)
(* first for module DeviceIdentity, then for Boot, which implements it;    *)
(* and what WiFiManager's portal keeps.                                    *)
(***************************************************************************)
EXTENDS Boot, TLAPS

-----------------------------------------------------------------------------
(* The id.                                                                 *)

\* What setup() has established at each of its steps.  Unless the driver has
\* failed, the namespace must be open when putInt is reached, or the answer
\* would be used and not stored; an answer is handled only in a boot that has
\* joined the network.
IdInv ==
  /\ pc \in {"post", "ask"} => failed \/ deviceId = stored
  /\ pc = "put" => started \/ failed
  /\ pc = "commit" => pending = {deviceId}
  /\ pc \in {"begin", "put", "commit"} => joined
  /\ pc # "commit" => pending = {}
  /\ connected => joined
  /\ IdSurvivesPowerLoss

\* Before the first boot nothing is pending.
LEMMA IdInit == Init => IdInv
BY DEF Init, IdInv, IdSurvivesPowerLoss

\* Every step of setup(), and every loss of power, keeps IdInv.
LEMMA IdStep == ASSUME IdInv, [Next]_vars PROVE IdInv'
<1> USE DEF IdInv, IdSurvivesPowerLoss, flash, network
<1>1. CASE AutoConnect
  BY <1>1 DEF AutoConnect
<1>2. CASE LoadId
  BY <1>2 DEF LoadId
<1>3. CASE PostNewDevice
  BY <1>3 DEF PostNewDevice
<1>4. CASE IdAnswered
  BY <1>4 DEF IdAnswered
<1>5. CASE IdFailed
  BY <1>5 DEF IdFailed
<1>6. CASE BeginAgain
  BY <1>6 DEF BeginAgain
<1>7. CASE PutInt
  BY <1>7 DEF PutInt, Ends
<1>8. CASE Commit
  BY <1>8 DEF Commit, Ends
<1>9. CASE PowerLoss
  BY <1>9 DEF PowerLoss
<1>10. CASE UNCHANGED vars
  BY <1>10 DEF vars
<1>11. CASE NetworkChanges
  BY <1>11 DEF NetworkChanges
<1>12. CASE PutRefused
  BY <1>12 DEF PutRefused, Ends
<1> QED
  BY <1>1, <1>2, <1>3, <1>4, <1>5, <1>6, <1>7, <1>8, <1>9, <1>10, <1>11, <1>12
  DEF Next

\* IdInv holds in every boot.
THEOREM IdInvariant == Spec => []IdInv
BY IdInit, IdStep, PTL DEF Spec

\* Unless the flash driver failed and the id was not stored since, the id that
\* the device polls under is the one it finds after a loss of power (setup(),
\* GetDeviceID).
THEOREM IdSurvives == Spec => []IdSurvivesPowerLoss
<1>1. IdInv => IdSurvivesPowerLoss
  BY DEF IdInv
<1> QED
  BY <1>1, IdInvariant, PTL

\* No boot without the network changes the id in flash (GetDeviceID writes it
\* only in the branch of an answer).
THEOREM OutageIsHarmless == Spec => OutageKeepsId
<1>1. ASSUME IdInv, [Next]_vars PROVE [~joined => stored' = stored]_vars
  <2>1. CASE Commit
    BY <1>1, <2>1 DEF Commit, IdInv
  <2>2. CASE PowerLoss
    BY <1>1, <2>2 DEF PowerLoss, IdInv
  <2>3. CASE PutInt
    BY <1>1, <2>3 DEF PutInt, IdInv
  <2>4. CASE ~PutInt /\ ~Commit /\ ~PowerLoss /\ Next
    BY <2>4 DEF Next, AutoConnect, NetworkChanges, LoadId, PostNewDevice, IdAnswered,
       IdFailed, BeginAgain, PutRefused, flash, network
  <2> QED
    BY <1>1, <2>1, <2>2, <2>3, <2>4
<1> QED
  BY <1>1, IdInvariant, PTL DEF Spec, OutageKeepsId

-----------------------------------------------------------------------------
(* The composition.                                                        *)

\* A step of setup() is a step of DeviceIdentity, or leaves its state alone.
LEMMA BootStep == ASSUME [BootNext]_bootVars PROVE [Next]_vars
<1>1. CASE Connecting
  BY <1>1 DEF Connecting, Returns, Next
<1>2. CASE Background
  BY <1>2 DEF Background, Next
<1>3. CASE Identify
  BY <1>3 DEF Identify, Next
<1>4. CASE PowerCut
  BY <1>4 DEF PowerCut, Next
<1>5. CASE UNCHANGED bootVars
  BY <1>5 DEF bootVars
<1> QED
  BY <1>1, <1>2, <1>3, <1>4, <1>5 DEF BootNext

\* setup() with WiFiManager's portal implements module DeviceIdentity.
THEOREM BootImplementsIdentity == BootSpec => Spec
<1>1. BootInit => Init
  BY DEF BootInit
<1> QED
  BY <1>1, BootStep, PTL DEF BootSpec, Spec

\* The id survives a loss of power if the flash driver did not fail, and a boot
\* without the network in any case, whatever autoConnect and its portal do
\* before.
THEOREM BootKeepsId == BootSpec => []IdSurvivesPowerLoss /\ OutageKeepsId
BY BootImplementsIdentity, IdSurvives, OutageIsHarmless

-----------------------------------------------------------------------------
(* The portal.                                                             *)

\* Both bytes are counters of attempts: the limit is one more than a multiple
\* of four, so the largest limit is three short of the range.
RetryInv ==
  /\ \E k \in Nat : connectRetries = 4 * k + 1
  /\ connectRetries < Wrap
  /\ retry \in Nat /\ retry < Wrap - 1

PortalInv ==
  /\ at = "portal" /\ ~adrift => sta # "on"
  /\ result => at \in {"closing", "leaving", "back"}
  /\ result /\ ~erased => saved = net /\ net # Portal!None

\* The range is a multiple of four.
LEMMA Quarters == \E q \in Nat : q > 1 /\ Wrap = 4 * q
<1>1. /\ Wrap \div 4 \in Nat /\ Wrap \div 4 > 1
      /\ Wrap = 4 * (Wrap \div 4)
  BY WrapAssumption
<1> QED
  BY <1>1

\* A raised limit is again one more than a multiple of four.
LEMMA LimitRaised ==
  ASSUME NEW k \in Nat, 4 * k + 1 < Wrap
  PROVE  /\ (4 * k + 5) % Wrap < Wrap
         /\ \E j \in Nat : (4 * k + 5) % Wrap = 4 * j + 1
<1>1. PICK q \in Nat : q > 1 /\ Wrap = 4 * q
  BY Quarters
<1>2. CASE k + 1 < q
  <2>1. (4 * k + 5) % Wrap = 4 * (k + 1) + 1
    BY <1>1, <1>2
  <2>2. 4 * (k + 1) + 1 < Wrap
    BY <1>1, <1>2
  <2>3. k + 1 \in Nat
    OBVIOUS
  <2> QED
    BY <2>1, <2>2, <2>3, Zenon
<1>3. CASE k + 1 = q
  <2>1. (4 * k + 5) % Wrap = 4 * 0 + 1 /\ 4 * 0 + 1 < Wrap
    BY <1>1, <1>3
  <2>2. 0 \in Nat
    OBVIOUS
  <2> QED
    BY <2>1, <2>2, Zenon
<1> QED
  BY <1>1, <1>2, <1>3

\* The first boot starts with both counters at 1 and nothing joined.
LEMMA PortalInit == BootInit => RetryInv /\ PortalInv
<1>1. PICK q \in Nat : q > 1 /\ Wrap = 4 * q
  BY Quarters
<1>2. 1 = 4 * 0 + 1 /\ 0 \in Nat
  OBVIOUS
<1>3. BootInit => connectRetries = 1 /\ retry = 1
  BY DEF BootInit, Portal!Init
<1>4. BootInit => RetryInv
  BY <1>1, <1>2, <1>3 DEF RetryInv
<1>5. BootInit => PortalInv
  BY DEF BootInit, Portal!Init, PortalInv
<1> QED
  BY <1>4, <1>5

\* Every step of the portal, of the station and of the power supply keeps the
\* counters apart from the end of their range.
LEMMA RetryStep ==
  ASSUME RetryInv, [Portal!Next]_portal
  PROVE  RetryInv'
<1>0. PICK q \in Nat : q > 1 /\ Wrap = 4 * q
  BY Quarters
<1>1. PICK k \in Nat : connectRetries = 4 * k + 1
  BY DEF RetryInv
<1>2. CASE UNCHANGED <<retry, connectRetries>>
  BY <1>2 DEF RetryInv
<1>3. CASE connectRetries' = connectRetries /\ retry' = 1
  BY <1>0, <1>3 DEF RetryInv
<1>4. CASE Portal!Reset
  <2>1. connectRetries' = 4 * 0 + 1 /\ retry' = 1 /\ 0 \in Nat
    BY <1>4 DEF Portal!Reset
  <2> QED
    BY <1>0, <2>1 DEF RetryInv
<1>5. CASE Portal!Attempt
  <2>1. connectRetries' = connectRetries /\ retry <= connectRetries
    BY <1>5 DEF Portal!Attempt
  <2>2. retry + 1 < Wrap - 1
    BY <1>0, <1>1, <2>1 DEF RetryInv
  <2>3. retry' = retry + 1
    BY <1>0, <1>5, <2>2 DEF Portal!Attempt, RetryInv
  <2> QED
    BY <2>1, <2>2, <2>3 DEF RetryInv
<1>6. CASE Portal!WiFiEvent
  <2>1. connectRetries' = (4 * k + 5) % Wrap /\ retry' = retry
    BY <1>1, <1>6 DEF Portal!WiFiEvent
  <2>2. 4 * k + 1 < Wrap
    BY <1>1 DEF RetryInv
  <2> QED
    BY <2>1, <2>2, LimitRaised DEF RetryInv
<1>7. CASE /\ Portal!Next
           /\ ~Portal!Reset /\ ~Portal!Attempt /\ ~Portal!WiFiEvent
  BY <1>2, <1>3, <1>7
  DEF Portal!Next, Portal!AutoConnect, Portal!Joining, Portal!AttemptJoins,
      Portal!AttemptFails, Portal!StartConfigPortal, Portal!SaveFailed,
      Portal!Pass, Portal!ProcessSave, Portal!ExitAsked, Portal!LastRequest,
      Portal!Shutdown, Portal!RestartAsked, Portal!StationJoins,
      Portal!StationLost, Portal!PowerLoss, Portal!counters
<1> QED
  BY <1>2, <1>4, <1>5, <1>6, <1>7 DEF portal

\* No step of the portal leaves the station looking for a network beside the
\* access point, or reports a network that flash does not hold.
LEMMA PortalStep ==
  ASSUME PortalInv, [Portal!Next]_portal
  PROVE  PortalInv'
<1> USE DEF PortalInv, Portal!flags, Portal!history
<1>1. CASE Portal!AutoConnect
  BY <1>1 DEF Portal!AutoConnect
<1>2. CASE Portal!AttemptJoins
  BY <1>2 DEF Portal!AttemptJoins, Portal!Attempt
<1>3. CASE Portal!AttemptFails
  BY <1>3 DEF Portal!AttemptFails, Portal!Attempt
<1>4. CASE Portal!StartConfigPortal \/ Portal!SaveFailed
  BY <1>4 DEF Portal!StartConfigPortal, Portal!SaveFailed, Portal!GivesUp
<1>5. CASE Portal!WiFiEvent
  BY <1>5 DEF Portal!WiFiEvent
<1>6. CASE Portal!Pass
  <2>1. ~result /\ result' = result /\ at' = "portal"
    BY <1>6 DEF Portal!Pass
  <2>2. adrift' \/ (adrift' = adrift /\ sta' = sta)
    BY <1>6 DEF Portal!Pass, Portal!HandleClient, Portal!HandleWifiSave,
       Portal!HandleExit, Portal!EraseFails
  <2> QED
    BY <1>6, <2>1, <2>2 DEF Portal!Pass
<1>7. CASE Portal!ProcessSave \/ Portal!ExitAsked
  BY <1>7 DEF Portal!ProcessSave, Portal!ExitAsked
<1>8. CASE Portal!LastRequest
  BY <1>8 DEF Portal!LastRequest, Portal!HandleClient, Portal!HandleWifiSave,
     Portal!HandleExit, Portal!EraseFails
<1>9. CASE Portal!Shutdown
  BY <1>9 DEF Portal!Shutdown
<1>10. CASE Portal!RestartAsked \/ Portal!PowerLoss
  BY <1>10 DEF Portal!RestartAsked, Portal!PowerLoss, Portal!Reset
<1>11. CASE Portal!StationJoins \/ Portal!StationLost
  <2>1. result' = result /\ saved' = saved /\ at' = at /\ erased' = erased
    BY <1>11 DEF Portal!StationJoins, Portal!StationLost
  <2>2. adrift' = (IF at = "back" THEN adrift ELSE TRUE)
    BY <1>11 DEF Portal!StationJoins, Portal!StationLost
  <2>3. (net' = saved /\ saved # Portal!None) \/ net' = net
    BY <1>11 DEF Portal!StationJoins, Portal!StationLost
  <2>4. result' /\ ~erased' => saved' = net' /\ net' # Portal!None
    BY <2>1, <2>3
  <2>5. at' = "portal" => adrift'
    BY <2>1, <2>2
  <2> QED
    BY <2>1, <2>4, <2>5
<1>12. CASE UNCHANGED portal
  BY <1>12 DEF portal
<1> QED
  BY <1>1, <1>2, <1>3, <1>4, <1>5, <1>6, <1>7, <1>8, <1>9, <1>10, <1>11, <1>12
  DEF Portal!Next, Portal!Joining

\* A step of setup() is a step of the portal, or leaves the portal alone.
LEMMA BootStepOfPortal == ASSUME [BootNext]_bootVars PROVE [Portal!Next]_portal
BY DEF BootNext, Connecting, Background, Identify, PowerCut, Portal!Next,
   bootVars

\* RetryInv and PortalInv hold in every reachable state.
THEOREM PortalInvariant == BootSpec => [](RetryInv /\ PortalInv)
BY PortalInit, RetryStep, PortalStep, BootStepOfPortal, PTL DEF BootSpec

\* connectWifi's counter of attempts never starts again at 0, however often the
\* driver's task raises the limit meanwhile.
THEOREM RetryBelowWrap == BootSpec => []RetryNeverWraps
<1>1. RetryInv => RetryNeverWraps
  BY DEF RetryInv, RetryNeverWraps, Portal!RetryNeverWraps
<1> QED
  BY <1>1, PortalInvariant, PTL

\* The waiting portal is not disturbed by its own station.
THEOREM PortalIsQuiet == BootSpec => []PortalUndisturbed
<1>1. PortalInv => PortalUndisturbed
  BY DEF PortalInv, PortalUndisturbed, Portal!PortalUndisturbed
<1> QED
  BY <1>1, PortalInvariant, PTL

\* The network that the station has joined when autoConnect reports it is the
\* one in flash.
THEOREM JoinedIsRemembered == BootSpec => []TrueMeansRemembered
<1>1. PortalInv => TrueMeansRemembered
  BY DEF PortalInv, TrueMeansRemembered, Portal!TrueMeansRemembered
<1> QED
  BY <1>1, PortalInvariant, PTL
=============================================================================
