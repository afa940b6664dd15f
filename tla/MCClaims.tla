------------------------------ MODULE MCClaims ------------------------------
(***************************************************************************)
(* What the repository's README promises of the device and the sketch does *)
(* not do.  TLC finds a violation of each of them.                         *)
(***************************************************************************)
EXTENDS MCController

Inactive == {Timer(Tonight, 1, FALSE)}

\* README.md:3, "remote controll was achieved by polling an asp.net server":
\* a poll that asks for the pump is followed by the pump running, or by a later
\* command or poll that withdraws it.  (GetStatusFromServer writes isPumpOn and
\* no pin; nothing else turns isPumpOn into a pin.)
PolledPumpRuns ==
  ("pump" \in fromServer /\ isPumpOn)
     ~> (pumpPin = "LOW" \/ "pump" \notin fromServer \/ ~isPumpOn)

\* README.md:5, "toggle the water pump based on timer from the server": while
\* the timer holds the pump on, its run time is being counted, so that the run
\* ends.  (After midnight CompareTime denies the running timer: StateUpdate
\* leaves the relay closed and UpdateDateTime stops counting.)
RunIsMetered == State = 1 /\ pumpPin = "LOW" /\ loopPc = "clock" => shouldTick

\* README.md:5: a timer whose run is used up does not start the pump again.
\* (StateUpdate closes the relay before it looks at the run time, on every pass
\* for as long as GetNextTimer fails.)
SpentTimerRests ==
  [][ pumpPin = "HIGH" /\ pumpPin' = "LOW" /\ State' = 1
        => workTimeDelta > 0 ]_vars

\* README.md:5: a timer that the server marked inactive does not start the
\* pump.  (GetNextTimer writes hasTimerBeenSet but, unlike GetCurrentTimer and
\* GetRemainingTime, not State.)
InactiveTimerRests ==
  [][ pumpPin = "HIGH" /\ pumpPin' = "LOW" /\ State' = 1 /\ workTimeDelta > 0
        => hasTimerBeenSet ]_vars
=============================================================================
