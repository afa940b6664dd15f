----------------------------- MODULE Controller -----------------------------
(***************************************************************************)
(* The sketch RemoteLedControl.ino while it runs: the Arduino loop task    *)
(* (read the clock, serve one web request, run the timer state) and the    *)
(* TempReader task (poll the server), which share their globals without    *)
(* any lock, and the environment: clients, the server, the wall clock and  *)
(* loss of power.                                                          *)
(*                                                                         *)
(* Grain: the tasks interleave wherever one of them blocks, that is at     *)
(* every HTTP request and between the stages of loop().  A handler up to   *)
(* its HTTP request is one action, the handling of the answer another.     *)
(* A document received from the server is the record of the values the     *)
(* handler reads from it; a field the document lacks reads as 0 or FALSE.  *)
(***************************************************************************)
EXTENDS DateTime, Sequences

CONSTANTS
  MaxWall,          \* bound: seconds of wall time considered
  Clock,            \* Clock[w]: what the NTP clock shows at second w
  ReadSpan,         \* bound: seconds that may pass during UpdateDateTime
  SecondsPerMinute, \* the literal 60 by which run times are multiplied
  Backoff,          \* the literal 3000 a failed poll writes to refreshRate
  Routes,           \* the requests that clients make
  CurrentReplies,   \* documents for getCurrentTimer
  NextReplies,      \* documents for minutesDebug
  RemainingReplies, \* documents for getRemainingTime
  StatusReplies     \* documents for Status

AllRoutes == {"/", "/pumpOn", "/pumpOff", "/dateTime", "/status", "/temp",
              "/lightOn", "/lightOff", "/lightStatus", "/toggleTimer",
              "/timerStatus", "/allStatus", "/restart", "unknown"}

TimerDocs     == [at : DateTimes, length : Int, isActive : BOOLEAN]
RemainingDocs == [time : Int, isActive : BOOLEAN]
StatusDocs    == [isPumpActive : BOOLEAN, isLightActive : BOOLEAN,
                  maxRunTime : Int, refreshRate : Int]

ASSUME BoundsAssumption ==
  /\ MaxWall \in Nat
  /\ ReadSpan \in Nat
  /\ SecondsPerMinute \in Nat \ {0}
  /\ Backoff \in Nat

ASSUME RepliesAssumption ==
  /\ Routes \subseteq AllRoutes
  /\ CurrentReplies \subseteq TimerDocs
  /\ NextReplies \subseteq TimerDocs
  /\ RemainingReplies \subseteq RemainingDocs
  /\ StatusReplies \subseteq StatusDocs

\* The displayed time never goes back: corrections by a later NTP answer are
\* left out of this module.
ASSUME ClockAssumption ==
  /\ Clock \in [0..MaxWall -> DateTimes]
  /\ \A v \in 0..MaxWall : \A w \in v..MaxWall :
       SameMinuteOrLater(Clock[w], Clock[v])

VARIABLES
  pumpPin, lightPin,      \* GPIO 4 and 16; the relays close on "LOW"
  isPumpOn, isLightOn,    \* what the device says about them
  hasTimerBeenSet,        \* what the device says about the timer
  State,                  \* 1 while StateUpdate follows the timer
  shouldTick,             \* the last answer of CompareTime
  workTimeDelta,          \* seconds left to run
  refreshRate,            \* passes of the TempReader task to the next poll
  prevSecond, Now, timer,
  loopPc,                 \* where the loop task is, or blocks
  taskPc,                 \* where the TempReader task is, or blocks
  request,                \* the request the web server holds, or "none"
  answer,                 \* the last answer sent in this pass of loop()
  wall,                   \* true time, in seconds
  \* History, read only by properties:
  command,                \* the user command in force: "none", "on", "off"
  fromServer,             \* which of isPumpOn, isLightOn a poll wrote last
  ticks, bootWall         \* seconds counted down since boot; time of boot

pins     == <<pumpPin, lightPin>>
status   == <<isPumpOn, isLightOn, fromServer>>
schedule == <<hasTimerBeenSet, State, timer, command>>
counting == <<workTimeDelta, prevSecond, ticks>>
world    == <<wall, bootWall>>

vars == <<pins, status, schedule, counting, world, shouldTick, refreshRate,
          Now, loopPc, taskPc, request, answer>>

LoopPcs == {"boot", "setupTimer", "setupClock", "setupStatus", "clock", "serve",
            "current", "remaining", "state", "next"}
TaskPcs == {"none", "sleep", "poll"}

FactoryTime == UpdateTime(2022, 10, 10, 12, 0, 0)
Answers     == [to : AllRoutes \cup {"none"}, body : Seq(BOOLEAN)]
NoAnswer    == [to |-> "none", body |-> <<>>]

\* The globals as the start-up code leaves them.  A reset GPIO drives nothing,
\* so the relays are open.
Init ==
  /\ pumpPin = "HIGH" /\ lightPin = "HIGH"
  /\ isPumpOn = FALSE /\ isLightOn = FALSE
  /\ hasTimerBeenSet = FALSE
  /\ State = 0
  /\ shouldTick = FALSE
  /\ workTimeDelta = 0
  /\ refreshRate = 5
  /\ prevSecond = 0
  /\ Now = FactoryTime /\ timer = FactoryTime
  /\ loopPc = "boot" /\ taskPc = "none"
  /\ request = "none" /\ answer = NoAnswer
  /\ command = "none" /\ fromServer = {} /\ ticks = 0
  /\ wall = 0 /\ bootWall = 0

\* RAM is lost; only the wall clock goes on.
Reset ==
  /\ pumpPin' = "HIGH" /\ lightPin' = "HIGH"
  /\ isPumpOn' = FALSE /\ isLightOn' = FALSE
  /\ hasTimerBeenSet' = FALSE
  /\ State' = 0
  /\ shouldTick' = FALSE
  /\ workTimeDelta' = 0
  /\ refreshRate' = 5
  /\ prevSecond' = 0
  /\ Now' = FactoryTime /\ timer' = FactoryTime
  /\ loopPc' = "boot" /\ taskPc' = "none"
  /\ request' = "none" /\ answer' = NoAnswer
  /\ command' = "none" /\ fromServer' = {} /\ ticks' = 0
  /\ bootWall' = wall
  /\ UNCHANGED wall

-----------------------------------------------------------------------------
(* Reading the clock.                                                      *)

Horizon == IF wall + ReadSpan < MaxWall THEN wall + ReadSpan ELSE MaxWall

\* Slip: the calendar date asked for last instead of first.
ClockReading_DateLast(d, h, m, s) ==
  UpdateTime(Clock[s].year, Clock[s].month, Clock[s].day,
             Clock[h].hours, Clock[m].minutes, Clock[s].seconds)

\* The date, the hour, the minute and the second are asked for one after the
\* other, at instants d, h, m and s, while time passes.
ClockReading(d, h, m, s) ==
  UpdateTime(Clock[d].year, Clock[d].month, Clock[d].day,
             Clock[h].hours, Clock[m].minutes, Clock[s].seconds)

\* Slip: the second is not remembered, so every pass counts.
CountDown_EveryPass(second) ==
  /\ UNCHANGED prevSecond
  /\ LET counts == second # prevSecond /\ State = 1 /\ shouldTick IN
     /\ workTimeDelta' = workTimeDelta - (IF counts THEN 1 ELSE 0)
     /\ ticks' = ticks + (IF counts THEN 1 ELSE 0)

\* Runs once per displayed second that a pass happens to see.
CountDown(second) ==
  /\ prevSecond' = second
  /\ LET counts == second # prevSecond /\ State = 1 /\ shouldTick IN
     /\ workTimeDelta' = workTimeDelta - (IF counts THEN 1 ELSE 0)
     /\ ticks' = ticks + (IF counts THEN 1 ELSE 0)

UpdateDateTime ==
  /\ loopPc \in {"setupClock", "clock"}
  /\ loopPc' = IF loopPc = "setupClock" THEN "setupStatus" ELSE "serve"
  /\ \E d \in wall..Horizon : \E h \in d..Horizon :
       \E m \in h..Horizon : \E s \in m..Horizon :
         /\ Now' = ClockReading(d, h, m, s)
         /\ CountDown(Clock[s].seconds)
         /\ wall' = s
  /\ UNCHANGED <<pins, status, schedule, shouldTick, refreshRate, bootWall,
                 taskPc, request, answer>>

-----------------------------------------------------------------------------
(* Documents from the server.                                              *)

\* Slip: "State += hasTimerBeenSet".
ObeyActive_Adds(active) ==
  /\ hasTimerBeenSet' = active
  /\ State' = State + (IF active THEN 1 ELSE 0)
  /\ command' = IF active THEN "none" ELSE command

\* hasTimerBeenSet = doc["isActive"]; State = hasTimerBeenSet.  (An active
\* timer ends the reign of the last user command.)
ObeyActive(active) ==
  /\ hasTimerBeenSet' = active
  /\ State' = IF active THEN 1 ELSE 0
  /\ command' = IF active THEN "none" ELSE command

TakeTimer(doc) ==
  /\ timer' = UpdateTime(doc.at.year, doc.at.month, doc.at.day,
                         doc.at.hours, doc.at.minutes, doc.at.seconds)
  /\ workTimeDelta' = doc.length * SecondsPerMinute

\* GetCurrentTimer once its request has ended, in setup() and for /dateTime.
CurrentTimerAnswered ==
  /\ loopPc \in {"setupTimer", "current"}
  /\ loopPc' = IF loopPc = "setupTimer" THEN "setupClock" ELSE "state"
  /\ \/ \E doc \in CurrentReplies : TakeTimer(doc) /\ ObeyActive(doc.isActive)
     \/ UNCHANGED <<schedule, workTimeDelta>>              \* code <= 0
  /\ UNCHANGED <<pins, status, prevSecond, ticks, world, shouldTick,
                 refreshRate, Now, taskPc, request, answer>>

\* GetRemainingTime once its request has ended.
RemainingTimeAnswered ==
  /\ loopPc = "remaining"
  /\ loopPc' = "state"
  /\ \/ \E doc \in RemainingReplies :
          /\ workTimeDelta' = doc.time * SecondsPerMinute
          /\ ObeyActive(doc.isActive)
     \/ UNCHANGED <<workTimeDelta, hasTimerBeenSet, State, command>>
  /\ UNCHANGED <<pins, status, timer, prevSecond, ticks, world, shouldTick,
                 refreshRate, Now, taskPc, request, answer>>

\* GetStatusFromServer once its request has ended.
TakeStatus(doc) ==
  /\ isPumpOn' = doc.isPumpActive
  /\ isLightOn' = doc.isLightActive
  /\ fromServer' = {"pump", "light"}
  /\ workTimeDelta' = doc.maxRunTime * SecondsPerMinute
  /\ refreshRate' = doc.refreshRate

\* Slip: the task gives up when the server cannot be reached.
PollFailed_EndsTask ==
  /\ taskPc' = "none"
  /\ refreshRate' = Backoff
  /\ UNCHANGED <<status, workTimeDelta>>

PollFailed ==
  /\ taskPc' = "sleep"
  /\ refreshRate' = Backoff
  /\ UNCHANGED <<status, workTimeDelta>>

StatusAnswered ==
  \/ taskPc' = "sleep" /\ \E doc \in StatusReplies : TakeStatus(doc)
  \/ PollFailed

-----------------------------------------------------------------------------
(* setup(): the relays are opened, the network is joined (which may wait   *)
(* for a user at the portal), the device is announced; then the timer, the *)
(* clock and the status are fetched, and the TempReader task is created.   *)

Boot ==
  /\ loopPc = "boot"
  /\ loopPc' = "setupTimer"
  /\ pumpPin' = "HIGH" /\ lightPin' = "HIGH"
  /\ UNCHANGED <<status, schedule, counting, world, shouldTick, refreshRate,
                 Now, taskPc, request, answer>>

SetupStatusAnswered ==
  /\ loopPc = "setupStatus"
  /\ loopPc' = "clock"
  /\ StatusAnswered
  /\ UNCHANGED <<pins, schedule, prevSecond, ticks, world, shouldTick, Now,
                 request, answer>>

\* Power failure, watchdog or brown-out, at any moment.
PowerLoss == loopPc # "boot" /\ Reset

-----------------------------------------------------------------------------
(* server.handleClient(): at most one request, whose handler runs here.    *)

Serve(route) ==
  /\ loopPc = "serve"
  /\ request = route
  /\ request' = "none"

\* server.send: the body is the list of facts it reports.
Send(body) == answer' = [to |-> request, body |-> body]

NoRequest ==
  /\ Serve("none")
  /\ loopPc' = "state"
  /\ UNCHANGED <<pins, status, schedule, counting, world, shouldTick,
                 refreshRate, Now, taskPc, answer>>

PumpOn ==
  /\ Serve("/pumpOn")
  /\ loopPc' = "state"
  /\ pumpPin' = "LOW"
  /\ Send(<<>>)
  /\ isPumpOn' = TRUE
  /\ State' = 0
  /\ command' = "on" /\ fromServer' = fromServer \ {"pump"}
  /\ UNCHANGED <<lightPin, isLightOn, hasTimerBeenSet, timer, counting, world,
                 shouldTick, refreshRate, Now, taskPc>>

\* Slip: the timer is left in charge.
PumpOff_KeepsState ==
  /\ Serve("/pumpOff")
  /\ loopPc' = "state"
  /\ pumpPin' = "HIGH"
  /\ Send(<<>>)
  /\ isPumpOn' = FALSE
  /\ command' = "off" /\ fromServer' = fromServer \ {"pump"}
  /\ UNCHANGED <<lightPin, isLightOn, hasTimerBeenSet, State, timer, counting,
                 world, shouldTick, refreshRate, Now, taskPc>>

PumpOff ==
  /\ Serve("/pumpOff")
  /\ loopPc' = "state"
  /\ pumpPin' = "HIGH"
  /\ Send(<<>>)
  /\ isPumpOn' = FALSE
  /\ State' = 0
  /\ command' = "off" /\ fromServer' = fromServer \ {"pump"}
  /\ UNCHANGED <<lightPin, isLightOn, hasTimerBeenSet, timer, counting, world,
                 shouldTick, refreshRate, Now, taskPc>>

SwitchLight(route, pin, on) ==
  /\ Serve(route)
  /\ loopPc' = "state"
  /\ lightPin' = pin
  /\ Send(<<>>)
  /\ isLightOn' = on
  /\ fromServer' = fromServer \ {"light"}
  /\ UNCHANGED <<pumpPin, isPumpOn, schedule, counting, world, shouldTick,
                 refreshRate, Now, taskPc>>

LightsOn  == SwitchLight("/lightOn", "LOW", TRUE)
LightsOff == SwitchLight("/lightOff", "HIGH", FALSE)

\* Handlers that only report.
Report(route, body) ==
  /\ Serve(route)
  /\ loopPc' = "state"
  /\ Send(body)
  /\ UNCHANGED <<pins, status, schedule, counting, world, shouldTick,
                 refreshRate, Now, taskPc>>

OnConnect       == Report("/", <<>>)
SendPumpStatus  == Report("/status", <<isPumpOn>>)
SendLightStatus == Report("/lightStatus", <<isLightOn>>)
SendTimerStatus == Report("/timerStatus", <<hasTimerBeenSet>>)
GetAllStatus    == Report("/allStatus", <<isPumpOn, isLightOn, hasTimerBeenSet>>)
SendTemperature == Report("/temp", <<>>)
NotFound        == Report("unknown", <<>>)

\* Handlers that answer the client first and then block on the server.
Fetch(route, pc) ==
  /\ Serve(route)
  /\ loopPc' = pc
  /\ Send(<<>>)
  /\ UNCHANGED <<pins, status, schedule, counting, world, shouldTick,
                 refreshRate, Now, taskPc>>

GetCurrentTimer == Fetch("/dateTime", "current")
ToggleTimer     == Fetch("/toggleTimer", "remaining")

Restart == Serve("/restart") /\ Reset

-----------------------------------------------------------------------------
(* StateUpdate(), the last stage of a pass.                                *)

PassDone ==
  /\ loopPc = "state"
  /\ answer' = NoAnswer
  /\ UNCHANGED <<lightPin, isLightOn, State, timer, command, counting, world,
                 refreshRate, Now, taskPc, request>>

\* Slip: an "else" branch that opens the relay.
Manual_OpensRelay ==
  /\ PassDone
  /\ State # 1
  /\ loopPc' = "clock"
  /\ pumpPin' = "HIGH"
  /\ UNCHANGED <<isPumpOn, fromServer, hasTimerBeenSet, shouldTick>>

Manual ==
  /\ PassDone
  /\ State # 1
  /\ loopPc' = "clock"
  /\ UNCHANGED <<pumpPin, isPumpOn, fromServer, hasTimerBeenSet, shouldTick>>

NotDue ==
  /\ PassDone
  /\ State = 1 /\ ~CompareTime(Now, timer)
  /\ loopPc' = "clock"
  /\ shouldTick' = FALSE
  /\ UNCHANGED <<pumpPin, isPumpOn, fromServer, hasTimerBeenSet>>

TimerRuns ==
  /\ PassDone
  /\ State = 1 /\ CompareTime(Now, timer) /\ workTimeDelta > 0
  /\ loopPc' = "clock"
  /\ shouldTick' = TRUE
  /\ pumpPin' = "LOW" /\ isPumpOn' = TRUE
  /\ fromServer' = fromServer \ {"pump"}
  /\ UNCHANGED hasTimerBeenSet

\* The run time is used up: GetNextTimer is called before the relay opens.
TimerSpent ==
  /\ PassDone
  /\ State = 1 /\ CompareTime(Now, timer) /\ workTimeDelta <= 0
  /\ loopPc' = "next"
  /\ shouldTick' = TRUE
  /\ pumpPin' = "LOW" /\ isPumpOn' = FALSE
  /\ fromServer' = fromServer \ {"pump"}
  /\ hasTimerBeenSet' = FALSE

StateUpdate == Manual \/ NotDue \/ TimerRuns \/ TimerSpent

\* Slip: a failed request is retried on the spot.
NextTimerFailed_Retries ==
  /\ loopPc' = "next"
  /\ UNCHANGED <<pumpPin, timer, workTimeDelta, hasTimerBeenSet>>

\* Slip: the relay is opened only when the request succeeded.
NextTimerFailed_LeavesPump ==
  /\ loopPc' = "clock"
  /\ UNCHANGED <<pumpPin, timer, workTimeDelta, hasTimerBeenSet>>

NextTimerFailed ==
  /\ loopPc' = "clock"
  /\ pumpPin' = "HIGH"
  /\ UNCHANGED <<timer, workTimeDelta, hasTimerBeenSet>>

\* GetNextTimer once its request has ended, and the rest of StateUpdate.  The
\* new timer is taken whether or not it is active: State stays 1.
NextTimerAnswered ==
  /\ loopPc = "next"
  /\ \/ /\ loopPc' = "clock"
        /\ pumpPin' = "HIGH"
        /\ \E doc \in NextReplies :
             TakeTimer(doc) /\ hasTimerBeenSet' = doc.isActive
     \/ NextTimerFailed
  /\ UNCHANGED <<lightPin, status, State, command, prevSecond, ticks, world,
                 shouldTick, refreshRate, Now, taskPc, request, answer>>

-----------------------------------------------------------------------------
(* The TempReader task: UpdateStatus().                                    *)

TaskPass ==
  /\ taskPc = "sleep"
  /\ refreshRate' = refreshRate - 1
  /\ taskPc' = IF refreshRate - 1 <= 0 THEN "poll" ELSE "sleep"
  /\ UNCHANGED <<pins, status, schedule, counting, world, shouldTick, Now,
                 loopPc, request, answer>>

PollAnswered ==
  /\ taskPc = "poll"
  /\ StatusAnswered
  /\ UNCHANGED <<pins, schedule, prevSecond, ticks, world, shouldTick, Now,
                 loopPc, request, answer>>

-----------------------------------------------------------------------------
(* The environment, and the whole system.                                  *)

\* The web server listens once setup() has ended.
ClientRequest ==
  /\ taskPc # "none" /\ request = "none"
  /\ request' \in Routes
  /\ UNCHANGED <<pins, status, schedule, counting, world, shouldTick,
                 refreshRate, Now, loopPc, taskPc, answer>>

TimePasses ==
  /\ wall < MaxWall
  /\ wall' = wall + 1
  /\ UNCHANGED <<pins, status, schedule, counting, bootWall, shouldTick,
                 refreshRate, Now, loopPc, taskPc, request, answer>>

HandleClient ==
  \/ NoRequest
  \/ PumpOn \/ PumpOff \/ LightsOn \/ LightsOff
  \/ OnConnect \/ SendPumpStatus \/ SendLightStatus \/ SendTimerStatus
  \/ GetAllStatus \/ SendTemperature \/ NotFound
  \/ GetCurrentTimer \/ ToggleTimer
  \/ Restart

LoopStep ==
  \/ CurrentTimerAnswered
  \/ UpdateDateTime
  \/ SetupStatusAnswered
  \/ HandleClient
  \/ RemainingTimeAnswered
  \/ StateUpdate
  \/ NextTimerAnswered

TaskStep == TaskPass \/ PollAnswered

Next ==
  \/ Boot \/ LoopStep \/ TaskStep
  \/ ClientRequest \/ TimePasses \/ PowerLoss

\* The two tasks have the same priority on the same core and take turns, and
\* every HTTP request ends: by a timeout wherever HTTPClient has one, and inside
\* a body because the server does not stop there (module Fetch).  Boot may wait
\* for ever at the configuration portal, so it has no fairness.
Fairness == WF_vars(LoopStep) /\ WF_vars(TaskStep)

Spec     == Init /\ [][Next]_vars
FairSpec == Spec /\ Fairness

-----------------------------------------------------------------------------
(* Properties.                                                             *)

TypeOK ==
  /\ pumpPin \in {"HIGH", "LOW"} /\ lightPin \in {"HIGH", "LOW"}
  /\ isPumpOn \in BOOLEAN /\ isLightOn \in BOOLEAN
  /\ hasTimerBeenSet \in BOOLEAN /\ shouldTick \in BOOLEAN
  /\ State \in {0, 1}
  /\ workTimeDelta \in Int /\ refreshRate \in Int /\ prevSecond \in Int
  /\ Now \in DateTimes /\ timer \in DateTimes
  /\ loopPc \in LoopPcs /\ taskPc \in TaskPcs
  /\ request \in AllRoutes \cup {"none"}
  /\ answer \in Answers
  /\ command \in {"none", "on", "off"}
  /\ fromServer \in SUBSET {"pump", "light"}
  /\ wall \in 0..MaxWall /\ bootWall \in 0..wall /\ ticks \in Nat

\* A user command stays in force until the server arms a timer: neither a
\* running timer, nor an expiring one, nor a poll, nor the answer to a request
\* made earlier moves the pump meanwhile (PumpOn, PumpOff, StateUpdate).
ManualCommandHolds ==
  command # "none" => pumpPin = (IF command = "on" THEN "LOW" ELSE "HIGH")

\* What /status, /lightStatus and /allStatus answer is what the relays do, at
\* any moment of the timer's life, unless a poll has overwritten the flag since
\* the relay was last moved (GetStatusFromServer writes no pin).
ReportsMatchPins ==
  /\ answer.to \in {"/status", "/allStatus"} /\ "pump" \notin fromServer
       => (answer.body[1] <=> pumpPin = "LOW")
  /\ answer.to = "/lightStatus" /\ "light" \notin fromServer
       => (answer.body[1] <=> lightPin = "LOW")
  /\ answer.to = "/allStatus" /\ "light" \notin fromServer
       => (answer.body[2] <=> lightPin = "LOW")

\* The countdown never runs faster than the clock, however often loop() passes
\* within a second: no run is cut short by it (UpdateDateTime, prevSecond).
CountdownNeverFast == ticks <= wall - bootWall

\* The timer does not start the pump before the true time has reached it, even
\* though the clock is read in four pieces (UpdateDateTime, CompareTime).
NeverStartsEarly ==
  [][ pumpPin = "HIGH" /\ pumpPin' = "LOW" /\ State' = 1
        => SameMinuteOrLater(Clock[wall], timer) ]_vars

\* Who may move the pump: a user command in force, else the timer followed.
Holder == IF command # "none" THEN command
          ELSE IF State = 1 THEN "timer" ELSE "nobody"

Promise == INSTANCE PumpAuthority
           WITH up <- loopPc # "boot", pump <- pumpPin = "LOW", holder <- Holder

\* Only the holder of the pump moves it (module PumpAuthority).
OnlyTheHolderMovesThePump == Promise!Spec

\* While the device is up it polls the server again and again, and never hangs
\* in a poll, whatever refreshRate the server sends and however many polls fail.
PollsForever ==
  /\ []<>(taskPc = "poll" \/ loopPc = "boot")
  /\ []<>(taskPc = "sleep" \/ loopPc = "boot")

\* A request to switch the pump off is obeyed, even when the server does not
\* answer the requests that block the loop before it is served.
PumpOffServed == (request = "/pumpOff") ~> (pumpPin = "HIGH")

=============================================================================
