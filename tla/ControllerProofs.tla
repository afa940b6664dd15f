-------------------------- MODULE ControllerProofs --------------------------
(***************************************************************************)
(* Theorems about module Controller, for every clock, every bound, every   *)
(* set of client requests and every set of server documents: the types,    *)
(* then the safety properties, each from an invariant that is inductive    *)
(* together with TypeOK, then the refinement.                              *)
(***************************************************************************)
EXTENDS Controller, TLAPS

-----------------------------------------------------------------------------
(* The comparisons of DateTime.h, for every six integers.                  *)

\* A timer that CompareTime calls due has come, in calendar order.
LEMMA DueHasCome ==
  ASSUME NEW now \in DateTimes, NEW due \in DateTimes, CompareTime(now, due)
  PROVE  SameMinuteOrLater(now, due)
BY DEF DateTimes, CompareTime, SameMinuteOrLater, LaterDate, IsToday

\* Calendar order is transitive.
LEMMA OrderTransitive ==
  ASSUME NEW a \in DateTimes, NEW b \in DateTimes, NEW c \in DateTimes,
         SameMinuteOrLater(a, b), SameMinuteOrLater(b, c)
  PROVE  SameMinuteOrLater(a, c)
BY DEF DateTimes, SameMinuteOrLater, LaterDate, IsToday

\* A date, an hour and a minute read one after the other, while the clock does
\* not go back, make up a time that is not ahead of the clock: what is torn by
\* a change of hour or of day between two readings is always behind.
LEMMA TornReadingNotAhead ==
  ASSUME NEW d \in DateTimes, NEW h \in DateTimes, NEW m \in DateTimes,
         NEW s \in DateTimes,
         SameMinuteOrLater(h, d), SameMinuteOrLater(m, h), SameMinuteOrLater(s, m)
  PROVE  SameMinuteOrLater(s, UpdateTime(d.year, d.month, d.day,
                                         h.hours, m.minutes, s.seconds))
<1> DEFINE reading == UpdateTime(d.year, d.month, d.day,
                                 h.hours, m.minutes, s.seconds)
<1>1. SameMinuteOrLater(s, h) /\ SameMinuteOrLater(s, d) /\ SameMinuteOrLater(m, d)
  BY OrderTransitive
<1>2. CASE LaterDate(s, d)
  BY <1>2 DEF LaterDate, SameMinuteOrLater, UpdateTime
<1>3. CASE ~LaterDate(s, d)
  <2>1. IsToday(s, d) /\ IsToday(h, d) /\ IsToday(m, d)
    BY <1>1, <1>3 DEF DateTimes, SameMinuteOrLater, LaterDate, IsToday
  <2>2. s.hours > h.hours \/ (s.hours = h.hours /\ s.minutes >= m.minutes)
    BY <1>1, <2>1 DEF DateTimes, SameMinuteOrLater, LaterDate, IsToday
  <2> QED
    BY <2>1, <2>2 DEF DateTimes, SameMinuteOrLater, IsToday, UpdateTime
<1> QED
  BY <1>2, <1>3

-----------------------------------------------------------------------------
(* Type correctness.                                                       *)

\* What a reading of the clock yields, and when it ends.
LEMMA ReadingBounds ==
  ASSUME TypeOK, NEW d \in wall..Horizon, NEW h \in d..Horizon,
         NEW m \in h..Horizon, NEW s \in m..Horizon
  PROVE  /\ d \in 0..MaxWall /\ h \in 0..MaxWall
         /\ m \in 0..MaxWall /\ s \in wall..MaxWall
         /\ Clock[d] \in DateTimes /\ Clock[h] \in DateTimes
         /\ Clock[m] \in DateTimes /\ Clock[s] \in DateTimes
         /\ ClockReading(d, h, m, s) \in DateTimes
<1>1. Horizon \in 0..MaxWall /\ wall \in Nat
  BY BoundsAssumption DEF TypeOK, Horizon
<1>2. /\ d \in 0..MaxWall /\ h \in 0..MaxWall
      /\ m \in 0..MaxWall /\ s \in wall..MaxWall /\ s \in 0..MaxWall
  BY <1>1, BoundsAssumption
<1>3. /\ Clock[d] \in DateTimes /\ Clock[h] \in DateTimes
      /\ Clock[m] \in DateTimes /\ Clock[s] \in DateTimes
  BY <1>2, ClockAssumption
<1>4. ClockReading(d, h, m, s) \in DateTimes
  BY <1>3 DEF ClockReading, UpdateTime, DateTimes
<1> QED
  BY <1>2, <1>3, <1>4

\* What TakeTimer makes of a document keeps its type.
LEMMA TimerDocType ==
  ASSUME NEW doc \in TimerDocs
  PROVE  /\ UpdateTime(doc.at.year, doc.at.month, doc.at.day,
                       doc.at.hours, doc.at.minutes, doc.at.seconds) \in DateTimes
         /\ doc.length * SecondsPerMinute \in Int
         /\ doc.isActive \in BOOLEAN
BY BoundsAssumption DEF TimerDocs, DateTimes, UpdateTime

\* A reading ends at some second s of the wall clock; what it read is not ahead
\* of the clock at s, and the countdown has seen the second shown at s.
LEMMA UpdateDateTimeEffect ==
  ASSUME TypeOK, UpdateDateTime
  PROVE  \E s \in wall..MaxWall :
           /\ Now' \in DateTimes
           /\ SameMinuteOrLater(Clock[s], Now')
           /\ CountDown(Clock[s].seconds)
           /\ wall' = s
<1>1. PICK d \in wall..Horizon : \E h \in d..Horizon :
        \E m \in h..Horizon : \E s \in m..Horizon :
          /\ Now' = ClockReading(d, h, m, s)
          /\ CountDown(Clock[s].seconds)
          /\ wall' = s
  BY DEF UpdateDateTime
<1>2. PICK h \in d..Horizon : \E m \in h..Horizon : \E s \in m..Horizon :
        /\ Now' = ClockReading(d, h, m, s)
        /\ CountDown(Clock[s].seconds)
        /\ wall' = s
  BY <1>1
<1>3. PICK m \in h..Horizon : \E s \in m..Horizon :
        /\ Now' = ClockReading(d, h, m, s)
        /\ CountDown(Clock[s].seconds)
        /\ wall' = s
  BY <1>2
<1>4. PICK s \in m..Horizon :
        /\ Now' = ClockReading(d, h, m, s)
        /\ CountDown(Clock[s].seconds)
        /\ wall' = s
  BY <1>3
<1>5. s \in wall..MaxWall /\ Now' \in DateTimes
  BY <1>4, ReadingBounds
<1>6. SameMinuteOrLater(Clock[s], Now')
  <2>1. /\ SameMinuteOrLater(Clock[h], Clock[d])
        /\ SameMinuteOrLater(Clock[m], Clock[h])
        /\ SameMinuteOrLater(Clock[s], Clock[m])
    BY ReadingBounds, ClockAssumption DEF TypeOK
  <2> QED
    BY <1>4, <2>1, ReadingBounds, TornReadingNotAhead DEF ClockReading
<1> QED
  BY <1>4, <1>5, <1>6

\* The stages of setup() and of loop() that read the clock.
LEMMA UpdateDateTimeType ==
  ASSUME TypeOK, UpdateDateTime PROVE TypeOK'
<1>1. PICK s \in wall..MaxWall :
        Now' \in DateTimes /\ CountDown(Clock[s].seconds) /\ wall' = s
  BY UpdateDateTimeEffect
<1>2. wall' \in 0..MaxWall /\ bootWall \in 0..wall'
  BY <1>1, BoundsAssumption DEF TypeOK
<1>6. Clock[s].seconds \in Int
  <2>1. Clock[s] \in DateTimes
    BY <1>1, <1>2, ClockAssumption
  <2> QED
    BY <2>1 DEF DateTimes
<1>3. Now' \in DateTimes
  BY <1>1
<1>4. prevSecond' \in Int /\ workTimeDelta' \in Int /\ ticks' \in Nat
  BY <1>1, <1>6 DEF TypeOK, CountDown
<1>5. loopPc' \in LoopPcs
  BY DEF UpdateDateTime, LoopPcs
<1> QED
  BY <1>2, <1>3, <1>4, <1>5
  DEF UpdateDateTime, TypeOK, pins, status, schedule, world

\* The answers of the server.
LEMMA StatusType ==
  ASSUME TypeOK, StatusAnswered
  PROVE  /\ isPumpOn' \in BOOLEAN /\ isLightOn' \in BOOLEAN
         /\ fromServer' \in SUBSET {"pump", "light"}
         /\ workTimeDelta' \in Int /\ refreshRate' \in Int
         /\ taskPc' \in TaskPcs
<1>1. CASE PollFailed
  BY <1>1, BoundsAssumption DEF PollFailed, TypeOK, status, TaskPcs
<1>2. CASE taskPc' = "sleep" /\ \E doc \in StatusReplies : TakeStatus(doc)
  BY <1>2, BoundsAssumption, RepliesAssumption
  DEF TakeStatus, StatusDocs, TypeOK, TaskPcs
<1> QED
  BY <1>1, <1>2 DEF StatusAnswered

\* The answers of the server to the loop task and to the poll keep every type.
LEMMA AnswersType ==
  ASSUME TypeOK,
         \/ CurrentTimerAnswered \/ RemainingTimeAnswered \/ NextTimerAnswered
         \/ SetupStatusAnswered \/ PollAnswered
  PROVE  TypeOK'
<1>1. CASE CurrentTimerAnswered
  <2>1. CASE UNCHANGED <<schedule, workTimeDelta>>
    BY <1>1, <2>1 DEF CurrentTimerAnswered, LoopPcs, TypeOK, pins, status, schedule, counting, world
  <2>2. CASE \E doc \in CurrentReplies : TakeTimer(doc) /\ ObeyActive(doc.isActive)
    <3>1. PICK doc \in CurrentReplies : TakeTimer(doc) /\ ObeyActive(doc.isActive)
      BY <2>2
    <3>2. doc \in TimerDocs
      BY RepliesAssumption
    <3>3. /\ timer' \in DateTimes /\ workTimeDelta' \in Int
          /\ hasTimerBeenSet' \in BOOLEAN /\ State' \in {0, 1}
          /\ command' \in {"none", "on", "off"}
      BY <3>1, <3>2, TimerDocType DEF TakeTimer, ObeyActive, TypeOK
    <3> QED
      BY <1>1, <3>3 DEF CurrentTimerAnswered, LoopPcs, TypeOK, pins, status, schedule, counting, world
  <2> QED
    BY <1>1, <2>1, <2>2 DEF CurrentTimerAnswered
<1>2. CASE RemainingTimeAnswered
  <2>1. /\ workTimeDelta' \in Int
        /\ hasTimerBeenSet' \in BOOLEAN /\ State' \in {0, 1}
        /\ command' \in {"none", "on", "off"}
    BY <1>2, BoundsAssumption, RepliesAssumption
    DEF RemainingTimeAnswered, RemainingDocs, ObeyActive, TypeOK
  <2> QED
    BY <1>2, <2>1 DEF RemainingTimeAnswered, LoopPcs, TypeOK, pins, status, schedule, counting, world
<1>3. CASE NextTimerAnswered
  <2>1. CASE NextTimerFailed
    BY <1>3, <2>1 DEF NextTimerAnswered, NextTimerFailed, LoopPcs, TypeOK, pins, status, schedule, counting, world
  <2>2. CASE \E doc \in NextReplies : TakeTimer(doc) /\ hasTimerBeenSet' = doc.isActive
    <3>1. PICK doc \in NextReplies : TakeTimer(doc) /\ hasTimerBeenSet' = doc.isActive
      BY <2>2
    <3>2. doc \in TimerDocs
      BY RepliesAssumption
    <3>3. /\ timer' \in DateTimes /\ workTimeDelta' \in Int
          /\ hasTimerBeenSet' \in BOOLEAN
      BY <3>1, <3>2, TimerDocType DEF TakeTimer
    <3>4. loopPc' \in LoopPcs /\ pumpPin' \in {"HIGH", "LOW"}
      BY <1>3 DEF NextTimerAnswered, NextTimerFailed, LoopPcs
    <3> QED
      BY <1>3, <3>3, <3>4 DEF NextTimerAnswered, TypeOK, pins, status, schedule, counting, world
  <2> QED
    BY <1>3, <2>1, <2>2 DEF NextTimerAnswered
<1>4. CASE SetupStatusAnswered
  <2>1. StatusAnswered
    BY <1>4 DEF SetupStatusAnswered
  <2> QED
    BY <1>4, <2>1, StatusType DEF SetupStatusAnswered, LoopPcs, TypeOK, pins, status, schedule, counting, world
<1>5. CASE PollAnswered
  <2>1. StatusAnswered
    BY <1>5 DEF PollAnswered
  <2> QED
    BY <1>5, <2>1, StatusType DEF PollAnswered, TypeOK, pins, status, schedule, counting, world
<1> QED
  BY <1>1, <1>2, <1>3, <1>4, <1>5

\* The answers to clients, and the values of a fresh start.
LEMMA SendType ==
  ASSUME TypeOK, NEW body \in Seq(BOOLEAN), Send(body)
  PROVE  answer' \in Answers
BY DEF TypeOK, Answers, Send

\* The facts that the handlers report are truth values.
LEMMA BodyTypes ==
  ASSUME TypeOK
  PROVE  /\ <<>> \in Seq(BOOLEAN) /\ <<isPumpOn>> \in Seq(BOOLEAN)
         /\ <<isLightOn>> \in Seq(BOOLEAN) /\ <<hasTimerBeenSet>> \in Seq(BOOLEAN)
         /\ <<isPumpOn, isLightOn, hasTimerBeenSet>> \in Seq(BOOLEAN)
BY DEF TypeOK

\* The values of a fresh start have the types of the variables.
LEMMA FreshTypes == FactoryTime \in DateTimes /\ NoAnswer \in Answers
<1>1. FactoryTime \in DateTimes
  BY DEF FactoryTime, UpdateTime, DateTimes
<1>2. <<>> \in Seq(BOOLEAN)
  OBVIOUS
<1> QED
  BY <1>1, <1>2 DEF NoAnswer, Answers

\* A restart keeps every type.
LEMMA ResetType ==
  ASSUME TypeOK, Reset PROVE TypeOK'
<1>1. Now' \in DateTimes /\ timer' \in DateTimes /\ answer' \in Answers
  BY FreshTypes DEF Reset
<1>2. wall' \in 0..MaxWall /\ bootWall' \in 0..wall' /\ ticks' \in Nat
  BY BoundsAssumption DEF Reset, TypeOK
<1>3. loopPc' \in LoopPcs /\ taskPc' \in TaskPcs
  BY DEF Reset, LoopPcs, TaskPcs
<1>4. isPumpOn' \in BOOLEAN /\ isLightOn' \in BOOLEAN
      /\ hasTimerBeenSet' \in BOOLEAN /\ shouldTick' \in BOOLEAN
  BY DEF Reset
<1>5. State' \in {0, 1} /\ workTimeDelta' \in Int
      /\ refreshRate' \in Int /\ prevSecond' \in Int
  BY DEF Reset
<1>6. request' \in AllRoutes \cup {"none"} /\ command' \in {"none", "on", "off"}
      /\ fromServer' \in SUBSET {"pump", "light"}
  BY DEF Reset
<1>7. pumpPin' \in {"HIGH", "LOW"} /\ lightPin' \in {"HIGH", "LOW"}
  BY DEF Reset
<1> QED
  BY <1>1, <1>2, <1>3, <1>4, <1>5, <1>6, <1>7 DEF TypeOK

\* The web requests.
LEMMA HandleClientType ==
  ASSUME TypeOK, HandleClient PROVE TypeOK'
<1> USE SendType, BodyTypes DEF Serve, LoopPcs, TypeOK, pins, status, schedule, counting, world
<1>1. CASE NoRequest
  BY <1>1 DEF NoRequest
<1>2. CASE PumpOn
  BY <1>2 DEF PumpOn
<1>3. CASE PumpOff
  BY <1>3 DEF PumpOff
<1>4. ASSUME NEW route, NEW pin \in {"HIGH", "LOW"}, NEW on \in BOOLEAN,
             SwitchLight(route, pin, on)
      PROVE  TypeOK'
  BY <1>4 DEF SwitchLight
<1>5. ASSUME NEW route, NEW body \in Seq(BOOLEAN), Report(route, body)
      PROVE  TypeOK'
  BY <1>5 DEF Report
<1>6. ASSUME NEW route, NEW pc \in LoopPcs, Fetch(route, pc)
      PROVE  TypeOK'
  <2>1. answer' \in Answers
    BY <1>6 DEF Fetch
  <2> QED
    BY <1>6, <2>1 DEF Fetch
<1>7. CASE Restart
  BY <1>7, ResetType DEF Restart
<1>8. CASE LightsOn \/ LightsOff
  BY <1>4, <1>8 DEF LightsOn, LightsOff
<1>9. CASE OnConnect \/ SendTemperature \/ NotFound
  BY <1>5, <1>9 DEF OnConnect, SendTemperature, NotFound
<1>10. CASE SendPumpStatus \/ SendLightStatus \/ SendTimerStatus \/ GetAllStatus
  BY <1>5, <1>10
  DEF SendPumpStatus, SendLightStatus, SendTimerStatus, GetAllStatus
<1>11. CASE GetCurrentTimer \/ ToggleTimer
  BY <1>6, <1>11 DEF GetCurrentTimer, ToggleTimer
<1> QED
  BY <1>1, <1>2, <1>3, <1>7, <1>8, <1>9, <1>10, <1>11 DEF HandleClient

\* Every step of the system.
LEMMA TypeStep ==
  ASSUME TypeOK, [Next]_vars PROVE TypeOK'
<1>1. CASE Boot
  BY <1>1 DEF Boot, LoopPcs, TypeOK, pins, status, schedule, counting, world
<1>2. CASE LoopStep
  <2>1. CASE StateUpdate
    BY <2>1, FreshTypes
    DEF StateUpdate, Manual, NotDue, TimerRuns, TimerSpent, PassDone, LoopPcs, TypeOK, pins, status, schedule, counting, world
  <2> QED
    BY <1>2, <2>1, UpdateDateTimeType, AnswersType, HandleClientType DEF LoopStep
<1>3. CASE TaskStep
  <2>1. CASE TaskPass
    BY <2>1 DEF TaskPass, TaskPcs, TypeOK, pins, status, schedule, counting, world
  <2> QED
    BY <1>3, <2>1, AnswersType DEF TaskStep
<1>4. CASE ClientRequest
  BY <1>4, RepliesAssumption DEF ClientRequest, TypeOK, pins, status, schedule, counting, world
<1>5. CASE TimePasses
  BY <1>5, BoundsAssumption DEF TimePasses, TypeOK, pins, status, schedule, counting, world
<1>6. CASE PowerLoss
  BY <1>6, ResetType DEF PowerLoss
<1>7. CASE UNCHANGED vars
  BY <1>7 DEF vars, TypeOK, pins, status, schedule, counting, world
<1> QED
  BY <1>1, <1>2, <1>3, <1>4, <1>5, <1>6, <1>7 DEF Next

\* Every variable keeps its type, in particular State stays 0 or 1 and the
\* calendar values stay whole.
THEOREM TypeCorrect == Spec => []TypeOK
<1>1. Init => TypeOK
  <2> SUFFICES ASSUME Init PROVE TypeOK
    OBVIOUS
  <2>1. Now \in DateTimes /\ timer \in DateTimes /\ answer \in Answers
    BY FreshTypes DEF Init
  <2>2. wall \in 0..MaxWall /\ bootWall \in 0..wall /\ ticks \in Nat
    BY BoundsAssumption DEF Init
  <2>3. loopPc \in LoopPcs /\ taskPc \in TaskPcs
    BY DEF Init, LoopPcs, TaskPcs
  <2>4. isPumpOn \in BOOLEAN /\ isLightOn \in BOOLEAN
        /\ hasTimerBeenSet \in BOOLEAN /\ shouldTick \in BOOLEAN
    BY DEF Init
  <2>5. State \in {0, 1} /\ workTimeDelta \in Int
        /\ refreshRate \in Int /\ prevSecond \in Int
    BY DEF Init
  <2>6. request \in AllRoutes \cup {"none"} /\ command \in {"none", "on", "off"}
        /\ fromServer \in SUBSET {"pump", "light"}
    BY DEF Init
  <2>7. pumpPin \in {"HIGH", "LOW"} /\ lightPin \in {"HIGH", "LOW"}
    BY DEF Init
  <2> QED
    BY <2>1, <2>2, <2>3, <2>4, <2>5, <2>6, <2>7 DEF TypeOK
<1> QED
  BY <1>1, TypeStep, PTL DEF Spec

-----------------------------------------------------------------------------
(* The user's command.                                                     *)

\* While a user command is in force the timer is not followed, so that no
\* stage of StateUpdate can reach the pump; and a timer being replaced is still
\* being followed, so that the pin which GetNextTimer delays is the timer's.
CommandInv ==
  /\ ManualCommandHolds
  /\ command # "none" => State = 0
  /\ loopPc = "next" => State = 1
  /\ loopPc = "boot" => command = "none" /\ State = 0

\* At first no command is in force.
LEMMA CommandInit == Init => CommandInv
BY DEF Init, CommandInv, ManualCommandHolds

\* Every step keeps CommandInv.
LEMMA CommandStep ==
  ASSUME TypeOK, CommandInv, [Next]_vars PROVE CommandInv'
<1> USE DEF CommandInv, ManualCommandHolds, pins, status, schedule, counting, world
<1>1. CASE Boot
  BY <1>1 DEF Boot
<1>2. CASE CurrentTimerAnswered \/ RemainingTimeAnswered
  BY <1>2 DEF CurrentTimerAnswered, RemainingTimeAnswered, TakeTimer, ObeyActive
<1>3. CASE UpdateDateTime
  BY <1>3 DEF UpdateDateTime
<1>4. CASE SetupStatusAnswered \/ PollAnswered
  BY <1>4 DEF SetupStatusAnswered, PollAnswered
<1>5. CASE PumpOn \/ PumpOff
  BY <1>5 DEF PumpOn, PumpOff, Serve
<1>6. CASE LightsOn \/ LightsOff
  BY <1>6 DEF LightsOn, LightsOff, SwitchLight, Serve
<1>7. CASE NoRequest \/ OnConnect \/ SendPumpStatus \/ SendLightStatus
           \/ SendTimerStatus \/ GetAllStatus \/ SendTemperature \/ NotFound
           \/ GetCurrentTimer \/ ToggleTimer
  BY <1>7 DEF NoRequest, OnConnect, SendPumpStatus, SendLightStatus,
     SendTimerStatus, GetAllStatus, SendTemperature, NotFound, GetCurrentTimer,
     ToggleTimer, Report, Fetch, Serve
<1>8. CASE Restart \/ PowerLoss
  BY <1>8 DEF Restart, PowerLoss, Reset
<1>9. CASE StateUpdate
  BY <1>9 DEF StateUpdate, Manual, NotDue, TimerRuns, TimerSpent, PassDone
<1>10. CASE NextTimerAnswered
  BY <1>10 DEF NextTimerAnswered, NextTimerFailed
<1>11. CASE TaskPass \/ ClientRequest \/ TimePasses \/ UNCHANGED vars
  BY <1>11 DEF TaskPass, ClientRequest, TimePasses, vars
<1> QED
  BY <1>1, <1>2, <1>3, <1>4, <1>5, <1>6, <1>7, <1>8, <1>9, <1>10, <1>11
  DEF Next, LoopStep, TaskStep, HandleClient

\* CommandInv holds in every reachable state (PumpOn, PumpOff, StateUpdate and
\* the answers that arm a timer).
THEOREM CommandInvariant == Spec => []CommandInv
BY CommandInit, CommandStep, TypeCorrect, PTL DEF Spec

\* A user command moves the pump and holds it until the server arms a timer,
\* for every interleaving with polls, timers, and answers still on their way.
THEOREM CommandHolds == Spec => []ManualCommandHolds
<1>1. CommandInv => ManualCommandHolds
  BY DEF CommandInv
<1> QED
  BY <1>1, CommandInvariant, PTL

-----------------------------------------------------------------------------
(* The countdown.                                                          *)

\* The second last seen is one the clock showed at some instant r since boot,
\* and no more was counted than the time up to r.  Before the first reading
\* the remembered second means nothing, but then nothing is being counted.
CountInv ==
  IF loopPc \in {"boot", "setupTimer", "setupClock"}
  THEN ticks = 0 /\ ~shouldTick
  ELSE \E r \in bootWall..wall :
         /\ ticks <= r - bootWall
         /\ prevSecond = Clock[r].seconds

\* At first nothing has been counted.
LEMMA CountInit == Init => CountInv
BY DEF Init, CountInv

\* A reading of the clock counts at most one of the seconds that have passed.
LEMMA CountUpdateDateTime ==
  ASSUME TypeOK, CountInv, UpdateDateTime PROVE CountInv'
<1>1. PICK s \in wall..MaxWall : CountDown(Clock[s].seconds) /\ wall' = s
  BY UpdateDateTimeEffect
<1>2. /\ prevSecond' = Clock[s].seconds
      /\ ticks' = ticks \/ (ticks' = ticks + 1 /\ shouldTick
                              /\ Clock[s].seconds # prevSecond)
  BY <1>1 DEF CountDown, TypeOK
<1>3. bootWall' = bootWall /\ s \in bootWall'..wall' /\ s \in Int
  BY <1>1, BoundsAssumption DEF UpdateDateTime, world, TypeOK
<1>4. loopPc' \notin {"boot", "setupTimer", "setupClock"}
  BY DEF UpdateDateTime
<1>5. ticks' <= s - bootWall'
  <2>1. CASE loopPc = "setupClock"
    BY <1>1, <1>2, <1>3, <2>1 DEF CountInv, TypeOK
  <2>2. CASE loopPc = "clock"
    <3>1. PICK r \in bootWall..wall :
            ticks <= r - bootWall /\ prevSecond = Clock[r].seconds
      BY <2>2 DEF CountInv
    <3>2. r <= s /\ (Clock[s].seconds # prevSecond => r < s)
      BY <1>1, <3>1, BoundsAssumption DEF TypeOK
    <3> QED
      BY <1>1, <1>2, <1>3, <3>1, <3>2, BoundsAssumption DEF TypeOK
  <2> QED
    BY <2>1, <2>2 DEF UpdateDateTime
<1> QED
  BY <1>2, <1>3, <1>4, <1>5 DEF CountInv

\* Every step keeps CountInv.
LEMMA CountStep ==
  ASSUME TypeOK, TypeOK', CountInv, [Next]_vars PROVE CountInv'
<1> DEFINE early == loopPc \in {"boot", "setupTimer", "setupClock"}
<1>1. CASE UpdateDateTime
  BY <1>1, CountUpdateDateTime
<1>2. CASE Restart \/ PowerLoss
  BY <1>2 DEF Restart, PowerLoss, Reset, CountInv
<1>3. ASSUME bootWall' = bootWall, wall' = wall \/ wall' = wall + 1, ticks' = ticks,
             prevSecond' = prevSecond, early' <=> early,
             early => shouldTick' = shouldTick
      PROVE  CountInv'
  BY <1>3 DEF CountInv, TypeOK
<1> USE DEF pins, status, schedule, counting, world
<1>4. CASE Boot \/ CurrentTimerAnswered \/ RemainingTimeAnswered
           \/ SetupStatusAnswered \/ PollAnswered \/ NextTimerAnswered
  BY <1>3, <1>4 DEF Boot, CurrentTimerAnswered, RemainingTimeAnswered,
     SetupStatusAnswered, PollAnswered, NextTimerAnswered, NextTimerFailed
<1>5. CASE PumpOn \/ PumpOff \/ LightsOn \/ LightsOff
  BY <1>3, <1>5 DEF PumpOn, PumpOff, LightsOn, LightsOff, SwitchLight, Serve
<1>6. CASE NoRequest \/ OnConnect \/ SendPumpStatus \/ SendLightStatus
           \/ SendTimerStatus \/ GetAllStatus \/ SendTemperature \/ NotFound
           \/ GetCurrentTimer \/ ToggleTimer
  BY <1>3, <1>6 DEF NoRequest, OnConnect, SendPumpStatus, SendLightStatus,
     SendTimerStatus, GetAllStatus, SendTemperature, NotFound, GetCurrentTimer,
     ToggleTimer, Report, Fetch, Serve
<1>7. CASE StateUpdate
  BY <1>3, <1>7 DEF StateUpdate, Manual, NotDue, TimerRuns, TimerSpent, PassDone
<1>8. CASE TaskPass \/ ClientRequest \/ TimePasses \/ UNCHANGED vars
  BY <1>3, <1>8 DEF TaskPass, ClientRequest, TimePasses, vars
<1> QED
  BY <1>1, <1>2, <1>4, <1>5, <1>6, <1>7, <1>8
  DEF Next, LoopStep, TaskStep, HandleClient

\* The countdown never runs faster than the clock.
THEOREM NeverFast == Spec => []CountdownNeverFast
<1>1. TypeOK /\ CountInv => CountdownNeverFast
  BY DEF TypeOK, CountInv, CountdownNeverFast
<1>2. Spec => []CountInv
  BY CountInit, CountStep, TypeCorrect, PTL DEF Spec
<1> QED
  BY <1>1, <1>2, TypeCorrect, PTL

-----------------------------------------------------------------------------
(* The start of a run.                                                     *)

\* After the first reading, the time the device believes it is, torn or stale
\* as it may be, is not ahead of the clock.
NowInv ==
  loopPc \notin {"boot", "setupTimer", "setupClock"}
    => SameMinuteOrLater(Clock[wall], Now)

\* At first Now has not been read.
LEMMA NowInit == Init => NowInv
BY DEF Init, NowInv

\* Now stays behind a clock that moves on.
LEMMA NowTimePasses ==
  ASSUME TypeOK, NowInv, TimePasses PROVE NowInv'
<1>1. wall \in 0..MaxWall /\ wall' \in wall..MaxWall
  BY BoundsAssumption DEF TypeOK, TimePasses
<1>2. /\ SameMinuteOrLater(Clock[wall'], Clock[wall])
      /\ Clock[wall] \in DateTimes /\ Clock[wall'] \in DateTimes
  BY <1>1, BoundsAssumption, ClockAssumption
<1> QED
  BY <1>2, OrderTransitive DEF NowInv, TypeOK, TimePasses

\* Every step keeps NowInv.
LEMMA NowStep ==
  ASSUME TypeOK, NowInv, [Next]_vars PROVE NowInv'
<1> DEFINE early == loopPc \in {"boot", "setupTimer", "setupClock"}
<1>1. CASE UpdateDateTime
  <2>1. PICK s \in wall..MaxWall :
          SameMinuteOrLater(Clock[s], Now') /\ wall' = s
    BY <1>1, UpdateDateTimeEffect
  <2> QED
    BY <2>1 DEF NowInv
<1>2. CASE Restart \/ PowerLoss
  BY <1>2 DEF Restart, PowerLoss, Reset, NowInv
<1>3. ASSUME wall' = wall, Now' = Now, early' <=> early PROVE NowInv'
  BY <1>3 DEF NowInv
<1> USE DEF pins, status, schedule, counting, world
<1>4. CASE Boot \/ CurrentTimerAnswered \/ RemainingTimeAnswered
           \/ SetupStatusAnswered \/ PollAnswered \/ NextTimerAnswered
  BY <1>3, <1>4 DEF Boot, CurrentTimerAnswered, RemainingTimeAnswered,
     SetupStatusAnswered, PollAnswered, NextTimerAnswered, NextTimerFailed
<1>5. CASE PumpOn \/ PumpOff \/ LightsOn \/ LightsOff
  BY <1>3, <1>5 DEF PumpOn, PumpOff, LightsOn, LightsOff, SwitchLight, Serve
<1>6. CASE NoRequest \/ OnConnect \/ SendPumpStatus \/ SendLightStatus
           \/ SendTimerStatus \/ GetAllStatus \/ SendTemperature \/ NotFound
           \/ GetCurrentTimer \/ ToggleTimer
  BY <1>3, <1>6 DEF NoRequest, OnConnect, SendPumpStatus, SendLightStatus,
     SendTimerStatus, GetAllStatus, SendTemperature, NotFound, GetCurrentTimer,
     ToggleTimer, Report, Fetch, Serve
<1>7. CASE StateUpdate
  BY <1>3, <1>7 DEF StateUpdate, Manual, NotDue, TimerRuns, TimerSpent, PassDone
<1>8. CASE TaskPass \/ ClientRequest \/ UNCHANGED vars
  BY <1>3, <1>8 DEF TaskPass, ClientRequest, vars
<1> QED
  BY <1>1, <1>2, <1>4, <1>5, <1>6, <1>7, <1>8, NowTimePasses
  DEF Next, LoopStep, TaskStep, HandleClient

\* The timer does not start the pump before its time has come, for every clock
\* that does not go back, and however long the reading of the clock takes.
THEOREM StartsInTime == Spec => NeverStartsEarly
<1> DEFINE InTime == pumpPin = "HIGH" /\ pumpPin' = "LOW" /\ State' = 1
                       => SameMinuteOrLater(Clock[wall], timer)
<1>1. TypeOK /\ NowInv /\ [Next]_vars => [InTime]_vars
  <2> SUFFICES ASSUME TypeOK, NowInv, Next,
                      pumpPin = "HIGH", pumpPin' = "LOW", State' = 1
               PROVE  SameMinuteOrLater(Clock[wall], timer)
    OBVIOUS
  <2>1. TimerRuns \/ TimerSpent
    <3> USE DEF pins, status, schedule, counting, world
    <3>1. ~(PumpOn \/ Boot \/ PumpOff \/ NextTimerAnswered)
      BY DEF PumpOn, Boot, PumpOff, NextTimerAnswered, NextTimerFailed
    <3>2. ~(Restart \/ PowerLoss)
      BY DEF Restart, PowerLoss, Reset
    <3>3. ~(CurrentTimerAnswered \/ RemainingTimeAnswered \/ UpdateDateTime
             \/ SetupStatusAnswered \/ PollAnswered \/ TaskPass
             \/ ClientRequest \/ TimePasses)
      BY DEF CurrentTimerAnswered, RemainingTimeAnswered, UpdateDateTime,
         SetupStatusAnswered, PollAnswered, TaskPass, ClientRequest, TimePasses
    <3>4. ~(LightsOn \/ LightsOff \/ NoRequest \/ OnConnect \/ SendPumpStatus
             \/ SendLightStatus \/ SendTimerStatus \/ GetAllStatus
             \/ SendTemperature \/ NotFound \/ GetCurrentTimer \/ ToggleTimer)
      BY DEF LightsOn, LightsOff, SwitchLight, NoRequest, OnConnect,
         SendPumpStatus, SendLightStatus, SendTimerStatus, GetAllStatus,
         SendTemperature, NotFound, GetCurrentTimer, ToggleTimer, Report, Fetch
    <3>5. ~(Manual \/ NotDue)
      BY DEF Manual, NotDue, PassDone
    <3> QED
      BY <3>1, <3>2, <3>3, <3>4, <3>5
      DEF Next, LoopStep, TaskStep, HandleClient, StateUpdate
  <2>2. CompareTime(Now, timer) /\ loopPc = "state"
    BY <2>1 DEF TimerRuns, TimerSpent, PassDone
  <2>3. SameMinuteOrLater(Clock[wall], Now) /\ SameMinuteOrLater(Now, timer)
    BY <2>2, DueHasCome DEF NowInv, TypeOK
  <2>4. Clock[wall] \in DateTimes
    BY ClockAssumption DEF TypeOK
  <2> QED
    BY <2>3, <2>4, OrderTransitive DEF TypeOK
<1>2. Spec => []NowInv
  BY NowInit, NowStep, TypeCorrect, PTL DEF Spec
<1>3. Spec => [][InTime]_vars
  BY <1>1, <1>2, TypeCorrect, PTL DEF Spec
<1> QED
  BY <1>3 DEF NeverStartsEarly

-----------------------------------------------------------------------------
(* What clients are told.                                                  *)

\* Between two stages that move a relay and its flag together they agree,
\* unless a poll has written the flag; while GetNextTimer blocks they do not,
\* but then no answer is outstanding that could tell.
ReportInv ==
  /\ ReportsMatchPins
  /\ "pump" \notin fromServer =>
       (isPumpOn <=> loopPc # "next" /\ pumpPin = "LOW")
  /\ "light" \notin fromServer => (isLightOn <=> lightPin = "LOW")
  /\ loopPc \in {"next", "boot"} => answer.to = "none"
  /\ loopPc = "boot" => pumpPin = "HIGH" /\ lightPin = "HIGH"

\* At first nothing has been reported.
LEMMA ReportInit == Init => ReportInv
<1>1. NoAnswer.to = "none"
  BY DEF NoAnswer
<1> QED
  BY <1>1 DEF Init, ReportInv, ReportsMatchPins

\* Every step keeps ReportInv.
LEMMA ReportStep ==
  ASSUME TypeOK, ReportInv, [Next]_vars PROVE ReportInv'
<1> USE DEF ReportInv, ReportsMatchPins, TypeOK,
            pins, status, schedule, counting, world
<1>0. NoAnswer.to = "none"
  BY DEF NoAnswer
<1>1. CASE Boot
  BY <1>1 DEF Boot
<1>2. CASE CurrentTimerAnswered \/ RemainingTimeAnswered
  BY <1>2 DEF CurrentTimerAnswered, RemainingTimeAnswered
<1>3. CASE UpdateDateTime
  BY <1>3 DEF UpdateDateTime
<1>4. CASE SetupStatusAnswered \/ PollAnswered
  BY <1>4 DEF SetupStatusAnswered, PollAnswered, StatusAnswered, TakeStatus,
     PollFailed
<1>5. CASE PumpOn \/ PumpOff
  <2>1. answer'.to \in {"/pumpOn", "/pumpOff"}
    BY <1>5 DEF PumpOn, PumpOff, Serve, Send
  <2> QED
    BY <1>5, <2>1 DEF PumpOn, PumpOff, Serve
<1>6. CASE LightsOn \/ LightsOff
  <2>1. answer'.to \in {"/lightOn", "/lightOff"}
    BY <1>6 DEF LightsOn, LightsOff, SwitchLight, Serve, Send
  <2> QED
    BY <1>6, <2>1 DEF LightsOn, LightsOff, SwitchLight, Serve
<1>7. CASE NoRequest \/ OnConnect \/ SendTimerStatus \/ SendTemperature
           \/ NotFound \/ GetCurrentTimer \/ ToggleTimer
  BY <1>7 DEF NoRequest, OnConnect, SendTimerStatus, SendTemperature, NotFound,
     GetCurrentTimer, ToggleTimer, Report, Fetch, Serve, Send
<1>8. CASE SendPumpStatus \/ SendLightStatus \/ GetAllStatus
  BY <1>8 DEF SendPumpStatus, SendLightStatus, GetAllStatus, Report, Serve, Send
<1>9. CASE Restart \/ PowerLoss
  BY <1>0, <1>9 DEF Restart, PowerLoss, Reset
<1>10. CASE StateUpdate
  BY <1>0, <1>10
  DEF StateUpdate, Manual, NotDue, TimerRuns, TimerSpent, PassDone
<1>11. CASE NextTimerAnswered
  BY <1>11 DEF NextTimerAnswered, NextTimerFailed
<1>12. CASE TaskPass \/ ClientRequest \/ TimePasses \/ UNCHANGED vars
  BY <1>12 DEF TaskPass, ClientRequest, TimePasses, vars
<1> QED
  BY <1>1, <1>2, <1>3, <1>4, <1>5, <1>6, <1>7, <1>8, <1>9, <1>10, <1>11, <1>12
  DEF Next, LoopStep, TaskStep, HandleClient

\* ReportInv holds in every reachable state (the handlers that move a relay or
\* report it, StateUpdate, and the restarts).
THEOREM ReportInvariant == Spec => []ReportInv
BY ReportInit, ReportStep, TypeCorrect, PTL DEF Spec

\* What clients are told of the relays is what the relays do, unless a poll has
\* overwritten it.
THEOREM ReportsAreTrue == Spec => []ReportsMatchPins
<1>1. ReportInv => ReportsMatchPins
  BY DEF ReportInv
<1> QED
  BY <1>1, ReportInvariant, PTL

-----------------------------------------------------------------------------
(* Controller implements PumpAuthority: every step of the two tasks, of a  *)
(* client, of the server or of the power supply is one of the moves that   *)
(* module allows, or leaves the pump and its holder alone.                 *)

\* At first nobody holds the pump, and it is off.
LEMMA InitRefines == Init => Promise!Init
BY DEF Init, Promise!Init, Holder

\* Steps that touch neither the pump nor its holder.
LEMMA Stutters ==
  ASSUME pumpPin' = pumpPin, command' = command, State' = State,
         loopPc' = "boot" <=> loopPc = "boot"
  PROVE  UNCHANGED Promise!vars
BY DEF Promise!vars, Holder

\* Taking a document: an active timer takes the pump over, an inactive one
\* takes it from a timer only.
LEMMA ObeyRefines ==
  ASSUME TypeOK, NEW active \in BOOLEAN, ObeyActive(active), pumpPin' = pumpPin,
         loopPc # "boot", loopPc' # "boot"
  PROVE  [Promise!Next]_(Promise!vars)
<1>1. CASE active
  <2>1. Holder' = "timer"
    BY <1>1 DEF ObeyActive, Holder
  <2> QED
    BY <2>1 DEF Promise!Next, Promise!ServerArms
<1>2. CASE ~active /\ Holder = "timer"
  <2>1. Holder' = "nobody"
    BY <1>2 DEF ObeyActive, Holder, TypeOK
  <2> QED
    BY <1>2, <2>1 DEF Promise!Next, Promise!ServerDisarms
<1>3. CASE ~active /\ Holder # "timer"
  <2>1. Holder' = Holder
    BY <1>3 DEF ObeyActive, Holder, TypeOK
  <2> QED
    BY <2>1 DEF Promise!vars
<1> QED
  BY <1>1, <1>2, <1>3

\* Every step of the controller is a step of PumpAuthority, or leaves pump and
\* holder alone.
LEMMA StepRefines ==
  ASSUME TypeOK, CommandInv, CommandInv', ReportInv, [Next]_vars
  PROVE  [Promise!Next]_(Promise!vars)
<1> USE DEF pins, status, schedule, counting, world
<1>1. CASE Boot
  <2>1. /\ Holder' = Holder /\ pumpPin' = pumpPin
        /\ loopPc = "boot" /\ loopPc' # "boot"
    BY <1>1 DEF Boot, ReportInv, Holder
  <2> QED
    BY <2>1 DEF Promise!Next, Promise!Start
<1>2. CASE CurrentTimerAnswered
  <2>1. CASE UNCHANGED <<schedule, workTimeDelta>>
    BY <1>2, <2>1, Stutters DEF CurrentTimerAnswered
  <2>2. CASE \E doc \in CurrentReplies : TakeTimer(doc) /\ ObeyActive(doc.isActive)
    <3>1. PICK doc \in CurrentReplies : ObeyActive(doc.isActive)
      BY <2>2
    <3>2. doc.isActive \in BOOLEAN
      BY <3>1, RepliesAssumption DEF TimerDocs
    <3> QED
      BY <1>2, <3>1, <3>2, ObeyRefines DEF CurrentTimerAnswered
  <2> QED
    BY <1>2, <2>1, <2>2 DEF CurrentTimerAnswered
<1>3. CASE RemainingTimeAnswered
  <2>1. CASE UNCHANGED <<workTimeDelta, hasTimerBeenSet, State, command>>
    BY <1>3, <2>1, Stutters DEF RemainingTimeAnswered
  <2>2. CASE \E doc \in RemainingReplies : ObeyActive(doc.isActive)
    <3>1. PICK doc \in RemainingReplies : ObeyActive(doc.isActive)
      BY <2>2
    <3>2. doc.isActive \in BOOLEAN
      BY <3>1, RepliesAssumption DEF RemainingDocs
    <3> QED
      BY <1>3, <3>1, <3>2, ObeyRefines DEF RemainingTimeAnswered
  <2> QED
    BY <1>3, <2>1, <2>2 DEF RemainingTimeAnswered
<1>4. CASE PumpOn \/ PumpOff
  <2>1. loopPc # "boot" /\ loopPc' # "boot"
    BY <1>4 DEF PumpOn, PumpOff, Serve
  <2>2. CASE PumpOn
    <3>1. Holder' = "on" /\ pumpPin' = "LOW"
      BY <2>2 DEF PumpOn, Holder
    <3> QED
      BY <2>1, <3>1 DEF Promise!Next, Promise!UserCommand
  <2>3. CASE PumpOff
    <3>1. Holder' = "off" /\ pumpPin' = "HIGH"
      BY <2>3 DEF PumpOff, Holder
    <3> QED
      BY <2>1, <3>1 DEF Promise!Next, Promise!UserCommand
  <2> QED
    BY <1>4, <2>2, <2>3
<1>5. CASE TimerRuns \/ TimerSpent \/ NextTimerAnswered
  <2>1. State = 1 /\ State' = State /\ command' = command
    BY <1>5 DEF TimerRuns, TimerSpent, NextTimerAnswered, PassDone, CommandInv
  <2>2. Holder = "timer" /\ Holder' = "timer"
    BY <2>1 DEF CommandInv, Holder
  <2>3. loopPc # "boot" /\ loopPc' # "boot"
    BY <1>5 DEF TimerRuns, TimerSpent, NextTimerAnswered, NextTimerFailed,
       PassDone
  <2>4. (pumpPin = "LOW")' \in BOOLEAN
    OBVIOUS
  <2> QED
    BY <2>2, <2>3, <2>4 DEF Promise!Next, Promise!TimerMoves
<1>6. CASE Restart \/ PowerLoss
  <2>1. /\ Holder' = "nobody" /\ pumpPin' = "HIGH"
        /\ loopPc # "boot" /\ loopPc' = "boot"
    BY <1>6 DEF Restart, Serve, PowerLoss, Reset, Holder
  <2> QED
    BY <2>1 DEF Promise!Next, Promise!GoDown
<1>7. CASE UpdateDateTime \/ SetupStatusAnswered \/ Manual \/ NotDue
           \/ TaskPass \/ PollAnswered \/ ClientRequest \/ TimePasses
           \/ UNCHANGED vars
  BY <1>7, Stutters
  DEF UpdateDateTime, SetupStatusAnswered, Manual, NotDue, PassDone, TaskPass,
      PollAnswered, ClientRequest, TimePasses, vars
<1>8. CASE LightsOn \/ LightsOff \/ NoRequest \/ OnConnect \/ SendPumpStatus
           \/ SendLightStatus \/ SendTimerStatus \/ GetAllStatus
           \/ SendTemperature \/ NotFound \/ GetCurrentTimer \/ ToggleTimer
  BY <1>8, Stutters
  DEF LightsOn, LightsOff, SwitchLight, NoRequest, OnConnect, SendPumpStatus,
      SendLightStatus, SendTimerStatus, GetAllStatus, SendTemperature, NotFound,
      GetCurrentTimer, ToggleTimer, Report, Fetch, Serve
<1> QED
  BY <1>1, <1>2, <1>3, <1>4, <1>5, <1>6, <1>7, <1>8
  DEF Next, LoopStep, TaskStep, HandleClient, StateUpdate

\* Only the holder of the pump moves it: a user after a command, the timer
\* after the server armed it, and loss of power.
THEOREM HolderRules == Spec => OnlyTheHolderMovesThePump
BY InitRefines, StepRefines, TypeCorrect, CommandInvariant, ReportInvariant, PTL
DEF Spec, OnlyTheHolderMovesThePump, Promise!Spec
=============================================================================
