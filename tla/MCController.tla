---------------------------- MODULE MCController ----------------------------
EXTENDS Controller

\* A compressed calendar: two seconds to the minute and two minutes to the
\* hour.  The run starts two minutes before the end of 2022 and ends in the
\* first minute of the new year.
MCClock ==
  [w \in 0..MaxWall |->
     IF w < 4 THEN UpdateTime(2022, 12, 31, 23, w \div 2, w % 2)
     ELSE UpdateTime(2023, 1, 1, 0, (w - 4) \div 2, w % 2)]

Tonight == UpdateTime(2022, 12, 31, 23, 1, 0)
Morning == UpdateTime(2023, 1, 1, 7, 0, 0)
Nothing == UpdateTime(0, 0, 0, 0, 0, 0)

Timer(at, length, active) == [at |-> at, length |-> length, isActive |-> active]

\* A timer for tonight, one for tomorrow, and what an error page reads as.
MCTimers  == {Timer(Tonight, 1, TRUE), Timer(Morning, 1, TRUE),
              Timer(Nothing, 0, FALSE)}
OneTimer  == {Timer(Tonight, 1, TRUE)}
DueAtOnce == {Timer(MCClock[0], 1, TRUE)}

MCRemaining == {[time |-> 1, isActive |-> TRUE], [time |-> 0, isActive |-> FALSE]}
Resume      == {[time |-> 1, isActive |-> TRUE]}

Status(p, l, run, rate) ==
  [isPumpActive |-> p, isLightActive |-> l, maxRunTime |-> run,
   refreshRate |-> rate]

\* The server asks for the pump for a minute; or it sent an error page.
MCStatus == {Status(TRUE, TRUE, 1, 1), Status(FALSE, FALSE, 0, 0)}
OneStatus == {Status(TRUE, FALSE, 1, 1)}
PollAtOnce == {Status(TRUE, TRUE, 1, 0)}

PumpRoutes   == {"/pumpOn", "/pumpOff", "/dateTime", "/toggleTimer"}
ReportRoutes == AllRoutes \ {"/dateTime", "/pumpOn"}
=============================================================================
