--------------------------- MODULE DueCheckProofs ---------------------------
(***************************************************************************)
(* The properties of module DueCheck, proved for every set of moments.     *)
(***************************************************************************)
EXTENDS DueCheck, TLAPS

-----------------------------------------------------------------------------
(* The comparisons of DateTime.h, for every six integers.                  *)

\* A timer that CompareTime calls due has come, in calendar order.
LEMMA DueHasCome ==
  ASSUME NEW now \in DateTimes, NEW due \in DateTimes, CompareTime(now, due)
  PROVE  SameMinuteOrLater(now, due)
BY DEF DateTimes, CompareTime, SameMinuteOrLater, LaterDate, IsToday

\* On the day of the timer CompareTime is calendar order.
LEMMA ExactToday ==
  ASSUME NEW now \in DateTimes, NEW due \in DateTimes, IsToday(now, due)
  PROVE  CompareTime(now, due) <=> SameMinuteOrLater(now, due)
BY DEF DateTimes, CompareTime, SameMinuteOrLater, LaterDate, IsToday

\* Within a day, CompareTime keeps its TRUE as the clock moves on.
LEMMA DueStaysToday ==
  ASSUME NEW old \in DateTimes, NEW new \in DateTimes, NEW due \in DateTimes,
         IsToday(new, old), SameMinuteOrLater(new, old), CompareTime(old, due)
  PROVE  CompareTime(new, due)
BY DEF DateTimes, CompareTime, SameMinuteOrLater, LaterDate, IsToday

-----------------------------------------------------------------------------
\* The clock and the timer always hold six integers.
THEOREM TypeCorrect == Spec => []TypeOK
<1>1. Init => TypeOK
  BY MomentsAssumption DEF Init, TypeOK
<1>2. TypeOK /\ [Next]_vars => TypeOK'
  <2> SUFFICES ASSUME TypeOK, [Next]_vars PROVE TypeOK'
    OBVIOUS
  <2>0. \A m \in Moments :
          UpdateTime(m.year, m.month, m.day, m.hours, m.minutes, m.seconds)
            \in DateTimes
    BY MomentsAssumption DEF DateTimes, UpdateTime
  <2>1. CASE ClockMoves
    BY <2>0, <2>1 DEF TypeOK, ClockMoves
  <2>2. CASE TimerFetched
    BY <2>0, <2>2 DEF TypeOK, TimerFetched
  <2>3. CASE UNCHANGED vars
    BY <2>3 DEF TypeOK, vars
  <2> QED
    BY <2>1, <2>2, <2>3 DEF Next
<1> QED
  BY <1>1, <1>2, PTL DEF Spec

\* CompareTime never grants a timer that has not come, whatever the server
\* sends and however the clock moves.
THEOREM NeverEarly == Spec => []DueIsNeverEarly
<1>1. TypeOK => DueIsNeverEarly
  BY DueHasCome DEF TypeOK, DueIsNeverEarly
<1> QED
  BY <1>1, TypeCorrect, PTL

\* On the day of the timer, both answers of CompareTime are right.
THEOREM ExactOnItsDay == Spec => []ExactOnTheDay
<1>1. TypeOK => ExactOnTheDay
  BY ExactToday DEF TypeOK, ExactOnTheDay
<1> QED
  BY <1>1, TypeCorrect, PTL

\* A due timer stays due until midnight.
THEOREM StaysDueUntilMidnight == Spec => DueUntilMidnight
<1> DEFINE Kept ==
      CompareTime(Now, timer) /\ timer' = timer /\ IsToday(Now', Now)
        => CompareTime(Now', timer)
<1>1. TypeOK /\ TypeOK' /\ [Next]_vars => [Kept]_vars
  <2> SUFFICES ASSUME TypeOK, TypeOK', Next,
                      CompareTime(Now, timer), IsToday(Now', Now)
               PROVE  CompareTime(Now', timer)
    OBVIOUS
  <2>1. CASE ClockMoves
    <3>1. SameMinuteOrLater(Now', Now)
      BY <2>1, MomentsAssumption
      DEF ClockMoves, UpdateTime, DateTimes, SameMinuteOrLater, LaterDate, IsToday
    <3> QED
      BY <3>1, DueStaysToday DEF TypeOK
  <2>2. CASE TimerFetched
    BY <2>2 DEF TimerFetched
  <2> QED
    BY <2>1, <2>2 DEF Next
<1>2. Spec => [][Kept]_vars
  BY <1>1, TypeCorrect, PTL DEF Spec
<1> QED
  BY <1>2 DEF DueUntilMidnight
=============================================================================
