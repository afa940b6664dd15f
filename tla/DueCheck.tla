------------------------------ MODULE DueCheck ------------------------------
(***************************************************************************)
(* The two global DateTime objects of the sketch: Now, rewritten on every  *)
(* pass of loop() from the network clock, and timer, rewritten by the      *)
(* requests that fetch a timer.  StateUpdate asks CompareTime whether the  *)
(* timer is due; the properties below say what its answer means.           *)
(***************************************************************************)
EXTENDS DateTime

CONSTANT Moments   \* the readings and timer values considered

ASSUME MomentsAssumption == Moments \subseteq DateTimes

VARIABLES Now, timer

vars == <<Now, timer>>

Init == Now \in Moments /\ timer \in Moments

\* Now.UpdateTime: the clock moves on; it may have skipped any number of
\* minutes, because a blocked request delays the pass.
ClockMoves ==
  \E m \in Moments :
    /\ SameMinuteOrLater(m, Now)
    /\ Now' = UpdateTime(m.year, m.month, m.day, m.hours, m.minutes, m.seconds)
    /\ UNCHANGED timer

\* timer.UpdateTime: the server sends another timer, earlier or later.
TimerFetched ==
  \E m \in Moments :
    /\ timer' = UpdateTime(m.year, m.month, m.day, m.hours, m.minutes, m.seconds)
    /\ UNCHANGED Now

Next == ClockMoves \/ TimerFetched

Spec == Init /\ [][Next]_vars

-----------------------------------------------------------------------------

TypeOK == Now \in DateTimes /\ timer \in DateTimes

\* CompareTime tests the components one by one instead of comparing dates;
\* it may deny a timer that has come, but it never grants one that has not.
DueIsNeverEarly == CompareTime(Now, timer) => SameMinuteOrLater(Now, timer)

\* On the day of the timer the componentwise test is exact, for both answers.
ExactOnTheDay ==
  IsToday(Now, timer) =>
    (CompareTime(Now, timer) <=> SameMinuteOrLater(Now, timer))

\* Once due, a timer stays due for the rest of that day, however far the
\* clock jumps within it: the countdown of a running timer is not suspended
\* before midnight.
DueUntilMidnight ==
  [][ CompareTime(Now, timer) /\ timer' = timer /\ IsToday(Now', Now)
        => CompareTime(Now', timer) ]_vars

=============================================================================
