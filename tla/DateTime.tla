------------------------------ MODULE DateTime ------------------------------
(***************************************************************************)
(* The calendar values of DateTime.h and their comparisons.                *)
(*                                                                         *)
(* A DateTime is six independent ints; the class never checks or carries   *)
(* them, so a field the server leaves out is simply 0.  The comparisons    *)
(* are translated literally.  SameMinuteOrLater is the order they are      *)
(* measured against: plain chronological order, seconds ignored (the code  *)
(* never compares seconds).                                                *)
(***************************************************************************)
EXTENDS Integers

DateTimes == [year : Int, month : Int, day : Int,
              hours : Int, minutes : Int, seconds : Int]

\* The constructor and UpdateTime: both copy their six arguments unchecked.
UpdateTime(Year, Month, Day, Hours, Minutes, Seconds) ==
  [year |-> Year, month |-> Month, day |-> Day,
   hours |-> Hours, minutes |-> Minutes, seconds |-> Seconds]

IsToday(now, timer) ==
  /\ now.day = timer.day
  /\ now.month = timer.month
  /\ now.year = timer.year

CompareDayTime(now, timer) ==
  /\ now.hours = timer.hours
  /\ now.minutes >= timer.minutes

\* A plausible slip in the next definition: the hour no longer checked.
CompareTime_NoHour(now, timer) ==
  /\ now.year >= timer.year
  /\ now.month >= timer.month
  /\ now.day >= timer.day
  /\ now.hours > timer.hours \/ now.minutes >= timer.minutes

\* A plausible slip: the minutes checked even when the hour is already past.
CompareTime_MinuteAlways(now, timer) ==
  /\ now.year >= timer.year
  /\ now.month >= timer.month
  /\ now.day >= timer.day
  /\ now.hours >= timer.hours
  /\ now.minutes >= timer.minutes

CompareTime(now, timer) ==
  /\ now.year >= timer.year
  /\ now.month >= timer.month
  /\ now.day >= timer.day
  /\ now.hours >= timer.hours
  /\ now.hours > timer.hours \/ now.minutes >= timer.minutes

-----------------------------------------------------------------------------
(* The reference: chronological order.                                     *)

LaterDate(a, b) ==
  \/ a.year > b.year
  \/ a.year = b.year /\ a.month > b.month
  \/ a.year = b.year /\ a.month = b.month /\ a.day > b.day

SameMinuteOrLater(a, b) ==
  \/ LaterDate(a, b)
  \/ /\ IsToday(a, b)
     /\ \/ a.hours > b.hours
        \/ a.hours = b.hours /\ a.minutes >= b.minutes

=============================================================================
