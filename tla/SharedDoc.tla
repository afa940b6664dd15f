------------------------------ MODULE SharedDoc ------------------------------
(***************************************************************************)
(* The two tasks statement by statement, where Controller lets a whole     *)
(* answer be handled in one step.  A handler of the loop task (getting a   *)
(* timer or the remaining time) and GetStatusFromServer of the TempReader  *)
(* task parse their answers into one global document, doc, and write one   *)
(* global workTimeDelta; the scheduler may switch anywhere.                *)
(*                                                                         *)
(* An answer, and the document, is a function from the names of members to *)
(* their values; a member that is missing reads as 0 or FALSE.             *)
(*                                                                         *)
(* deserializeJson clears doc, which only resets pointers, and then uses   *)
(* the same slots again, one for each member, first the slot, then its     *)
(* key, then its value.  Reading doc["x"] follows the list of slots to one *)
(* with that key and takes the value from there.  No lock keeps the two    *)
(* apart.  What a read yields that runs while the other task is inside     *)
(* deserializeJson is left open, and so is what is in a document into      *)
(* which both tasks have parsed at once.                                   *)
(*                                                                         *)
(* Of workTimeDelta the model keeps the unit: "none" when it is not        *)
(* positive, "minutes" as sent, "seconds" once it was multiplied by 60,    *)
(* "over" once it was multiplied again.                                    *)
(***************************************************************************)
EXTENDS Integers, Sequences

CONSTANTS
  Values,            \* the values of members
  TimerAnswers,      \* what getCurrentTimer and minutesDebug answer
  RemainingAnswers,  \* what getRemainingTime answers
  StatusAnswers      \* what Status answers

\* What the handlers read, in the order in which they read it.
CurrentReads   == <<"year", "month", "day", "hour", "minutes", "seconds",
                    "lenght", "isActive">>
RemainingReads == <<"time", "isActive">>
StatusReads    == <<"isPumpActive", "isLightActive", "isTimerActive",
                    "maxRunTime", "refreshRate">>

Units  == {"none", "minutes", "seconds", "over"}
Times60 == [none |-> "none", minutes |-> "seconds", seconds |-> "over",
            over |-> "over"]

\* The member of a document, as the handlers convert it.
Value(d, name) == IF name \in DOMAIN d THEN d[name] ELSE 0

NoMembers == [name \in {} |-> 0]

\* No member that is read last by one task is sent to the other.
ASSUME SharedDocAssumption ==
  /\ Values \subseteq Int /\ 0 \in Values
  /\ \A d \in TimerAnswers \cup RemainingAnswers :
       d \in [DOMAIN d -> Values] /\ "refreshRate" \notin DOMAIN d
  /\ \A d \in StatusAnswers :
       d \in [DOMAIN d -> Values] /\ "isActive" \notin DOMAIN d

VARIABLES
  doc,              \* the members of the global document
  damaged,          \* both tasks have parsed into it at once
  workTimeDelta, hasTimerBeenSet, State, refreshRate,
  loopPc, taskPc,   \* the next statement of each task
  kind,             \* which handler the loop task is in
  sent, taskSent,   \* the answers being handled (payload in the code)
  k, j,             \* the next member to read
  torn, taskTorn,   \* the other task was inside deserializeJson during the
                    \* last read, or doc was damaged
  reg, taskReg,     \* workTimeDelta as last loaded by each task
  misread, taskMisread  \* history: a member before the last was read that
                        \* differs from the one in the answer being handled

docVars  == <<doc, damaged, torn, taskTorn>>
loopVars == <<hasTimerBeenSet, State, loopPc, kind, sent, k, reg, misread>>
taskVars == <<refreshRate, taskPc, taskSent, j, taskReg, taskMisread>>
vars     == <<docVars, workTimeDelta, loopVars, taskVars>>

Init ==
  /\ doc = NoMembers /\ damaged = FALSE /\ workTimeDelta = "none"
  /\ hasTimerBeenSet = FALSE /\ State = 0 /\ refreshRate = 5
  /\ loopPc = "idle" /\ kind = "current" /\ sent = NoMembers
  /\ taskPc = "sleep" /\ taskSent = NoMembers
  /\ k = 0 /\ j = 0 /\ reg = "none" /\ taskReg = "none"
  /\ torn = FALSE /\ taskTorn = FALSE
  /\ misread = FALSE /\ taskMisread = FALSE

\* Slip: the old members stay.
ClearDoc_KeepsOld(other) ==
  /\ damaged' = (other = "parsing")
  /\ UNCHANGED doc

\* deserializeJson begins: the document is cleared, whatever the other task, of
\* which other is the pc, does with it.
ClearDoc(other) ==
  /\ doc' = NoMembers
  /\ damaged' = (other = "parsing")

\* The members of the answer, and of the document those it does not have.
Added(answer, d) ==
  [name \in DOMAIN answer \cup DOMAIN d |->
     IF name \in DOMAIN answer THEN answer[name] ELSE d[name]]

\* deserializeJson ends: the members of the answer have been added.
FillDoc(answer) ==
  /\ doc' = IF damaged THEN NoMembers ELSE Added(answer, doc)
  /\ UNCHANGED <<damaged, torn, taskTorn>>

\* What doc[name] may yield.
Readings(name, isTorn) == IF isTorn THEN Values ELSE {Value(doc, name)}

-----------------------------------------------------------------------------
(* The loop task.                                                          *)

\* An answer has arrived (code > 0).
FetchAnswered ==
  /\ loopPc = "idle"
  /\ loopPc' = "parse"
  /\ kind' \in {"current", "next", "remaining"}
  /\ kind' = "next" => State = 1
  /\ sent' \in IF kind' = "remaining" THEN RemainingAnswers ELSE TimerAnswers
  /\ UNCHANGED <<docVars, workTimeDelta, hasTimerBeenSet, State, k, reg, misread,
                 taskVars>>

LoopClears ==
  /\ loopPc = "parse"
  /\ loopPc' = "parsing"
  /\ ClearDoc(taskPc)
  /\ taskTorn' = (taskTorn \/ taskPc = "load")
  /\ UNCHANGED <<torn, workTimeDelta, hasTimerBeenSet, State, kind, sent, k, reg,
                 misread, taskVars>>

LoopParsed ==
  /\ loopPc = "parsing"
  /\ loopPc' = "read" /\ k' = 1
  /\ FillDoc(sent)
  /\ UNCHANGED <<workTimeDelta, hasTimerBeenSet, State, kind, sent, reg, misread,
                 taskVars>>

\* Slip: whether the timer is active is read first.
LoopReads_ActiveFirst ==
  IF kind = "remaining" THEN <<"isActive", "time">>
  ELSE <<"isActive", "year", "month", "day", "hour", "minutes", "seconds",
         "lenght">>

LoopReads == IF kind = "remaining" THEN RemainingReads ELSE CurrentReads

\* x = doc[name], for the next name: the member is looked up ...
LoopLookup ==
  /\ loopPc = "read" /\ k <= Len(LoopReads)
  /\ loopPc' = "load"
  /\ torn' = (damaged \/ taskPc = "parsing")
  /\ UNCHANGED <<doc, damaged, taskTorn, workTimeDelta, hasTimerBeenSet, State,
                 kind, sent, k, reg, misread, taskVars>>

\* ... and its value taken.
LoopReadNext(name, value) ==
  /\ loopPc = "load" /\ LoopReads[k] = name
  /\ value \in Readings(name, torn)
  /\ loopPc' = "read" /\ k' = k + 1
  /\ misread' = (misread \/ (name # "isActive" /\ value # Value(sent, name)))
  /\ UNCHANGED <<docVars, State, kind, sent, reg, taskVars>>

ReadDate ==
  /\ \E name \in {"year", "month", "day", "hour", "minutes", "seconds"},
        value \in Values : LoopReadNext(name, value)
  /\ UNCHANGED <<workTimeDelta, hasTimerBeenSet>>

ReadLength ==
  /\ \E value \in Values :
       /\ LoopReadNext("lenght", value)
       /\ workTimeDelta' = IF value > 0 THEN "minutes" ELSE "none"
  /\ UNCHANGED hasTimerBeenSet

ReadTime ==
  /\ \E value \in Values :
       /\ LoopReadNext("time", value)
       /\ workTimeDelta' = IF value > 0 THEN "seconds" ELSE "none"
  /\ UNCHANGED hasTimerBeenSet

ReadActive ==
  /\ \E value \in Values :
       /\ LoopReadNext("isActive", value)
       /\ hasTimerBeenSet' = (value # 0)
  /\ UNCHANGED workTimeDelta

\* workTimeDelta *= 60, for a timer: a load and a store.
LoopLoad ==
  /\ loopPc = "read" /\ k = Len(LoopReads) + 1
  /\ kind # "remaining"
  /\ reg' = workTimeDelta
  /\ loopPc' = "store"
  /\ UNCHANGED <<docVars, workTimeDelta, hasTimerBeenSet, State, kind, sent, k,
                 misread, taskVars>>

RemainingRead ==
  /\ loopPc = "read" /\ k = Len(LoopReads) + 1
  /\ kind = "remaining"
  /\ loopPc' = "arm"
  /\ UNCHANGED <<docVars, workTimeDelta, hasTimerBeenSet, State, kind, sent, k, reg,
                 misread, taskVars>>

LoopStore ==
  /\ loopPc = "store"
  /\ workTimeDelta' = Times60[reg]
  /\ loopPc' = "arm"
  /\ UNCHANGED <<docVars, hasTimerBeenSet, State, kind, sent, k, reg, misread,
                 taskVars>>

\* The locals of a handler end with it.
LoopForgets ==
  /\ loopPc' = "idle"
  /\ kind' = "current" /\ sent' = NoMembers
  /\ k' = 0 /\ reg' = "none" /\ misread' = FALSE /\ torn' = FALSE

\* timer.UpdateTime and, except in GetNextTimer, State = hasTimerBeenSet.
Arm ==
  /\ loopPc = "arm"
  /\ State' = IF kind = "next" THEN State ELSE IF hasTimerBeenSet THEN 1 ELSE 0
  /\ LoopForgets
  /\ UNCHANGED <<doc, damaged, taskTorn, workTimeDelta, hasTimerBeenSet, taskVars>>

\* workTimeDelta-- in UpdateDateTime: a load and a store.  The unit stays, or
\* the last of it is counted.
TickLoad ==
  /\ loopPc = "idle" /\ State = 1
  /\ reg' = workTimeDelta
  /\ loopPc' = "tick"
  /\ UNCHANGED <<docVars, workTimeDelta, hasTimerBeenSet, State, kind, sent, k,
                 misread, taskVars>>

TickStore ==
  /\ loopPc = "tick"
  /\ workTimeDelta' \in {reg, "none"}
  /\ LoopForgets
  /\ UNCHANGED <<doc, damaged, taskTorn, hasTimerBeenSet, State, taskVars>>

-----------------------------------------------------------------------------
(* The TempReader task.                                                    *)

PollAnswered ==
  /\ taskPc = "sleep"
  /\ taskPc' = "parse"
  /\ taskSent' \in StatusAnswers
  /\ UNCHANGED <<docVars, workTimeDelta, loopVars, refreshRate, j, taskReg,
                 taskMisread>>

PollFailed ==
  /\ taskPc = "sleep"
  /\ refreshRate' = 3000
  /\ UNCHANGED <<docVars, workTimeDelta, loopVars, taskPc, taskSent, j, taskReg,
                 taskMisread>>

TaskClears ==
  /\ taskPc = "parse"
  /\ taskPc' = "parsing"
  /\ ClearDoc(loopPc)
  /\ torn' = (torn \/ loopPc = "load")
  /\ UNCHANGED <<taskTorn, workTimeDelta, loopVars, refreshRate, taskSent, j,
                 taskReg, taskMisread>>

TaskParsed ==
  /\ taskPc = "parsing"
  /\ taskPc' = "read" /\ j' = 1
  /\ FillDoc(taskSent)
  /\ UNCHANGED <<workTimeDelta, loopVars, refreshRate, taskSent, taskReg,
                 taskMisread>>

\* Slip: the rate is read before the run time.
TaskReads_RateFirst == <<"isPumpActive", "isLightActive", "isTimerActive",
                         "refreshRate", "maxRunTime">>

TaskReads == StatusReads

TaskLookup ==
  /\ taskPc = "read" /\ j <= Len(TaskReads)
  /\ taskPc' = "load"
  /\ taskTorn' = (damaged \/ loopPc = "parsing")
  /\ UNCHANGED <<doc, damaged, torn, workTimeDelta, loopVars, refreshRate, taskSent,
                 j, taskReg, taskMisread>>

TaskReadNext(name, value) ==
  /\ taskPc = "load" /\ TaskReads[j] = name
  /\ value \in Readings(name, taskTorn)
  /\ taskPc' = "read" /\ j' = j + 1
  /\ taskMisread' = (taskMisread
                      \/ (name # "refreshRate" /\ value # Value(taskSent, name)))
  /\ UNCHANGED <<docVars, loopVars, taskSent, taskReg>>

ReadFlags ==
  /\ \E name \in {"isPumpActive", "isLightActive", "isTimerActive"},
        value \in Values : TaskReadNext(name, value)
  /\ UNCHANGED <<workTimeDelta, refreshRate>>

ReadMaxRunTime ==
  /\ \E value \in Values :
       /\ TaskReadNext("maxRunTime", value)
       /\ workTimeDelta' = IF value > 0 THEN "minutes" ELSE "none"
  /\ UNCHANGED refreshRate

ReadRefreshRate ==
  /\ \E value \in Values :
       /\ TaskReadNext("refreshRate", value)
       /\ refreshRate' = value
  /\ UNCHANGED workTimeDelta

TaskLoad ==
  /\ taskPc = "read" /\ j = Len(TaskReads) + 1
  /\ taskReg' = workTimeDelta
  /\ taskPc' = "store"
  /\ UNCHANGED <<docVars, workTimeDelta, loopVars, refreshRate, taskSent, j,
                 taskMisread>>

TaskStore ==
  /\ taskPc = "store"
  /\ workTimeDelta' = Times60[taskReg]
  /\ taskPc' = "sleep"
  /\ taskSent' = NoMembers /\ j' = 0 /\ taskReg' = "none"
  /\ taskMisread' = FALSE /\ taskTorn' = FALSE
  /\ UNCHANGED <<doc, damaged, torn, loopVars, refreshRate>>

-----------------------------------------------------------------------------

LoopStep ==
  \/ FetchAnswered \/ LoopClears \/ LoopParsed \/ LoopLookup
  \/ ReadDate \/ ReadLength \/ ReadTime \/ ReadActive
  \/ LoopLoad \/ RemainingRead \/ LoopStore \/ Arm
  \/ TickLoad \/ TickStore

TaskStep ==
  \/ PollAnswered \/ PollFailed \/ TaskClears \/ TaskParsed \/ TaskLookup
  \/ ReadFlags \/ ReadMaxRunTime \/ ReadRefreshRate
  \/ TaskLoad \/ TaskStore

Next == LoopStep \/ TaskStep

Spec == Init /\ [][Next]_vars

-----------------------------------------------------------------------------
(* Properties.  Nothing can be said of a last read that ran while the other *)
(* task was inside deserializeJson (torn, taskTorn): a poll between looking *)
(* up isActive and taking its value lets isLightActive arm the timer.       *)

HandlerRead == loopPc \in {"store", "arm"} /\ ~torn
PollRead    == taskPc = "store" /\ ~taskTorn

\* If a poll replaces the document under a handler's feet, or parses into it
\* together with the handler, the handler does not arm what it has pieced
\* together: when it read isActive, which comes last, undisturbed and true, it
\* had read every other member as it was sent to it.  (GetCurrentTimer,
\* GetNextTimer, GetRemainingTime.)
ArmedTimerIsWhole == HandlerRead /\ hasTimerBeenSet => ~misread

\* A timer that was sent as inactive, or an error page, is taken for an active
\* one only if a poll was inside deserializeJson just while isActive was read,
\* or had been together with the handler: no document left behind by another
\* handler or by a poll does it.  (GetCurrentTimer, GetNextTimer,
\* GetRemainingTime.)
OnlyAnActiveAnswerArms ==
  HandlerRead /\ hasTimerBeenSet => Value(sent, "isActive") # 0

\* If a handler replaces the document under the poll's feet, or parses into it
\* together with the poll, the poll is repeated in the next pass of the task:
\* when it read refreshRate, which comes last, undisturbed and positive, it had
\* read everything as it was sent.  (GetStatusFromServer.)
DisturbedPollIsRepeated == PollRead /\ refreshRate > 0 => ~taskMisread

\* Claim: between handlers a run time is in seconds, the minutes of the server
\* turned into seconds once.  (Both tasks assign the shared workTimeDelta and
\* multiply it in place, and the countdown stores what it loaded earlier.)
RunTimeIsInSeconds ==
  loopPc = "idle" /\ taskPc = "sleep" => workTimeDelta \in {"none", "seconds"}
=============================================================================
