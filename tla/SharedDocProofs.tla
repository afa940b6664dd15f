--------------------------- MODULE SharedDocProofs ---------------------------
(***************************************************************************)
(* What the order of the reads protects, for every set of answers, with a  *)
(* switch of tasks anywhere: isActive and refreshRate are read last, and   *)
(* neither is ever a member of the other task's document.                  *)
(***************************************************************************)
EXTENDS SharedDoc, TLAPS

LoopPcs == {"idle", "parse", "parsing", "read", "load", "store", "arm", "tick"}
TaskPcs == {"sleep", "parse", "parsing", "read", "load", "store"}
LoopAnswers == TimerAnswers \cup RemainingAnswers \cup {NoMembers}
PollAnswers == StatusAnswers \cup {NoMembers}

\* Each task handles an answer of its own and is at one of its reads.
LoopType ==
  /\ loopPc \in LoopPcs
  /\ kind \in {"current", "next", "remaining"}
  /\ sent \in LoopAnswers
  /\ torn \in BOOLEAN /\ misread \in BOOLEAN /\ hasTimerBeenSet \in BOOLEAN
  /\ loopPc = "read" => k \in 1..(Len(LoopReads) + 1)
  /\ loopPc = "load" => k \in 1..Len(LoopReads)

TaskType ==
  /\ taskPc \in TaskPcs
  /\ taskSent \in PollAnswers
  /\ taskTorn \in BOOLEAN /\ taskMisread \in BOOLEAN
  /\ taskPc = "read" => j \in 1..(Len(TaskReads) + 1)
  /\ taskPc = "load" => j \in 1..Len(TaskReads)

\* A document that is being parsed, or into which both have parsed, has no
\* member that can be relied on.
DocInv ==
  /\ damaged \in BOOLEAN
  /\ loopPc = "parsing" \/ taskPc = "parsing" \/ damaged => doc = NoMembers
  /\ loopPc = "parsing" /\ taskPc = "parsing" => damaged

TypeInv == LoopType /\ TaskType /\ DocInv

-----------------------------------------------------------------------------
(* The reads and the answers.                                              *)

\* How many members each handler reads.
LEMMA ReadsLen ==
  /\ Len(CurrentReads) = 8 /\ Len(RemainingReads) = 2 /\ Len(StatusReads) = 5
  /\ Len(LoopReads) = IF kind = "remaining" THEN 2 ELSE 8
  /\ Len(TaskReads) = 5
BY DEF CurrentReads, RemainingReads, StatusReads, LoopReads, TaskReads

\* isActive is the last member that a handler of the loop task reads, and
\* refreshRate the last that the poll reads.
LEMMA LastReads ==
  /\ \A n \in 1..Len(LoopReads) :
       LoopReads[n] = "isActive" <=> n = Len(LoopReads)
  /\ \A n \in 1..Len(TaskReads) :
       TaskReads[n] = "refreshRate" <=> n = Len(TaskReads)
<1>1. \A n \in 1..8 : CurrentReads[n] = "isActive" <=> n = 8
  BY DEF CurrentReads
<1>2. \A n \in 1..2 : RemainingReads[n] = "isActive" <=> n = 2
  BY DEF RemainingReads
<1>3. \A n \in 1..5 : TaskReads[n] = "refreshRate" <=> n = 5
  BY DEF StatusReads, TaskReads
<1> QED
  BY <1>1, <1>2, <1>3, ReadsLen DEF LoopReads

\* No poll brings isActive, and no handler of the loop task refreshRate.
LEMMA Disjoint ==
  /\ \A d \in PollAnswers : "isActive" \notin DOMAIN d
  /\ \A d \in LoopAnswers : "refreshRate" \notin DOMAIN d
  /\ "isActive" \notin DOMAIN NoMembers /\ "refreshRate" \notin DOMAIN NoMembers
<1>1. DOMAIN NoMembers = {}
  BY DEF NoMembers
<1> QED
  BY <1>1, SharedDocAssumption DEF PollAnswers, LoopAnswers

\* Parsing an answer into a cleared document makes it the answer.
LEMMA Filled ==
  ASSUME NEW d \in LoopAnswers \cup PollAnswers
  PROVE  Added(d, NoMembers) = d
<1>1. DOMAIN NoMembers = {}
  BY DEF NoMembers
<1>2. d = [name \in DOMAIN d |-> d[name]]
  <2>1. CASE d = NoMembers
    BY <2>1 DEF NoMembers
  <2>2. CASE d # NoMembers
    BY <2>2, SharedDocAssumption DEF LoopAnswers, PollAnswers
  <2> QED
    BY <2>1, <2>2
<1>3. Added(d, NoMembers) = [name \in DOMAIN d |-> d[name]]
  BY <1>1 DEF Added
<1> QED
  BY <1>2, <1>3

\* A step of one task leaves the other's variables alone, but for torn.
LEMMA LoopOnly ==
  ASSUME LoopStep \/ UNCHANGED vars PROVE UNCHANGED taskVars
BY DEF LoopStep, FetchAnswered, LoopClears, LoopParsed, LoopLookup, ReadDate,
   ReadLength, ReadTime, ReadActive, LoopReadNext, LoopLoad, RemainingRead,
   LoopStore, Arm, TickLoad, TickStore, vars

LEMMA TaskOnly ==
  ASSUME TaskStep \/ UNCHANGED vars PROVE UNCHANGED loopVars
BY DEF TaskStep, PollAnswered, PollFailed, TaskClears, TaskParsed, TaskLookup,
   ReadFlags, ReadMaxRunTime, ReadRefreshRate, TaskReadNext, TaskLoad, TaskStore,
   vars

\* Only deserializeJson writes the document.
LEMMA DocStays ==
  ASSUME [Next]_vars, ~LoopClears, ~LoopParsed, ~TaskClears, ~TaskParsed
  PROVE  UNCHANGED <<doc, damaged>>
BY DEF Next, LoopStep, FetchAnswered, LoopLookup, ReadDate, ReadLength, ReadTime,
   ReadActive, LoopReadNext, LoopLoad, RemainingRead, LoopStore, Arm, TickLoad,
   TickStore, TaskStep, PollAnswered, PollFailed, TaskLookup, ReadFlags,
   ReadMaxRunTime, ReadRefreshRate, TaskReadNext, TaskLoad, TaskStore, vars, docVars

-----------------------------------------------------------------------------
(* Types.                                                                  *)

\* Every step keeps LoopType.
LEMMA LoopTypeStep ==
  ASSUME LoopType, [Next]_vars PROVE LoopType'
<1> USE ReadsLen DEF LoopType, LoopPcs, docVars
<1>1. CASE FetchAnswered
  BY <1>1 DEF FetchAnswered, LoopAnswers
<1>2. CASE LoopClears
  BY <1>2 DEF LoopClears
<1>3. CASE LoopParsed
  BY <1>3 DEF LoopParsed, FillDoc, LoopReads
<1>4. CASE LoopLookup
  <2>1. torn' \in BOOLEAN
    BY <1>4 DEF LoopLookup
  <2> QED
    BY <1>4, <2>1 DEF LoopLookup, LoopReads
<1>5. ASSUME NEW name, NEW value, LoopReadNext(name, value),
             hasTimerBeenSet' \in BOOLEAN
      PROVE LoopType'
  <2>1. misread' \in BOOLEAN
    BY <1>5 DEF LoopReadNext
  <2>2. k' \in 1..(Len(LoopReads) + 1) /\ LoopReads' = LoopReads
    BY <1>5 DEF LoopReadNext, LoopReads
  <2> QED
    BY <1>5, <2>1, <2>2 DEF LoopReadNext
<1>6. CASE ReadDate \/ ReadLength \/ ReadTime
  BY <1>5, <1>6 DEF ReadDate, ReadLength, ReadTime
<1>7. CASE ReadActive
  <2>1. hasTimerBeenSet' \in BOOLEAN
    BY <1>7 DEF ReadActive
  <2> QED
    BY <1>5, <1>7, <2>1 DEF ReadActive
<1>8. CASE LoopLoad \/ RemainingRead \/ LoopStore \/ TickLoad
  BY <1>8 DEF LoopLoad, RemainingRead, LoopStore, TickLoad
<1>9. CASE Arm \/ TickStore
  BY <1>9 DEF Arm, TickStore, LoopForgets, LoopAnswers
<1>10. CASE TaskStep \/ UNCHANGED vars
  <2>1. UNCHANGED loopVars
    BY <1>10, TaskOnly
  <2>2. TaskClears => torn' \in BOOLEAN
    BY DEF TaskClears
  <2>3. ~TaskClears => torn' = torn
    BY <1>10 DEF TaskStep, PollAnswered, PollFailed, TaskParsed, TaskLookup,
       FillDoc, ReadFlags, ReadMaxRunTime, ReadRefreshRate, TaskReadNext,
       TaskLoad, TaskStore, vars
  <2> QED
    BY <2>1, <2>2, <2>3 DEF loopVars, LoopReads
<1> QED
  BY <1>1, <1>2, <1>3, <1>4, <1>6, <1>7, <1>8, <1>9, <1>10 DEF Next, LoopStep

\* Every step keeps TaskType.
LEMMA TaskTypeStep ==
  ASSUME TaskType, [Next]_vars PROVE TaskType'
<1> USE ReadsLen DEF TaskType, TaskPcs, docVars
<1>1. CASE PollAnswered
  BY <1>1 DEF PollAnswered, PollAnswers
<1>2. CASE TaskClears
  BY <1>2 DEF TaskClears
<1>3. CASE TaskParsed
  BY <1>3 DEF TaskParsed, FillDoc, TaskReads
<1>4. CASE TaskLookup
  <2>1. taskTorn' \in BOOLEAN
    BY <1>4 DEF TaskLookup
  <2> QED
    BY <1>4, <2>1 DEF TaskLookup, TaskReads
<1>5. ASSUME NEW name, NEW value, TaskReadNext(name, value) PROVE TaskType'
  <2>1. taskMisread' \in BOOLEAN
    BY <1>5 DEF TaskReadNext
  <2> QED
    BY <1>5, <2>1 DEF TaskReadNext, TaskReads
<1>6. CASE ReadFlags \/ ReadMaxRunTime \/ ReadRefreshRate
  BY <1>5, <1>6 DEF ReadFlags, ReadMaxRunTime, ReadRefreshRate
<1>7. CASE TaskLoad \/ PollFailed
  BY <1>7 DEF TaskLoad, PollFailed
<1>8. CASE TaskStore
  BY <1>8 DEF TaskStore, PollAnswers
<1>9. CASE LoopStep \/ UNCHANGED vars
  <2>1. UNCHANGED taskVars
    BY <1>9, LoopOnly
  <2>2. taskTorn' \in BOOLEAN
    BY <1>9 DEF LoopStep, FetchAnswered, LoopClears, LoopParsed, LoopLookup,
       FillDoc, ReadDate, ReadLength, ReadTime, ReadActive, LoopReadNext,
       LoopLoad, RemainingRead, LoopStore, Arm, TickLoad, TickStore, vars
  <2> QED
    BY <2>1, <2>2 DEF taskVars, TaskReads
<1> QED
  BY <1>1, <1>2, <1>3, <1>4, <1>6, <1>7, <1>8, <1>9 DEF Next, TaskStep

\* Every step keeps DocInv.
LEMMA DocStep ==
  ASSUME LoopType, TaskType, DocInv, [Next]_vars PROVE DocInv'
<1> USE DEF DocInv
<1>1. CASE LoopClears
  <2>1. damaged' \in BOOLEAN /\ damaged' = (taskPc = "parsing")
    BY <1>1 DEF LoopClears, ClearDoc
  <2>2. doc' = NoMembers /\ taskPc' = taskPc
    BY <1>1 DEF LoopClears, ClearDoc, taskVars
  <2> QED
    BY <2>1, <2>2
<1>2. CASE TaskClears
  <2>1. damaged' \in BOOLEAN /\ damaged' = (loopPc = "parsing")
    BY <1>2 DEF TaskClears, ClearDoc
  <2>2. doc' = NoMembers /\ loopPc' = loopPc
    BY <1>2 DEF TaskClears, ClearDoc, loopVars
  <2> QED
    BY <2>1, <2>2
<1>3. CASE LoopParsed
  BY <1>3 DEF LoopParsed, FillDoc, taskVars
<1>4. CASE TaskParsed
  BY <1>4 DEF TaskParsed, FillDoc, loopVars
<1>5. CASE ~LoopClears /\ ~TaskClears /\ ~LoopParsed /\ ~TaskParsed
  <2>1. UNCHANGED <<doc, damaged>>
    BY <1>5, DocStays
  <2>2. loopPc' = "parsing" => loopPc = "parsing"
    BY <1>5, TaskOnly
    DEF Next, LoopStep, FetchAnswered, LoopLookup, ReadDate, ReadLength, ReadTime,
        ReadActive, LoopReadNext, LoopLoad, RemainingRead, LoopStore, Arm,
        LoopForgets, TickLoad, TickStore, loopVars
  <2>3. taskPc' = "parsing" => taskPc = "parsing"
    BY <1>5, LoopOnly
    DEF Next, TaskStep, PollAnswered, PollFailed, TaskLookup, ReadFlags,
        ReadMaxRunTime, ReadRefreshRate, TaskReadNext, TaskLoad, TaskStore, taskVars
  <2> QED
    BY <2>1, <2>2, <2>3
<1> QED
  BY <1>1, <1>2, <1>3, <1>4, <1>5

\* At first no answer is being handled.
LEMMA TypeInit == Init => TypeInv
BY DEF Init, TypeInv, LoopType, TaskType, DocInv, LoopPcs, TaskPcs, LoopAnswers,
   PollAnswers

\* Both tasks always handle an answer of the kind they asked for, and a document
\* being parsed has no members yet.
THEOREM Types == Spec => []TypeInv
BY TypeInit, LoopTypeStep, TaskTypeStep, DocStep, PTL DEF Spec, TypeInv

-----------------------------------------------------------------------------
(* The loop task.                                                          *)

LoopAtEnd == loopPc \in {"store", "arm"} \/ (loopPc = "read" /\ k = Len(LoopReads) + 1)

\* As long as isActive is in the document, the document is the handler's own,
\* and nothing has disturbed its reads.
ArmInv ==
  /\ loopPc \in {"idle", "parse", "parsing", "tick"} => ~misread
  /\ loopPc \in {"read", "load"} /\ "isActive" \in DOMAIN doc
       => doc = sent /\ ~misread /\ (loopPc = "load" => ~torn)
  /\ LoopAtEnd /\ ~torn /\ hasTimerBeenSet
       => ~misread /\ Value(sent, "isActive") # 0

\* Every step keeps ArmInv.
LEMMA ArmStep ==
  ASSUME TypeInv, ArmInv, [Next]_vars PROVE ArmInv'
<1> USE ReadsLen DEF ArmInv, TypeInv, LoopType, LoopAtEnd, docVars
<1>1. CASE FetchAnswered
  BY <1>1 DEF FetchAnswered
<1>2. CASE LoopClears
  BY <1>2 DEF LoopClears
<1>3. CASE LoopParsed
  <2>1. doc' = NoMembers \/ doc' = sent
    BY <1>3, Filled DEF LoopParsed, FillDoc, DocInv
  <2>2. loopPc' = "read" /\ ~LoopAtEnd'
    BY <1>3 DEF LoopParsed, LoopReads
  <2>3. sent' = sent /\ ~misread'
    BY <1>3 DEF LoopParsed
  <2> QED
    BY <2>1, <2>2, <2>3, Disjoint
<1>4. CASE LoopLookup
  <2>1. "isActive" \in DOMAIN doc => ~damaged /\ taskPc # "parsing"
    BY Disjoint DEF DocInv
  <2> QED
    BY <1>4, <2>1 DEF LoopLookup
<1>5. ASSUME NEW name, NEW value, LoopReadNext(name, value), name # "isActive"
      PROVE ArmInv'
  <2>1. /\ k' = k + 1 /\ k \in 1..Len(LoopReads) /\ LoopReads' = LoopReads
        /\ LoopReads[k] = name
    BY <1>5 DEF LoopReadNext, LoopReads
  <2>2. k' # Len(LoopReads') + 1
    BY <1>5, <2>1, LastReads
  <2>3. "isActive" \in DOMAIN doc => ~misread'
    BY <1>5 DEF LoopReadNext, Readings
  <2> QED
    BY <1>5, <2>2, <2>3 DEF LoopReadNext
<1>6. CASE ReadDate \/ ReadLength \/ ReadTime
  BY <1>5, <1>6 DEF ReadDate, ReadLength, ReadTime
<1>7. CASE ReadActive
  <2>1. PICK value \in Values :
          LoopReadNext("isActive", value) /\ hasTimerBeenSet' = (value # 0)
    BY <1>7 DEF ReadActive
  <2>2. ~torn /\ value # 0 => "isActive" \in DOMAIN doc /\ value = Value(doc, "isActive")
    BY <2>1 DEF LoopReadNext, Readings, Value
  <2>3. ~torn /\ value # 0 => ~misread /\ value = Value(sent, "isActive")
    BY <2>1, <2>2 DEF LoopReadNext
  <2>4. misread' = misread
    BY <2>1 DEF LoopReadNext
  <2> QED
    BY <2>1, <2>3, <2>4 DEF LoopReadNext
<1>8. CASE LoopLoad \/ RemainingRead \/ LoopStore \/ TickLoad
  BY <1>8 DEF LoopLoad, RemainingRead, LoopStore, TickLoad
<1>9. CASE Arm \/ TickStore
  BY <1>9 DEF Arm, TickStore, LoopForgets
<1>10. CASE TaskClears \/ TaskParsed
  <2>1. "isActive" \notin DOMAIN doc'
    BY <1>10, Filled, Disjoint
    DEF TaskClears, ClearDoc, TaskParsed, FillDoc, TaskType, DocInv
  <2>2. UNCHANGED loopVars /\ LoopReads' = LoopReads
    BY <1>10 DEF TaskClears, TaskParsed, loopVars, LoopReads
  <2>3. ~torn' => ~torn
    BY <1>10 DEF TaskClears, TaskParsed, FillDoc
  <2> QED
    BY <2>1, <2>2, <2>3 DEF loopVars
<1>11. CASE (TaskStep /\ ~TaskClears /\ ~TaskParsed) \/ UNCHANGED vars
  <2>1. UNCHANGED <<doc, torn>>
    BY <1>11 DEF TaskStep, PollAnswered, PollFailed, TaskLookup, ReadFlags,
       ReadMaxRunTime, ReadRefreshRate, TaskReadNext, TaskLoad, TaskStore, vars
  <2>2. UNCHANGED loopVars
    BY <1>11, TaskOnly
  <2> QED
    BY <2>1, <2>2 DEF loopVars, LoopReads
<1> QED
  BY <1>1, <1>2, <1>3, <1>4, <1>6, <1>7, <1>8, <1>9, <1>10, <1>11
  DEF Next, LoopStep

\* ArmInv holds in every reachable state.
THEOREM ArmInvariant == Spec => []ArmInv
<1>1. Init => ArmInv
  BY DEF Init, ArmInv, LoopAtEnd
<1> QED
  BY <1>1, ArmStep, Types, PTL DEF Spec

\* A timer sent as inactive arms nothing unless isActive was read while a poll
\* was inside deserializeJson.
THEOREM OnlyActiveArms == Spec => []OnlyAnActiveAnswerArms
<1>1. ArmInv => OnlyAnActiveAnswerArms
  BY DEF ArmInv, LoopAtEnd, OnlyAnActiveAnswerArms, HandlerRead
<1> QED
  BY <1>1, ArmInvariant, PTL

\* A handler whose document was replaced by a poll does not arm the timer.
THEOREM ArmedIsWhole == Spec => []ArmedTimerIsWhole
<1>1. ArmInv => ArmedTimerIsWhole
  BY DEF ArmInv, LoopAtEnd, ArmedTimerIsWhole, HandlerRead
<1> QED
  BY <1>1, ArmInvariant, PTL

-----------------------------------------------------------------------------
(* The poll.                                                               *)

PollAtEnd == taskPc = "store" \/ (taskPc = "read" /\ j = Len(TaskReads) + 1)

\* As long as refreshRate is in the document, the document is the poll's own,
\* and nothing has disturbed its reads.
PollInv ==
  /\ taskPc \in {"sleep", "parse", "parsing"} => ~taskMisread
  /\ taskPc \in {"read", "load"} /\ "refreshRate" \in DOMAIN doc
       => doc = taskSent /\ ~taskMisread /\ (taskPc = "load" => ~taskTorn)
  /\ PollAtEnd /\ ~taskTorn /\ refreshRate > 0 => ~taskMisread

\* Every step keeps PollInv.
LEMMA PollStep ==
  ASSUME TypeInv, PollInv, [Next]_vars PROVE PollInv'
<1> USE ReadsLen DEF PollInv, TypeInv, TaskType, PollAtEnd, docVars
<1>1. CASE PollAnswered \/ PollFailed
  BY <1>1 DEF PollAnswered, PollFailed
<1>2. CASE TaskClears
  BY <1>2 DEF TaskClears
<1>3. CASE TaskParsed
  <2>1. doc' = NoMembers \/ doc' = taskSent
    BY <1>3, Filled DEF TaskParsed, FillDoc, DocInv
  <2>2. taskPc' = "read" /\ ~PollAtEnd'
    BY <1>3 DEF TaskParsed, TaskReads
  <2>3. taskSent' = taskSent /\ ~taskMisread'
    BY <1>3 DEF TaskParsed
  <2> QED
    BY <2>1, <2>2, <2>3, Disjoint
<1>4. CASE TaskLookup
  <2>1. "refreshRate" \in DOMAIN doc => ~damaged /\ loopPc # "parsing"
    BY Disjoint DEF DocInv
  <2> QED
    BY <1>4, <2>1 DEF TaskLookup
<1>5. ASSUME NEW name, NEW value, TaskReadNext(name, value), name # "refreshRate"
      PROVE PollInv'
  <2>1. /\ j' = j + 1 /\ j \in 1..Len(TaskReads) /\ TaskReads' = TaskReads
        /\ TaskReads[j] = name
    BY <1>5 DEF TaskReadNext, TaskReads
  <2>2. j' # Len(TaskReads') + 1
    BY <1>5, <2>1, LastReads
  <2>3. "refreshRate" \in DOMAIN doc => ~taskMisread'
    BY <1>5 DEF TaskReadNext, Readings
  <2> QED
    BY <1>5, <2>2, <2>3 DEF TaskReadNext
<1>6. CASE ReadFlags \/ ReadMaxRunTime
  BY <1>5, <1>6 DEF ReadFlags, ReadMaxRunTime
<1>7. CASE ReadRefreshRate
  <2>1. PICK value \in Values :
          TaskReadNext("refreshRate", value) /\ refreshRate' = value
    BY <1>7 DEF ReadRefreshRate
  <2>2. ~taskTorn /\ value > 0 => "refreshRate" \in DOMAIN doc
    BY <2>1 DEF TaskReadNext, Readings, Value
  <2>3. ~taskTorn /\ value > 0 => ~taskMisread
    BY <2>1, <2>2 DEF TaskReadNext
  <2>4. taskMisread' = taskMisread
    BY <2>1 DEF TaskReadNext
  <2> QED
    BY <2>1, <2>3, <2>4 DEF TaskReadNext
<1>8. CASE TaskLoad \/ TaskStore
  BY <1>8 DEF TaskLoad, TaskStore
<1>9. CASE LoopClears \/ LoopParsed
  <2>1. "refreshRate" \notin DOMAIN doc'
    BY <1>9, Filled, Disjoint
    DEF LoopClears, ClearDoc, LoopParsed, FillDoc, LoopType, DocInv
  <2>2. UNCHANGED taskVars /\ TaskReads' = TaskReads
    BY <1>9 DEF LoopClears, LoopParsed, taskVars, TaskReads
  <2>3. ~taskTorn' => ~taskTorn
    BY <1>9 DEF LoopClears, LoopParsed, FillDoc
  <2> QED
    BY <2>1, <2>2, <2>3 DEF taskVars
<1>10. CASE (LoopStep /\ ~LoopClears /\ ~LoopParsed) \/ UNCHANGED vars
  <2>1. UNCHANGED <<doc, taskTorn>>
    BY <1>10 DEF LoopStep, FetchAnswered, LoopLookup, ReadDate, ReadLength,
       ReadTime, ReadActive, LoopReadNext, LoopLoad, RemainingRead, LoopStore,
       Arm, TickLoad, TickStore, vars
  <2>2. UNCHANGED taskVars
    BY <1>10, LoopOnly
  <2> QED
    BY <2>1, <2>2 DEF taskVars, TaskReads
<1> QED
  BY <1>1, <1>2, <1>3, <1>4, <1>6, <1>7, <1>8, <1>9, <1>10 DEF Next, TaskStep

\* A poll whose document was replaced by a handler is repeated in the next pass.
THEOREM DisturbedIsRepeated == Spec => []DisturbedPollIsRepeated
<1>1. Init => PollInv
  BY DEF Init, PollInv, PollAtEnd
<1>2. PollInv => DisturbedPollIsRepeated
  BY DEF PollInv, PollAtEnd, DisturbedPollIsRepeated, PollRead
<1> QED
  BY <1>1, <1>2, PollStep, Types, PTL DEF Spec
=============================================================================
