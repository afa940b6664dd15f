--------------------------------- MODULE Ntp ---------------------------------
(***************************************************************************)
(* The clock that the sketch reads: NTPClient::update, called at the start *)
(* of each pass, over UDP packets that are lost, delayed or overtaken, and *)
(* millis(), which starts again at 0 after 49 days.                        *)
(*                                                                         *)
(* Time is counted in ticks of 10 ms, the delay between two polls of the   *)
(* socket; real time is counted from 1970.  getEpochTime's offset, which   *)
(* the sketch sets to the same value before every use, is left out, and so *)
(* are packets that no server sends.                                       *)
(***************************************************************************)
EXTENDS Naturals, FiniteSets

CONSTANTS
  BootTime,        \* real time when the device is switched on
  MaxNow,          \* bound on real time
  Wrap,            \* the range of millis(), in ticks
  Second,          \* ticks in a second
  UpdateInterval,  \* _updateInterval
  Tries,           \* polls of the socket before forceUpdate gives up: 100
  MaxDelay,        \* ticks that an answer is under way
  MaxPoll,         \* ticks between two polls of a task that is not alone
  MaxFlight        \* bound on packets under way

ASSUME NtpAssumption ==
  /\ BootTime \in Nat /\ MaxNow \in Nat /\ Wrap \in Nat /\ Second \in Nat
  /\ UpdateInterval \in Nat /\ Tries \in Nat
  /\ MaxDelay \in Nat /\ MaxPoll \in Nat /\ MaxFlight \in Nat
  /\ Second > 0
  /\ Tries + 2 < Wrap

VARIABLES
  now,          \* real time
  millis,       \* millis()
  lastUpdate,   \* _lastUpdate
  currentEpoc,  \* _currentEpoc, in ticks
  waiting,      \* forceUpdate waits for an answer
  timeout,      \* its counter
  slept,        \* ticks since it last looked at the socket
  requests,     \* requests under way
  answers,      \* answers under way: the time they carry, and when it was read
  received,     \* answers that have reached the socket
  isSet, worn   \* history: an answer was taken; millis() has wrapped since

network == <<requests, answers, received>>
clock   == <<lastUpdate, currentEpoc, isSet>>
vars    == <<now, millis, clock, waiting, timeout, slept, network, worn>>

Answer == [value : Nat, read : Nat]

TypeOK ==
  /\ now \in Nat /\ millis \in 0 .. Wrap - 1
  /\ lastUpdate \in 0 .. Wrap - 1 /\ currentEpoc \in Nat
  /\ waiting \in BOOLEAN /\ timeout \in 0 .. Tries + 1 /\ slept \in Nat
  /\ requests \in Nat
  /\ answers \subseteq Answer /\ received \subseteq Answer
  /\ isSet \in BOOLEAN /\ worn \in BOOLEAN

Init ==
  /\ now = BootTime /\ millis = 0
  /\ lastUpdate = 0 /\ currentEpoc = 0
  /\ waiting = FALSE /\ timeout = 0 /\ slept = 0
  /\ requests = 0 /\ answers = {} /\ received = {}
  /\ isSet = FALSE /\ worn = FALSE

\* millis() - a, in unsigned arithmetic
Since(a) == IF millis >= a THEN millis - a ELSE millis + Wrap - a

\* millis() - n
Ago(n) == IF millis >= n THEN millis - n ELSE millis + Wrap - n

\* getEpochTime, before it is cut to seconds.
Shown == currentEpoc + Since(lastUpdate)

-----------------------------------------------------------------------------
(* Time and the network.                                                   *)

\* An answer that is older than MaxDelay is lost, and a waiting task looks at
\* the socket again.
Tick ==
  /\ now < MaxNow
  /\ \A a \in answers : now < a.read + MaxDelay
  /\ waiting => slept < MaxPoll
  /\ now' = now + 1
  /\ millis' = IF millis + 1 = Wrap THEN 0 ELSE millis + 1
  /\ slept' = IF waiting THEN slept + 1 ELSE 0
  /\ worn' = (worn \/ Since(lastUpdate) = Wrap - 1)
  /\ UNCHANGED <<clock, waiting, timeout, network>>

\* A server answers with its time, in whole seconds.
Serve ==
  /\ requests > 0 /\ requests' = requests - 1
  /\ answers' = answers \cup {[value |-> now - (now % Second), read |-> now]}
  /\ UNCHANGED <<now, millis, clock, waiting, timeout, slept, received, worn>>

Arrive ==
  /\ \E a \in answers :
       /\ received' = received \cup {a}
       /\ answers' \in {answers, answers \ {a}}
  /\ UNCHANGED <<now, millis, clock, waiting, timeout, slept, requests, worn>>

Lose ==
  /\ \/ requests > 0 /\ requests' = requests - 1 /\ UNCHANGED answers
     \/ \E a \in answers : answers' = answers \ {a} /\ UNCHANGED requests
  /\ UNCHANGED <<now, millis, clock, waiting, timeout, slept, received, worn>>

-----------------------------------------------------------------------------
(* NTPClient.                                                              *)

\* The condition of update().
Due == Since(lastUpdate) >= UpdateInterval \/ lastUpdate = 0

\* Slip: packets that wait in the socket are not thrown away first.
Ask_NoFlush ==
  /\ ~waiting /\ Due
  /\ waiting' = TRUE /\ timeout' = 0 /\ slept' = 0
  /\ requests' = IF requests < MaxFlight THEN requests + 1 ELSE requests
  /\ UNCHANGED <<now, millis, clock, answers, received, worn>>

\* forceUpdate empties the socket and sends a request.
Ask ==
  /\ ~waiting /\ Due
  /\ received' = {}
  /\ waiting' = TRUE /\ timeout' = 0 /\ slept' = 0
  /\ requests' = IF requests < MaxFlight THEN requests + 1 ELSE requests
  /\ UNCHANGED <<now, millis, clock, answers, worn>>

\* A look at the socket after a delay; the packet that it takes, if any.
Poll == waiting /\ slept > 0 /\ slept' = 0

\* Slip: the polls are not counted against the limit.
NoAnswerYet_Endless ==
  /\ Poll /\ received = {}
  /\ timeout' = timeout + 1
  /\ UNCHANGED <<now, millis, clock, waiting, network, worn>>

NoAnswerYet ==
  /\ Poll /\ received = {} /\ timeout <= Tries
  /\ timeout' = timeout + 1
  /\ UNCHANGED <<now, millis, clock, waiting, network, worn>>

\* Slip: _lastUpdate is left as it was.
Take_KeepsLast(a) ==
  /\ currentEpoc' = a.value
  /\ isSet' = TRUE /\ worn' = FALSE
  /\ UNCHANGED lastUpdate

\* The answer counts from one delay before the request was sent.
Take(a) ==
  /\ currentEpoc' = a.value
  /\ lastUpdate' = Ago(timeout + 2)
  /\ isSet' = TRUE /\ worn' = FALSE

\* The first packet is believed, whichever request it answers.
Answered ==
  /\ Poll /\ timeout <= Tries
  /\ \E a \in received : Take(a) /\ received' = received \ {a}
  /\ waiting' = FALSE
  /\ UNCHANGED <<now, millis, timeout, requests, answers>>

\* The last look is at the socket and not at what it found.
GiveUp ==
  /\ Poll /\ timeout > Tries
  /\ waiting' = FALSE
  /\ IF received = {} THEN UNCHANGED received
     ELSE \E a \in received : received' = received \ {a}
  /\ UNCHANGED <<now, millis, clock, timeout, requests, answers, worn>>

Device == Ask \/ NoAnswerYet \/ Answered \/ GiveUp

\* The bound, not the system, ends a behaviour.
TimeIsUp == now = MaxNow /\ UNCHANGED vars

Next == Tick \/ Serve \/ Arrive \/ Lose \/ Device \/ TimeIsUp

Spec == Init /\ [][Next]_vars

-----------------------------------------------------------------------------
(* Properties.                                                             *)

\* How far behind an answer may put the clock, and how far ahead.
Lag  == Second + MaxDelay + MaxPoll
Lead == Tries + 2

\* The clock is ahead of real time by little more than the wait for the answer,
\* whatever packets are lost, late or overtaken: no timer is due long before its
\* time (forceUpdate, getEpochTime).
NeverFarAhead == Shown <= now + Lead

\* Once set, the clock is behind by less than a late answer can make it, and
\* answers left over from an earlier request do not put it back by more
\* (forceUpdate), unless no answer has come for as long as millis() lasts.
BehindByALateAnswer == isSet /\ ~worn => now < Shown + Lag

\* The clock may go back, but by no more than that.
StepBackBounded == [][worn' \/ Shown < Shown' + Lag + Lead]_vars
=============================================================================
