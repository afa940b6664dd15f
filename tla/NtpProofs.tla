------------------------------ MODULE NtpProofs ------------------------------
(***************************************************************************)
(* Proofs about Ntp, for all constants that satisfy NtpAssumption and for  *)
(* every bound MaxNow on time.                                             *)
(***************************************************************************)
EXTENDS Ntp, TLAPS

\* Subtraction in the range of millis() stays in it and is undone by Since.
LEMMA UnsignedSubtraction ==
  ASSUME TypeOK
  PROVE  /\ \A a \in 0 .. Wrap - 1 : Since(a) \in 0 .. Wrap - 1
         /\ \A n \in 0 .. Wrap - 1 :
              Ago(n) \in 0 .. Wrap - 1 /\ Since(Ago(n)) = n
BY NtpAssumption DEF TypeOK, Since, Ago

\* A whole second is not ahead, and less than a second behind.
LEMMA WholeSecond ==
  ASSUME NEW t \in Nat
  PROVE  t - (t % Second) \in Nat /\ t < t - (t % Second) + Second
<1>1. t % Second \in 0 .. Second - 1
  BY NtpAssumption
<1>2. t % Second <= t
  BY NtpAssumption
<1> QED BY <1>1, <1>2, NtpAssumption

\* Types, and the byte that counts the polls (forceUpdate).
THEOREM NtpTypes == Spec => []TypeOK
<1> USE NtpAssumption
<1>1. Init => TypeOK
  <2> SUFFICES ASSUME Init PROVE TypeOK
    OBVIOUS
  <2>1. 0 \in 0 .. Wrap - 1 /\ 0 \in 0 .. Tries + 1
    OBVIOUS
  <2>2. answers \subseteq Answer /\ received \subseteq Answer
    BY DEF Init
  <2> QED BY <2>1, <2>2 DEF Init, TypeOK
<1>2. TypeOK /\ [Next]_vars => TypeOK'
  <2> SUFFICES ASSUME TypeOK, [Next]_vars PROVE TypeOK'
    OBVIOUS
  <2>1. CASE Tick
    BY <2>1 DEF Tick, TypeOK, clock, network
  <2>2. CASE Serve
    <3>1. now - (now % Second) \in Nat
      BY WholeSecond DEF TypeOK
    <3> QED BY <2>2, <3>1 DEF Serve, TypeOK, clock, Answer
  <2>3. CASE Arrive
    BY <2>3 DEF Arrive, TypeOK, clock
  <2>4. CASE Lose
    BY <2>4 DEF Lose, TypeOK, clock
  <2>5. CASE Ask
    BY <2>5 DEF Ask, TypeOK, clock
  <2>6. CASE NoAnswerYet
    BY <2>6 DEF NoAnswerYet, Poll, TypeOK, clock, network
  <2>7. CASE Answered
    <3>1. PICK a \in received : Take(a) /\ received' = received \ {a}
      BY <2>7 DEF Answered
    <3>2. timeout + 2 \in 0 .. Wrap - 1
      BY <2>7 DEF Answered, TypeOK
    <3>3. Ago(timeout + 2) \in 0 .. Wrap - 1
      BY <3>2, UnsignedSubtraction
    <3>4. a.value \in Nat
      BY DEF TypeOK, Answer
    <3> QED BY <2>7, <3>1, <3>3, <3>4 DEF Answered, Poll, Take, TypeOK
  <2>8. CASE GiveUp
    BY <2>8 DEF GiveUp, Poll, TypeOK, clock
  <2>9. CASE TimeIsUp \/ UNCHANGED vars
    BY <2>9 DEF TimeIsUp, vars, TypeOK, clock, network
  <2> QED BY <2>1, <2>2, <2>3, <2>4, <2>5, <2>6, <2>7, <2>8, <2>9 DEF Next, Device
<1> QED BY <1>1, <1>2, PTL DEF Spec

-----------------------------------------------------------------------------
(* What the network may hold, and what the clock shows.                    *)

\* No packet is ahead of real time, nor more than a second behind its reading.
PacketInv ==
  \A a \in answers \cup received :
    /\ a.value <= a.read /\ a.read < a.value + Second
    /\ a.read <= now

\* A packet under way is young, and so is one in the socket of a waiting task,
\* because the socket was emptied when it began to wait.
AgeInv ==
  /\ \A a \in answers : now <= a.read + MaxDelay
  /\ waiting => slept <= MaxPoll
                /\ \A a \in received : now <= a.read + MaxDelay + slept

ShownInv == NeverFarAhead /\ BehindByALateAnswer

NtpInv == PacketInv /\ AgeInv /\ ShownInv

\* The packets of a state are there in the next one, except the one that a
\* server has just sent.
LEMMA PacketsKept ==
  ASSUME TypeOK, TypeOK', NtpInv, [Next]_vars
  PROVE  PacketInv' /\ AgeInv'
<1> USE NtpAssumption
<1>1. CASE Tick
  <2>1. now' = now + 1 /\ answers' = answers /\ received' = received /\ waiting' = waiting
    BY <1>1 DEF Tick, network
  <2>2. PacketInv'
    BY <2>1 DEF NtpInv, PacketInv, TypeOK, Answer
  <2>3. \A a \in answers' : now' <= a.read + MaxDelay
    BY <1>1, <2>1 DEF Tick, TypeOK, Answer
  <2>4. waiting' => slept' <= MaxPoll
                    /\ \A a \in received' : now' <= a.read + MaxDelay + slept'
    BY <1>1, <2>1 DEF Tick, NtpInv, AgeInv, TypeOK, Answer
  <2> QED BY <2>2, <2>3, <2>4 DEF AgeInv
<1>2. CASE Serve
  <2> DEFINE new == [value |-> now - (now % Second), read |-> now]
  <2>1. /\ answers' = answers \cup {new} /\ received' = received
        /\ now' = now /\ waiting' = waiting /\ slept' = slept
    BY <1>2 DEF Serve
  <2>2. new.value \in Nat /\ new.read = now /\ new.value <= now /\ now < new.value + Second
    <3>1. now \in Nat BY DEF TypeOK
    <3>2. now % Second \in Nat BY <3>1
    <3> QED BY <3>1, <3>2, WholeSecond
  <2>3. PacketInv'
    BY <2>1, <2>2 DEF NtpInv, PacketInv, TypeOK
  <2>4. AgeInv'
    BY <2>1, <2>2 DEF NtpInv, AgeInv, TypeOK
  <2> QED BY <2>3, <2>4
<1>3. CASE Arrive
  BY <1>3 DEF Arrive, NtpInv, PacketInv, AgeInv, TypeOK, Answer
<1>4. CASE Lose
  BY <1>4 DEF Lose, NtpInv, PacketInv, AgeInv
<1>5. CASE Ask
  BY <1>5 DEF Ask, NtpInv, PacketInv, AgeInv
<1>6. CASE NoAnswerYet
  BY <1>6 DEF NoAnswerYet, Poll, network, NtpInv, PacketInv, AgeInv
<1>7. CASE Answered
  BY <1>7 DEF Answered, NtpInv, PacketInv, AgeInv
<1>8. CASE GiveUp
  BY <1>8 DEF GiveUp, NtpInv, PacketInv, AgeInv
<1>9. CASE TimeIsUp \/ UNCHANGED vars
  BY <1>9 DEF TimeIsUp, vars, network, NtpInv, PacketInv, AgeInv
<1> QED BY <1>1, <1>2, <1>3, <1>4, <1>5, <1>6, <1>7, <1>8, <1>9 DEF Next, Device

\* A tick moves the clock on by one, unless millis() has been round.
LEMMA ClockTicks ==
  ASSUME TypeOK, Tick
  PROVE  /\ currentEpoc' = currentEpoc
         /\ Since(lastUpdate)' \in Nat
         /\ IF Since(lastUpdate) = Wrap - 1
            THEN Since(lastUpdate)' = 0
            ELSE Since(lastUpdate)' = Since(lastUpdate) + 1
BY NtpAssumption DEF TypeOK, Tick, Since, clock

\* Only ticks and answers change what is shown.
LEMMA ClockStands ==
  ASSUME [Next]_vars, ~Tick, ~Answered
  PROVE  Shown' = Shown /\ now' = now /\ isSet' = isSet /\ worn' = worn
BY DEF Next, Device, Serve, Arrive, Lose, Ask, NoAnswerYet, GiveUp, TimeIsUp,
       vars, clock, Shown, Since

\* An answer sets the clock to the time it carries and the wait for it.
LEMMA ClockSet ==
  ASSUME TypeOK, Answered
  PROVE  \E a \in received :
           /\ Shown' = a.value + timeout + 2
           /\ timeout <= Tries /\ now' = now /\ waiting /\ isSet' /\ ~worn'
<1> USE NtpAssumption
<1>1. PICK a \in received : Take(a)
  BY DEF Answered
<1>2. timeout + 2 \in 0 .. Wrap - 1
  BY DEF Answered, TypeOK
<1>3. millis' = millis /\ lastUpdate' = Ago(timeout + 2)
  BY <1>1 DEF Answered, Take
<1>4. Since(lastUpdate)' = timeout + 2
  BY <1>2, <1>3, UnsignedSubtraction DEF Since
<1>5. Shown' = a.value + timeout + 2
  BY <1>1, <1>4 DEF Take, Shown, TypeOK, Answer
<1>6. timeout <= Tries /\ now' = now /\ waiting /\ isSet' /\ ~worn'
  BY <1>1 DEF Answered, Poll, Take
<1> QED BY <1>5, <1>6

\* What the clock shows stays between its bounds.
LEMMA ShownKept ==
  ASSUME TypeOK, TypeOK', NtpInv, [Next]_vars
  PROVE  ShownInv'
<1> USE NtpAssumption
<1>0. Shown \in Nat /\ now \in Nat /\ Since(lastUpdate) \in 0 .. Wrap - 1
  BY UnsignedSubtraction DEF Shown, TypeOK
<1>1. CASE Tick
  <2>1. now' = now + 1 /\ isSet' = isSet
    BY <1>1 DEF Tick, clock
  <2>2. CASE Since(lastUpdate) = Wrap - 1
    <3>1. worn' = TRUE
      BY <1>1, <2>2 DEF Tick
    <3>2. Shown' <= Shown
      BY <1>0, <1>1, <2>2, ClockTicks DEF Shown, TypeOK
    <3>3. Shown' \in Nat
      BY <1>1, ClockTicks DEF Shown, TypeOK
    <3> QED BY <1>0, <2>1, <3>1, <3>2, <3>3
            DEF NtpInv, ShownInv, NeverFarAhead, BehindByALateAnswer, Lead
  <2>3. CASE Since(lastUpdate) # Wrap - 1
    <3>1. Shown' = Shown + 1
      BY <1>0, <1>1, <2>3, ClockTicks DEF Shown, TypeOK
    <3>2. worn' = worn
      BY <1>1, <2>3 DEF Tick, TypeOK
    <3> QED BY <1>0, <2>1, <3>1, <3>2
            DEF NtpInv, ShownInv, NeverFarAhead, BehindByALateAnswer, Lead, Lag
  <2> QED BY <2>2, <2>3
<1>2. CASE Answered
  <2>1. PICK a \in received :
           /\ Shown' = a.value + timeout + 2
           /\ timeout <= Tries /\ now' = now /\ waiting
    BY <1>2, ClockSet
  <2>2. /\ a.value \in Nat /\ a.read \in Nat /\ a.value <= a.read
        /\ a.read < a.value + Second /\ a.read <= now
    BY DEF NtpInv, PacketInv, TypeOK, Answer
  <2>3. now <= a.read + MaxDelay + slept /\ slept <= MaxPoll /\ slept \in Nat
    BY <2>1 DEF NtpInv, AgeInv, TypeOK
  <2>4. timeout \in Nat
    BY DEF TypeOK
  <2>5. Shown' <= now' + Lead
    BY <1>0, <2>1, <2>2, <2>4 DEF Lead
  <2>6. now' < Shown' + Lag
    BY <1>0, <2>1, <2>2, <2>3, <2>4 DEF Lag
  <2> QED BY <2>5, <2>6 DEF ShownInv, NeverFarAhead, BehindByALateAnswer, Lead, Lag
<1>3. CASE ~Tick /\ ~Answered
  BY <1>3, ClockStands
  DEF NtpInv, ShownInv, NeverFarAhead, BehindByALateAnswer, Lead, Lag
<1> QED BY <1>1, <1>2, <1>3

\* The three parts together are inductive.
THEOREM NtpInvariant == Spec => []NtpInv
<1>1. Init => NtpInv
  BY NtpAssumption
  DEF Init, NtpInv, PacketInv, AgeInv, ShownInv, NeverFarAhead,
      BehindByALateAnswer, Shown, Since, Lead
<1>2. TypeOK /\ TypeOK' /\ NtpInv /\ [Next]_vars => NtpInv'
  BY PacketsKept, ShownKept DEF NtpInv
<1> QED BY <1>1, <1>2, NtpTypes, PTL DEF Spec

\* Whatever the network does, the clock that the timers are compared with is
\* ahead of real time by no more than the wait for an answer (forceUpdate).
THEOREM ClockNeverFarAhead == Spec => []NeverFarAhead
<1>1. NtpInv => NeverFarAhead
  BY DEF NtpInv, ShownInv
<1> QED BY <1>1, NtpInvariant, PTL

\* And behind it by less than a late answer and a second (forceUpdate).
THEOREM ClockNotFarBehind == Spec => []BehindByALateAnswer
<1>1. NtpInv => BehindByALateAnswer
  BY DEF NtpInv, ShownInv
<1> QED BY <1>1, NtpInvariant, PTL

\* It goes back only when an answer is taken, and by a bounded amount, or when
\* millis() has been round without one (getEpochTime).
THEOREM ClockStepsBackLittle == Spec => StepBackBounded
<1> USE NtpAssumption
<1>1. TypeOK /\ TypeOK' /\ NtpInv /\ NtpInv' /\ [Next]_vars
        => [worn' \/ Shown < Shown' + Lag + Lead]_vars
  <2> SUFFICES ASSUME TypeOK, TypeOK', NtpInv, NtpInv', [Next]_vars
               PROVE  worn' \/ Shown < Shown' + Lag + Lead
    OBVIOUS
  <2>0. /\ Shown \in Nat /\ now \in Nat /\ Lag \in Nat /\ Lag > 0 /\ Lead \in Nat
        /\ Since(lastUpdate) \in 0 .. Wrap - 1
    BY UnsignedSubtraction DEF Shown, TypeOK, Lag, Lead
  <2>1. CASE Tick
    <3>1. CASE Since(lastUpdate) = Wrap - 1
      BY <2>1, <3>1 DEF Tick
    <3>2. CASE Since(lastUpdate) # Wrap - 1
      <4>1. Shown' = Shown + 1
        BY <2>0, <2>1, <3>2, ClockTicks DEF Shown, TypeOK
      <4> QED BY <2>0, <4>1 DEF Shown
    <3> QED BY <3>1, <3>2
  <2>2. CASE Answered
    <3>1. PICK a \in received : Shown' = a.value + timeout + 2 /\ now' = now /\ isSet' /\ ~worn'
      BY <2>2, ClockSet
    <3>2. Shown' \in Nat
      BY <3>1 DEF TypeOK, Answer
    <3>3. Shown <= now + Lead
      BY DEF NtpInv, ShownInv, NeverFarAhead
    <3>4. now < Shown' + Lag
      BY <3>1 DEF NtpInv, ShownInv, BehindByALateAnswer, Lag
    <3>5. Shown < Shown' + Lag + Lead
      <4>1. ASSUME NEW s \in Nat, NEW r \in Nat, NEW n \in Nat,
                   NEW lead \in Nat, NEW lag \in Nat, s <= n + lead, n < r + lag
            PROVE  s < r + lag + lead
        BY <4>1
      <4> QED BY <2>0, <3>2, <3>3, <3>4, <4>1
    <3> QED BY <3>5
  <2>3. CASE ~Tick /\ ~Answered
    <3>1. Shown' = Shown
      BY <2>3, ClockStands
    <3> QED BY <2>0, <3>1
  <2> QED BY <2>1, <2>2, <2>3
<1> QED BY <1>1, NtpTypes, NtpInvariant, PTL DEF Spec, StepBackBounded
=============================================================================
