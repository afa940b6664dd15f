----------------------------- MODULE MCSharedDoc -----------------------------
EXTENDS SharedDoc, SequencesExt

MCValues == {0, 1, 2}

\* A timer that is active, one that is not, and what an error page reads as.
Timer(active) ==
  [name \in ToSet(CurrentReads) |-> IF name = "isActive" THEN active ELSE 1]
MCTimerAnswers     == {Timer(1), Timer(0), NoMembers}
MCRemainingAnswers == {[time |-> 2, isActive |-> 1], [time |-> 2, isActive |-> 0],
                       NoMembers}
MCStatusAnswers    == {[name \in ToSet(StatusReads) |-> 1], NoMembers}

\* The runs in which no read and no parse happens to be disturbed.
UndisturbedSpec ==
  Init /\ [][Next /\ ~damaged' /\ ~torn' /\ ~taskTorn']_vars
=============================================================================
