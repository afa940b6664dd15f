----------------------------- MODULE MCDueCheck -----------------------------
EXTENDS DueCheck

\* Two values of every component, and the all-zero reading of a document
\* that did not parse.
MCMoments ==
  [year : 2022..2023, month : 1..2, day : 1..2,
   hours : 0..2, minutes : 0..1, seconds : {0}]
    \cup {UpdateTime(0, 0, 0, 0, 0, 0)}
=============================================================================
