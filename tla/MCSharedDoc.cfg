CONSTANTS
  Values <- MCValues
  TimerAnswers <- MCTimerAnswers
  RemainingAnswers <- MCRemainingAnswers
  StatusAnswers <- MCStatusAnswers
SPECIFICATION Spec
INVARIANT ArmedTimerIsWhole
INVARIANT DisturbedPollIsRepeated
INVARIANT OnlyAnActiveAnswerArms
