CONSTANTS
  Values <- MCValues
  TimerAnswers <- MCTimerAnswers
  RemainingAnswers <- MCRemainingAnswers
  StatusAnswers <- MCStatusAnswers
SPECIFICATION UndisturbedSpec
INVARIANT RunTimeIsInSeconds
