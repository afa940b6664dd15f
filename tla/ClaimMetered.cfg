CONSTANTS
  MaxWall = 4
  Clock <- MCClock
  ReadSpan = 0
  SecondsPerMinute = 2
  Backoff = 1
  Routes = {}
  CurrentReplies <- OneTimer
  NextReplies <- OneTimer
  RemainingReplies = {}
  StatusReplies = {}
SPECIFICATION Spec
INVARIANT RunIsMetered
