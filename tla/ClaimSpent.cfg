CONSTANTS
  MaxWall = 4
  Clock <- MCClock
  ReadSpan = 0
  SecondsPerMinute = 1
  Backoff = 1
  Routes = {}
  CurrentReplies <- OneTimer
  NextReplies = {}
  RemainingReplies = {}
  StatusReplies = {}
SPECIFICATION Spec
PROPERTY SpentTimerRests
