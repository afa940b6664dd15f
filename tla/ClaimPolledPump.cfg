CONSTANTS
  MaxWall = 4
  Clock <- MCClock
  ReadSpan = 0
  SecondsPerMinute = 1
  Backoff = 1
  Routes = {}
  CurrentReplies <- Inactive
  NextReplies <- OneTimer
  RemainingReplies = {}
  StatusReplies <- OneStatus
SPECIFICATION FairSpec
PROPERTY PolledPumpRuns
