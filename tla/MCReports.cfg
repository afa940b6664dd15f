CONSTANTS
  MaxWall = 1
  Clock <- MCClock
  ReadSpan = 0
  SecondsPerMinute = 1
  Backoff = 1
  Routes <- ReportRoutes
  CurrentReplies <- DueAtOnce
  NextReplies = {}
  RemainingReplies <- Resume
  StatusReplies <- PollAtOnce
SPECIFICATION FairSpec
INVARIANT ReportsMatchPins
PROPERTY PollsForever
PROPERTY PumpOffServed
