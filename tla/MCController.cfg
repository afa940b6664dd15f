CONSTANTS
  MaxWall = 4
  Clock <- MCClock
  ReadSpan = 1
  SecondsPerMinute = 2
  Backoff = 1
  Routes <- PumpRoutes
  CurrentReplies <- MCTimers
  NextReplies <- OneTimer
  RemainingReplies <- MCRemaining
  StatusReplies <- OneStatus
SPECIFICATION Spec
INVARIANT TypeOK
INVARIANT ManualCommandHolds
INVARIANT CountdownNeverFast
PROPERTY NeverStartsEarly
PROPERTY OnlyTheHolderMovesThePump
