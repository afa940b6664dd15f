CONSTANTS
  Ids = {1, 2}
  Networks = {"home", "elsewhere"}
  Wrap = 16
SPECIFICATION BootFairSpec
INVARIANT IdSurvivesPowerLoss
INVARIANT RetryNeverWraps
INVARIANT PortalUndisturbed
INVARIANT TrueMeansRemembered
PROPERTY OutageKeepsId
PROPERTY AttemptsEnd
