CONSTANTS
  Clients = {a, b}
  Ahead = 2
  None = None
SPECIFICATION Spec
INVARIANT TypeOK
INVARIANT AnswersInOrder
PROPERTY NoRequestLost
PROPERTY NoStarvation
