CONSTANTS
  Capacity = 60
  KeyLength <- MCKeyLength
  SlotSize = 16
  Replies <- MCReplies
SPECIFICATION Spec
INVARIANT ArmedIsExactBefore
INVARIANT WholeWhenDelivered
INVARIANT NeverMoreThanSent
PROPERTY RequestsEnd
