SPECIFICATION Spec
CONSTANTS
  Calls <- TwoCalls
  Methods <- OneOfEach
  MaxRetries = 1
  MaxFaults = 1
  MaxExpiries = 1
INVARIANTS
  TypeOK
  RepeatedOnlyAfterLostAnswer
  KeepsRotatedToken
  SucceedsAlone
PROPERTIES
  EveryCallEnds
  ImplementsAdapter
