SPECIFICATION FairSpec
CONSTANTS
  MaxDeployments = 2
  MaxOrdinal = 2
  MaxPosition = 2
  MaxCrashes = 2
  Retention = 1
  CommitRetention = 2
INVARIANTS
  TypeOK
  UndeliveredIsLast
  MarkersAreDistinct
  EveryEventHasItsIntent
  RecoveryPayloadKept
  UndeliveredKeepsItsCursor
  ReopenFailsOnlyWithoutSource
PROPERTIES
  EveryTransitionDelivered
  NeverRedelivered
  TerminalIsFinal
  DeliveryImplemented
CHECK_DEADLOCK FALSE
