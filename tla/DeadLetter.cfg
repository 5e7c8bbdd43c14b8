SPECIFICATION BusSpec
CONSTANTS
  Handlers = {h1}
  Events = {e1}
  Unreadable = {e1}
  MaxPublished = 1
  BatchSize = 1
  MaxDeliveryCount = 2
  MaxBusFaults = 1
  MaxUnsubscribes = 0
INVARIANT ExhaustedIsDeadLettered
CHECK_DEADLOCK FALSE
