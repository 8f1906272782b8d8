CONSTANTS
  Producers = {p1}
  Handlers = {h1}
  MaxHandlers = 2
  Workers = {1, 2}
  BatchSize = 2
  FlushInterval = 1
  MaxQueue = 1
  MaxEvents = 2
  MaxDropped = 1
SPECIFICATION Spec
INVARIANTS
  TypeOK
  Conservation
  ContiguousDelivery
  ExitedHandsOver
PROPERTIES
  Delivery
  EventuallyHandled
  StopTerminates
