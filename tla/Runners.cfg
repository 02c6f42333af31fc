\* The process with a Kafka consumer and a queue that two events fill.
SPECIFICATION FairSpec
CONSTANTS
  Requests = {r1, r2, r3}
  BootEvent = boot
  QueueCap = 2
  Kafka = TRUE
INVARIANTS TypeOK ClosedOnlyByStop
PROPERTIES DeliveryHolds FailureStopsApp AcceptedIsTaken StopEnds
CHECK_DEADLOCK FALSE
