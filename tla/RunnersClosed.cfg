\* A request that is still being served when Data.Stop closes the queue.
SPECIFICATION Spec
CONSTANTS
  Requests = {r1}
  BootEvent = boot
  QueueCap = 2
  Kafka = FALSE
INVARIANTS ClosedIsRefused
CHECK_DEADLOCK FALSE
