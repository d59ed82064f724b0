SPECIFICATION Spec
CONSTANTS
  TX_SIZE = 2
  RX_SIZE = 1
  IOVA_PAGES = 8
  MaxRequests = 9
  MaxSessions = 2
  Prompt = TRUE
  ConsWritable = FALSE
INVARIANTS TypeOK MappedIffHeld RingsBacked NoFault FirstSlotServed
PROPERTIES RequestReturns
