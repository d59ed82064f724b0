SPECIFICATION Spec
CONSTANTS
  TX_SIZE = 2
  RX_SIZE = 1
  IOVA_PAGES = 16
  MaxRequests = 3
  MaxSessions = 1
  Prompt = TRUE
  ConsWritable = FALSE
INVARIANTS EveryRequestServed
