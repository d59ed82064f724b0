SPECIFICATION Spec
CONSTANTS
  TX_SIZE = 16
  RX_SIZE = 16
  IOVA_PAGES = 256
  MaxRequests = 225
  MaxSessions = 1
  Prompt = TRUE
  ConsWritable = FALSE
INVARIANTS FlagMeansTransmitted
