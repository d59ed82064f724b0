SPECIFICATION LateSpec
CONSTANTS
  TX_SIZE = 3
  RX_SIZE = 1
  IOVA_PAGES = 16
  MaxRequests = 7
  MaxSessions = 1
  Prompt = FALSE
  ConsWritable = TRUE
INVARIANTS IndexAgreement SuccessIsGenuine
PROPERTIES ChannelSpec
