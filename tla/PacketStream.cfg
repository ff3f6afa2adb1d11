SPECIFICATION Spec
CONSTANTS
  LengthBase = 8
  SizeModulus = 4096
  WriteBufSize = 40
  ReadBufSize = 40
  Incoming <- MCIncoming
  Requests <- MCRequests
  Payload = {0, 6, 12}
  ExpectedCodes = 1
  MaxUnread = 2
INVARIANTS WriterFits BrokerInStep TopicsMatch
PROPERTIES ImplementsChannel
