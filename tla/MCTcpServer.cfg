SPECIFICATION FairSpec
CONSTANTS
  listener = listener
  p1 = p1
  p2 = p2
  Channels <- TwoPeers
  Listener = listener
  NoChannel = NoChannel
  SizeModulus = 1000
  ReadSize = 2
  Fds <- ForTwo
  MaxSend = 3
INVARIANT TypeOK
INVARIANT OnlyBytesAbort
INVARIANT TablesAgree
PROPERTY ImplementsPromise
PROPERTY BacklogIsAccepted
PROPERTY AllIsDelivered
PROPERTY CloseIsReported
CHECK_DEADLOCK FALSE
