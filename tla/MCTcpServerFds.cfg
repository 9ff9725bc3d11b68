SPECIFICATION Spec
CONSTANTS
  listener = listener
  p1 = p1
  p2 = p2
  Channels <- TwoPeers
  Listener = listener
  NoChannel = NoChannel
  SizeModulus = 1000
  ReadSize = 2
  Fds <- ForOne
  MaxSend = 1
INVARIANT ExpectedErrorsAreSurvived
CHECK_DEADLOCK FALSE
