SPECIFICATION ClientSpec
CONSTANTS
  Channels = {c1, c2, c3, c4}
  NoChannel = NoChannel
  Fds = {0, 3, 4}
SYMMETRY Symmetry
INVARIANT ClientTypeOK
INVARIANT NoAssertFails
INVARIANT PollReports
PROPERTY OthersKeepTheirEntry
