SPECIFICATION FairSpec
CONSTANTS
  a = a
  b = b
  Ids = {a, b}
  AckModes = {"NoAck", "OnlyAck", "RigorAck"}
  DataSeqs = {0, 1}
  AckSeqs = {1, 2}
  MaxFrames = 3
INVARIANT TypeOK
INVARIANT AckRecorded
INVARIANT OneCopyPerId
INVARIANT AckedBeforeHandled
INVARIANT ConfirmedBeforeHandled
PROPERTY InboxSpec
PROPERTY DirectSpec
PROPERTY EventuallySettled
\* a closed connection stops
CHECK_DEADLOCK FALSE
