SPECIFICATION TaskSpec
CONSTANTS
  p1 = p1
  p2 = p2
  c1 = c1
  NoConv = NoConv
  Procs = {p1, p2}
  Convs = {c1}
  DelayCount = 2
  MaxJobs = 2
  Parts = {"groups", "jobs"}
  j1 = j1
  j2 = j2
  RetriedJobs = {j1, j2}
  retryNums = 3
INVARIANT TypeOK
INVARIANT InOnePlace
INVARIANT OrphansAreEmpty
INVARIANT AnswersAreTrue
PROPERTY NothingLost
PROPERTY EventuallyForwarded
\* a crashed process, and one with nothing left to consume, stop
CHECK_DEADLOCK FALSE
