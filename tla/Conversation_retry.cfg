SPECIFICATION ChatSpec
CONSTANTS
  u1 = u1
  u2 = u2
  g = g
  p1 = p1
  p2 = p2
  Users = {u1, u2}
  Groups = {g}
  Procs = {p1, p2}
  MaxAttempts = 2
  MaxLogs = 2
  MaxCalls = 7
  Parts = {"conversations"}
  r1 = r1
  r2 = r2
  r3 = r3
  Readers = {r1, r2, r3}
  m1 = m1
  m2 = m2
  GroupLogs = {m1}
  SingleLogs = {m2}
  Hash <- HashOf
  Size = 4
  MaxMarks = 2
  MaxChats = 2
  MaxRepeats = 1
SYMMETRY Symmetry
INVARIANT ReportedOnce
CHECK_DEADLOCK FALSE
