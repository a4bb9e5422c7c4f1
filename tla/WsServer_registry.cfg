SPECIFICATION FairSpec
CONSTANTS
  u1 = u1
  u2 = u2
  c1 = c1
  c2 = c2
  c3 = c3
  NoUser = NoUser
  NoConn = NoConn
  Users = {u1, u2}
  Conns = {c1, c2, c3}
  IdleLimit = TRUE
  CloseMayFail = TRUE
INVARIANT TypeOK
INVARIANT MapsAgree
INVARIANT SingleLogin
INVARIANT ServedIsReachable
PROPERTY RemovedIsClosed
PROPERTY Forgotten
\* every connection may have ended, or the process died
CHECK_DEADLOCK FALSE
