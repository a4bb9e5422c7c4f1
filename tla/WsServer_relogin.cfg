SPECIFICATION Spec
CONSTANTS
  u1 = u1
  c1 = c1
  c2 = c2
  NoUser = NoUser
  NoConn = NoConn
  Users = {u1}
  Conns = {c1, c2}
  IdleLimit = FALSE
  CloseMayFail = FALSE
INVARIANT SurvivesRelogin
\* every connection may have ended, or the process died
CHECK_DEADLOCK FALSE
