SPECIFICATION SocialSpec
CONSTANTS
  u1 = u1
  u2 = u2
  c1 = c1
  c2 = c2
  c3 = c3
  g1 = g1
  g2 = g2
  Users = {u1, u2}
  Calls = {c1, c2, c3}
  d1 = d1
  d2 = d2
  d3 = d3
  FewCalls = {d1, d2, d3}
  m1 = m1
  m2 = m2
  Members = {m1, m2}
  MaxRequests = 2
  Rooms = {g1, g2}
  Verified = {g1}
  Founder = m1
  p1 = p1
  Phones = {p1}
  Uids = {"u1", "u2"}
  Gids = {"g1"}
  ChatIds = {"k1"}
  Texts = {"t"}
  q1 = q1
  q2 = q2
  Requests = {q1, q2}
  Callers = {"u1"}
  Headers = {2}
  MaxIds = 1
  MaxRows = 3
SYMMETRY Symmetry
INVARIANT TypeOK
INVARIANT DecidedOnce
INVARIANT AcceptedAreFriends
INVARIANT JoinedOnce
INVARIANT RoomsAreComplete
INVARIANT OneUserPerPhone
INVARIANT RpcsAreTyped
INVARIANT SuccessIsTrue
INVARIANT OwnMessage
\* the calls end
CHECK_DEADLOCK FALSE
