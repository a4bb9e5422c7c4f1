---------------------------- MODULE WsServer_proof ----------------------------
(***************************************************************************)
(* Proofs about WsServer, for any set of users and connections: types, the *)
(* two maps agree, and a user has one live registered connection.          *)
(***************************************************************************)
EXTENDS WsServer, TLAPS

(* TypeCorrect: the variables keep their shape.                             *)
THEOREM TypeCorrect == Spec => []TypeOK
<1> USE NoneAssumption, SwitchAssumption
<1>1. Init => TypeOK
  BY DEF Init, TypeOK
<1>2. TypeOK /\ [Next]_vars => TypeOK'
  <2> SUFFICES ASSUME TypeOK, [Next]_vars PROVE TypeOK'
    OBVIOUS
  <2> USE DEF TypeOK, maps, socket
  <2>1. ASSUME NEW c \in Conns, NEW u \in Users, Upgrade(c, u) PROVE TypeOK'
    BY <2>1 DEF Upgrade
  <2>2. ASSUME NEW c \in Conns, ReadFrame(c) \/ PeerGone(c) \/ AuthFail(c) PROVE TypeOK'
    BY <2>2 DEF ReadFrame, PeerGone, AuthFail
  <2>3. ASSUME NEW c \in Conns, AddFirst(c) \/ AddPanics(c) PROVE TypeOK'
    BY <2>3 DEF AddFirst, AddPanics, Register
  <2>4. ASSUME NEW c \in Conns, NEW err \in BOOLEAN, AddReplacing(c, err) PROVE TypeOK'
    BY <2>4 DEF AddReplacing, Register, CloseConn
  <2>5. ASSUME NEW c \in Conns, Start(c) \/ ReadError(c) \/ Block(c) PROVE TypeOK'
    BY <2>5 DEF Start, ReadError, Block
  <2>6. ASSUME NEW c \in Conns, ReaderClose(c) PROVE TypeOK'
    BY <2>6 DEF ReaderClose, ServerClose, CloseConn
  <2>7. ASSUME NEW c \in Conns, KeepaliveClose(c) \/ KeepaliveDone(c) PROVE TypeOK'
    BY <2>7 DEF KeepaliveClose, KeepaliveDone, ServerClose, CloseConn
  <2>8. CASE UNCHANGED vars
    BY <2>8 DEF vars
  <2> QED
    BY <2>1, <2>2, <2>3, <2>4, <2>5, <2>6, <2>7, <2>8
    DEF Next, Client, ServerWs, HandlerConn
<1> QED
  BY <1>1, <1>2, PTL DEF Spec

-----------------------------------------------------------------------------
(* A connection that exists has a user; a registered one was upgraded   *)
(* and authenticated, is registered for the user of its token, and is the   *)
(* user's unless it has been told to stop.                                  *)
Named == \A c \in Conns : pc[c] # "none" => uid[c] \in Users
Registered ==
  \A c \in Conns : connToUser[c] # NoUser =>
    /\ pc[c] \notin {"none", "upgraded"}
    /\ connToUser[c] = uid[c]
Live ==
  ~panicked => \A c \in Conns :
    connToUser[c] # NoUser /\ ~done[c] => userToConn[connToUser[c]] = c

RegInv == Named /\ Registered /\ MapsAgree /\ Live /\ SingleLogin

(* Live says more than SingleLogin; after a panic SingleLogin is all that   *)
(* remains, and nothing moves.                                              *)
LEMMA LiveIsSingle ==
  ASSUME ~panicked, Live PROVE SingleLogin
BY DEF Live, SingleLogin

(* addConn: the new connection is entered; whatever the user had before has *)
(* been told to stop.                                                       *)
LEMMA RegisterKeeps ==
  ASSUME NEW c \in Conns, TypeOK, RegInv, ~panicked,
         pc[c] = "upgraded", uid[c] \in Users, Register(c),
         pc' = [pc EXCEPT ![c] = "starting"], uid' = uid, panicked' = panicked,
         done' \in [Conns -> BOOLEAN], \A d \in Conns : done[d] => done'[d],
         \A d \in Conns : connToUser[d] = uid[c] => done'[d]
  PROVE  RegInv'
<1> USE NoneAssumption DEF RegInv, TypeOK, Register
<1>1. Named' /\ Registered'
  BY DEF Named, Registered
<1>2. MapsAgree'
  <2> SUFFICES ASSUME NEW u \in Users, userToConn'[u] # NoConn
               PROVE  connToUser'[userToConn'[u]] = u /\ uid'[userToConn'[u]] = u
    BY DEF MapsAgree
  <2>1. CASE u = uid[c]
    BY <2>1
  <2>2. CASE u # uid[c]
    BY <2>2 DEF MapsAgree
  <2> QED
    BY <2>1, <2>2
<1>3. Live'
  <2> SUFFICES ASSUME NEW d \in Conns, connToUser'[d] # NoUser, ~done'[d]
               PROVE  userToConn'[connToUser'[d]] = d
    BY DEF Live
  <2>1. CASE d = c
    BY <2>1
  <2>2. CASE d # c
    BY <2>2 DEF Live
  <2> QED
    BY <2>1, <2>2
<1>4. SingleLogin'
  BY <1>3, LiveIsSingle DEF Live, SingleLogin
<1> QED
  BY <1>1, <1>2, <1>3, <1>4

(* Server.Close removes the connection and the user's entry; the user has   *)
(* another connection that lives only if this one had been told to stop,    *)
(* and then the process dies.                                               *)
LEMMA CloseKeeps ==
  ASSUME NEW c \in Conns, TypeOK, RegInv, ~panicked, ServerClose(c), uid' = uid,
         \A d \in Conns : pc[d] = "none" => pc'[d] = "none",
         \A d \in Conns : pc[d] \notin {"none", "upgraded"} => pc'[d] \notin {"none", "upgraded"}
  PROVE  RegInv'
<1> USE NoneAssumption DEF RegInv, TypeOK, ServerClose, CloseConn, maps, socket
<1>1. Named' /\ Registered'
  BY DEF Named, Registered
<1>2. MapsAgree'
  <2>1. CASE connToUser[c] = NoUser
    BY <2>1 DEF MapsAgree
  <2>2. CASE connToUser[c] # NoUser
    BY <2>2 DEF MapsAgree
  <2> QED
    BY <2>1, <2>2
<1>3. Live'
  BY DEF Live
<1>4. SingleLogin'
  BY DEF SingleLogin
<1> QED
  BY <1>1, <1>2, <1>3, <1>4

(* The other steps change neither map, close nothing and panic never.       *)
LEMMA RegFrame ==
  ASSUME RegInv, UNCHANGED <<connToUser, userToConn, done, panicked, uid>>,
         \A d \in Conns : pc[d] = "none" => pc'[d] = "none",
         \A d \in Conns : pc[d] \notin {"none", "upgraded"} => pc'[d] \notin {"none", "upgraded"}
  PROVE  RegInv'
BY DEF RegInv, Named, Registered, MapsAgree, Live, SingleLogin

LEMMA RegInvariant == Spec => []RegInv
<1> USE NoneAssumption, SwitchAssumption
<1>1. Init => RegInv
  BY DEF Init, RegInv, Named, Registered, MapsAgree, Live, SingleLogin
<1>2. TypeOK /\ RegInv /\ [Next]_vars => RegInv'
  <2> SUFFICES ASSUME TypeOK, RegInv, [Next]_vars PROVE RegInv'
    OBVIOUS
  <2>1. ASSUME NEW c \in Conns, NEW u \in Users, Upgrade(c, u) PROVE RegInv'
    BY <2>1 DEF Upgrade, TypeOK, maps, RegInv, Named, Registered, MapsAgree, Live, SingleLogin
  <2>2. ASSUME NEW c \in Conns, ReadFrame(c) \/ PeerGone(c) \/ AuthFail(c) \/ AddPanics(c)
        PROVE RegInv'
    BY <2>2, RegFrame DEF TypeOK, ReadFrame, PeerGone, AuthFail, AddPanics, maps, socket
  <2>3. ASSUME NEW c \in Conns, AddFirst(c) PROVE RegInv'
    <3>1. uid[c] \in Users
      BY <2>3 DEF AddFirst, RegInv, Named
    <3>2. \A d \in Conns : connToUser[d] = uid[c] => done[d]
      BY <2>3, <3>1 DEF AddFirst, RegInv, Live, TypeOK
    <3> QED
      BY <2>3, <3>1, <3>2, RegisterKeeps DEF AddFirst, socket, TypeOK
  <2>4. ASSUME NEW c \in Conns, NEW err \in BOOLEAN, AddReplacing(c, err) PROVE RegInv'
    <3> DEFINE old == userToConn[uid[c]]
    <3>1. uid[c] \in Users /\ old \in Conns /\ old # c
      BY <2>4 DEF AddReplacing, RegInv, Named, MapsAgree, Registered, TypeOK
    <3>2. \A d \in Conns : done'[d] <=> d = old \/ done[d]
      BY <2>4, <3>1 DEF AddReplacing, CloseConn, TypeOK
    <3>3. done' \in [Conns -> BOOLEAN]
      BY <2>4, <3>1 DEF AddReplacing, CloseConn, TypeOK
    <3>4. CASE err
      BY <2>4, <3>1, <3>2, <3>4
      DEF AddReplacing, maps, TypeOK, RegInv, Named, Registered, MapsAgree, Live, SingleLogin
    <3>5. CASE ~err
      <4>1. \A d \in Conns : connToUser[d] = uid[c] => done'[d]
        BY <2>4, <3>1, <3>2 DEF AddReplacing, RegInv, Live
      <4> QED
        BY <2>4, <3>1, <3>2, <3>3, <3>5, <4>1, RegisterKeeps DEF AddReplacing
    <3> QED
      BY <3>4, <3>5
  <2>5. ASSUME NEW c \in Conns, Start(c) \/ ReadError(c) \/ Block(c) \/ KeepaliveDone(c)
        PROVE RegInv'
    BY <2>5, RegFrame DEF TypeOK, Start, ReadError, Block, KeepaliveDone, maps, socket
  <2>6. ASSUME NEW c \in Conns, ReaderClose(c) PROVE RegInv'
    BY <2>6, CloseKeeps DEF ReaderClose, TypeOK
  <2>7. ASSUME NEW c \in Conns, KeepaliveClose(c) PROVE RegInv'
    BY <2>7, CloseKeeps DEF KeepaliveClose, TypeOK
  <2>8. CASE UNCHANGED vars
    BY <2>8, RegFrame DEF vars
  <2> QED
    BY <2>1, <2>2, <2>3, <2>4, <2>5, <2>6, <2>7, <2>8
    DEF Next, Client, ServerWs, HandlerConn
<1> QED
  BY <1>1, <1>2, TypeCorrect, PTL DEF Spec

(* MapsStayConsistent: GetConn never answers with a connection of another   *)
(* user (server.go:110-128, 363-375, 414-431).                              *)
THEOREM MapsStayConsistent == Spec => []MapsAgree
BY RegInvariant, PTL DEF RegInv

(* OneLogin: a user never has two live registered connections.              *)
THEOREM OneLogin == Spec => []SingleLogin
BY RegInvariant, PTL DEF RegInv
-----------------------------------------------------------------------------
(* While the process lives, a connection between addConn and its end that   *)
(* has not been told to stop is registered, unless closing another failed,  *)
(* and the handlers of a registered one send under the right name.          *)
Served ==
  ~panicked => \A c \in Conns : ~done[c] =>
    /\ ~CloseMayFail /\ pc[c] \in {"starting", "reading", "blocked", "closing"}
         => connToUser[c] = uid[c]
    /\ connToUser[c] # NoUser /\ pc[c] \in {"reading", "blocked", "closing"}
         => connUid[c] = uid[c]

(* PushesReachTheReader: GetConn answers with the connection that is being  *)
(* read and has not been told to stop, if it is registered, which it is     *)
(* when closing a socket reports no error (server.go:119-128, 131-133,      *)
(* 414-431).                                                                *)
THEOREM PushesReachTheReader == Spec => []ServedIsReachable
<1> USE NoneAssumption, SwitchAssumption
<1>1. Init => Served
  BY DEF Init, Served
<1>2. TypeOK /\ RegInv /\ Served /\ [Next]_vars => Served'
  <2> SUFFICES ASSUME TypeOK, RegInv, Served, [Next]_vars PROVE Served'
    OBVIOUS
  <2> USE DEF TypeOK, maps, socket
  <2>1. ASSUME NEW c \in Conns, NEW u \in Users, Upgrade(c, u) PROVE Served'
    BY <2>1 DEF Upgrade, Served
  <2>2. ASSUME NEW c \in Conns, ReadFrame(c) \/ PeerGone(c) \/ AuthFail(c) \/ AddPanics(c)
        PROVE Served'
    BY <2>2 DEF ReadFrame, PeerGone, AuthFail, AddPanics, Served
  <2>3. ASSUME NEW c \in Conns, AddFirst(c) PROVE Served'
    BY <2>3 DEF AddFirst, Register, Served
  <2>4. ASSUME NEW c \in Conns, NEW err \in BOOLEAN, AddReplacing(c, err) PROVE Served'
    <3>1. uid[c] \in Users /\ userToConn[uid[c]] \in Conns
      BY <2>4 DEF AddReplacing, RegInv, Named
    <3>2. CASE err
      BY <2>4, <3>1, <3>2 DEF AddReplacing, CloseConn, Served
    <3>3. CASE ~err
      BY <2>4, <3>1, <3>3 DEF AddReplacing, Register, CloseConn, Served
    <3> QED
      BY <3>2, <3>3
  <2>5. ASSUME NEW c \in Conns, Start(c) PROVE Served'
    BY <2>5 DEF Start, Served, RegInv, Registered
  <2>6. ASSUME NEW c \in Conns, ReadError(c) \/ Block(c) \/ KeepaliveDone(c) PROVE Served'
    BY <2>6 DEF ReadError, Block, KeepaliveDone, Served
  <2>7. ASSUME NEW c \in Conns, ReaderClose(c) \/ KeepaliveClose(c) PROVE Served'
    <3>1. CASE connToUser[c] = NoUser
      BY <2>7, <3>1 DEF ReaderClose, KeepaliveClose, ServerClose, Served
    <3>2. CASE connToUser[c] # NoUser /\ done[c]
      BY <2>7, <3>2 DEF ReaderClose, KeepaliveClose, ServerClose, Served
    <3>3. CASE connToUser[c] # NoUser /\ ~done[c]
      BY <2>7, <3>3 DEF ReaderClose, KeepaliveClose, ServerClose, CloseConn, Served
    <3> QED
      BY <3>1, <3>2, <3>3
  <2>8. CASE UNCHANGED vars
    BY <2>8 DEF vars, Served
  <2> QED
    BY <2>1, <2>2, <2>3, <2>4, <2>5, <2>6, <2>7, <2>8
    DEF Next, Client, ServerWs, HandlerConn
<1>3. TypeOK /\ RegInv /\ Served => ServedIsReachable
  <2> SUFFICES ASSUME TypeOK, RegInv, Served, ~panicked,
                      NEW c \in Conns, pc[c] = "reading", ~done[c],
                      CloseMayFail => connToUser[c] # NoUser
               PROVE  userToConn[uid[c]] = c /\ connUid[c] = uid[c]
    BY DEF ServedIsReachable
  <2>1. connToUser[c] = uid[c] /\ uid[c] \in Users /\ connUid[c] = uid[c]
    BY DEF Served, RegInv, Named, Registered
  <2> QED
    BY <2>1 DEF RegInv, Live
<1> QED
  BY <1>1, <1>2, <1>3, TypeCorrect, RegInvariant, PTL DEF Spec

-----------------------------------------------------------------------------
(* RemovedAreClosed: whoever takes a connection out of the registry has its *)
(* goroutines told to stop, in the same step.  Only Server.Close empties an *)
(* entry; it closes the connection unless it finds done closed already, and *)
(* what addConn enters is a user, since ServerWs authenticated it.          *)
THEOREM RemovedAreClosed == Spec => RemovedIsClosed
<1> DEFINE Told == \A c \in Conns : connToUser[c] # NoUser /\ connToUser'[c] = NoUser => done'[c]
<1>1. TypeOK /\ RegInv /\ [Next]_vars => [Told]_vars
  <2> SUFFICES ASSUME TypeOK, RegInv, Next PROVE Told
    BY DEF vars
  <2> USE NoneAssumption DEF TypeOK, maps, socket
  <2>1. ASSUME NEW c \in Conns, ServerClose(c) PROVE Told
    BY <2>1 DEF ServerClose, CloseConn
  <2>2. ASSUME NEW c \in Conns, pc[c] = "upgraded", Register(c) PROVE Told
    <3>1. uid[c] \in Users
      BY <2>2 DEF RegInv, Named
    <3> QED
      BY <2>2, <3>1 DEF Register
  <2>3. ASSUME UNCHANGED connToUser PROVE Told
    BY <2>3
  <2>4. ASSUME NEW c \in Conns, ReaderClose(c) \/ KeepaliveClose(c) PROVE Told
    BY <2>1, <2>4 DEF ReaderClose, KeepaliveClose
  <2>5. ASSUME NEW c \in Conns, AddFirst(c) \/ AddPanics(c) PROVE Told
    BY <2>2, <2>3, <2>5 DEF AddFirst, AddPanics
  <2>6. ASSUME NEW c \in Conns, NEW err \in BOOLEAN, AddReplacing(c, err) PROVE Told
    BY <2>2, <2>3, <2>6 DEF AddReplacing
  <2>7. ASSUME NEW c \in Conns, Client(c) \/ AuthFail(c) \/ Start(c) \/ ReadError(c)
                                \/ Block(c) \/ KeepaliveDone(c)
        PROVE Told
    BY <2>3, <2>7 DEF Client, Upgrade, ReadFrame, PeerGone, AuthFail, Start, ReadError,
                      Block, KeepaliveDone
  <2> QED
    BY <2>4, <2>5, <2>6, <2>7 DEF Next, ServerWs, HandlerConn
<1>2. RemovedIsClosed <=> [][Told]_vars
  BY PTL DEF RemovedIsClosed
<1> QED
  BY <1>1, <1>2, TypeCorrect, RegInvariant, PTL DEF Spec

=============================================================================
