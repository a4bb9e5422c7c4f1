------------------------------- MODULE WsServer -------------------------------
(***************************************************************************)
(* The registry of connections of the IM websocket server: which user is   *)
(* behind a connection (connToUser), which connection is a user's          *)
(* (userToConn), and the goroutines that change them: ServerWs upgrading,  *)
(* authenticating and registering a connection, the read loop and the idle *)
(* timer closing it.                                                       *)
(*                                                                         *)
(* addConn and Close run under the server's mutex, so each is one action.  *)
(* A Go map yields its zero value for a missing key; so the two maps are   *)
(* total functions with NoUser and NoConn for what is missing.             *)
(***************************************************************************)
EXTENDS Naturals

CONSTANTS
  Users,         \* user ids in the tokens
  Conns,         \* the connections that will be opened, each once
  NoUser, NoConn,
  IdleLimit,     \* whether maxConnectionIdle is short enough to pass (it is unlimited by default)
  CloseMayFail   \* whether closing a socket may report an error

ASSUME NoneAssumption == NoUser \notin Users /\ NoConn \notin Conns
ASSUME SwitchAssumption == IdleLimit \in BOOLEAN /\ CloseMayFail \in BOOLEAN

VARIABLES
  connToUser, userToConn,  \* Server's maps
  uid,         \* the user a connection's token names
  pc,          \* per connection: where ServerWs, then handlerConn, is
  connUid,     \* Conn.Uid, under which the handlers send
  done,        \* Conn.done is closed
  open,        \* the socket is open
  idle,        \* Conn.idle is still the time of creation: nothing was read or written
  keepalive,   \* the keepalive goroutine runs
  panicked     \* a panic no goroutine recovers ended the process

maps == <<connToUser, userToConn>>
socket == <<done, open>>
vars == <<connToUser, userToConn, uid, pc, connUid, done, open, idle, keepalive, panicked>>

Init ==
  /\ connToUser = [c \in Conns |-> NoUser]
  /\ userToConn = [u \in Users |-> NoConn]
  /\ uid = [c \in Conns |-> NoUser]
  /\ pc = [c \in Conns |-> "none"]
  /\ connUid = [c \in Conns |-> NoUser]
  /\ done = [c \in Conns |-> FALSE]
  /\ open = [c \in Conns |-> FALSE]
  /\ idle = [c \in Conns |-> TRUE]
  /\ keepalive = [c \in Conns |-> FALSE]
  /\ panicked = FALSE

-----------------------------------------------------------------------------
(* ServerWs *)

(* NewConn: the upgrade, before any authentication; keepalive starts.       *)
Upgrade(c, u) ==
  /\ ~panicked /\ pc[c] = "none"
  /\ pc' = [pc EXCEPT ![c] = "upgraded"]
  /\ uid' = [uid EXCEPT ![c] = u]
  /\ open' = [open EXCEPT ![c] = TRUE]
  /\ keepalive' = [keepalive EXCEPT ![c] = TRUE]
  /\ UNCHANGED <<maps, connUid, done, idle, panicked>>

(* Authentication fails: ServerWs returns; nothing closes the connection.   *)
AuthFail(c) ==
  /\ ~panicked /\ pc[c] = "upgraded"
  /\ pc' = [pc EXCEPT ![c] = "refused"]
  /\ UNCHANGED <<maps, uid, connUid, socket, idle, keepalive, panicked>>

(* Mutant: the entry of connToUser is forgotten.                            *)
RegisterConnOnly(c) ==
  /\ userToConn' = [userToConn EXCEPT ![uid[c]] = c]
  /\ UNCHANGED connToUser
(* Mutant: it is registered under Conn.Uid, which handlerConn sets later:   *)
(* the empty id is then a key of userToConn.                                *)
RegisterUnnamed(c) ==
  /\ connToUser' = [connToUser EXCEPT ![c] = connUid[c]]
  /\ userToConn' = [u \in Users \cup {connUid[c]} |-> IF u = connUid[c] THEN c ELSE userToConn[u]]
Register(c) ==
  /\ connToUser' = [connToUser EXCEPT ![c] = uid[c]]
  /\ userToConn' = [userToConn EXCEPT ![uid[c]] = c]

(* Conn.Close of an open done channel.                                      *)
CloseConn(c) ==
  /\ done' = [done EXCEPT ![c] = TRUE]
  /\ open' = [open EXCEPT ![c] = FALSE]

(* addConn for a user without a connection.                                 *)
AddFirst(c) ==
  /\ ~panicked /\ pc[c] = "upgraded"
  /\ userToConn[uid[c]] = NoConn
  /\ Register(c)
  /\ pc' = [pc EXCEPT ![c] = "starting"]
  /\ UNCHANGED <<uid, connUid, socket, idle, keepalive, panicked>>

(* addConn for a user with a connection: that one is closed first.  An      *)
(* error from its Close leaves the new one unregistered, yet ServerWs goes  *)
(* on to serve it.                                                          *)
(* Mutant: the old connection is replaced in the registry but not closed.   *)
AddBeside(c, err) ==
  /\ ~panicked /\ pc[c] = "upgraded" /\ ~err
  /\ userToConn[uid[c]] # NoConn
  /\ Register(c)
  /\ pc' = [pc EXCEPT ![c] = "starting"]
  /\ UNCHANGED <<uid, connUid, socket, idle, keepalive, panicked>>
AddReplacing(c, err) ==
  LET old == userToConn[uid[c]]
  IN /\ ~panicked /\ pc[c] = "upgraded"
     /\ old # NoConn /\ ~done[old]
     /\ err => CloseMayFail
     /\ CloseConn(old)
     /\ IF err THEN UNCHANGED maps ELSE Register(c)
     /\ pc' = [pc EXCEPT ![c] = "starting"]
     /\ UNCHANGED <<uid, connUid, idle, keepalive, panicked>>

(* addConn when the registered connection's done is already closed: the     *)
(* second close panics, ServerWs recovers, and the new connection is        *)
(* neither registered nor served.                                           *)
AddPanics(c) ==
  LET old == userToConn[uid[c]]
  IN /\ ~panicked /\ pc[c] = "upgraded"
     /\ old # NoConn /\ done[old]
     /\ pc' = [pc EXCEPT ![c] = "abandoned"]
     /\ UNCHANGED <<maps, uid, connUid, socket, idle, keepalive, panicked>>

-----------------------------------------------------------------------------
(* handlerConn *)

(* conn.Uid = s.GetUser(conn), then the other goroutines are started.       *)
Start(c) ==
  /\ ~panicked /\ pc[c] = "starting"
  /\ connUid' = [connUid EXCEPT ![c] = connToUser[c]]
  /\ pc' = [pc EXCEPT ![c] = "reading"]
  /\ UNCHANGED <<maps, uid, socket, idle, keepalive, panicked>>

(* A frame is read and passed on.                                           *)
ReadFrame(c) ==
  /\ ~panicked /\ pc[c] = "reading" /\ open[c]
  /\ idle' = [idle EXCEPT ![c] = FALSE]
  /\ UNCHANGED <<maps, uid, pc, connUid, socket, keepalive, panicked>>

(* handlerWrite has left after done was closed, the buffer of conn.message  *)
(* is full, and a frame read before blocks the loop for good.               *)
Block(c) ==
  /\ ~panicked /\ pc[c] = "reading" /\ done[c] /\ ~idle[c]
  /\ pc' = [pc EXCEPT ![c] = "blocked"]
  /\ UNCHANGED <<maps, uid, connUid, socket, idle, keepalive, panicked>>

(* The peer goes away.                                                      *)
PeerGone(c) ==
  /\ ~panicked /\ open[c]
  /\ open' = [open EXCEPT ![c] = FALSE]
  /\ UNCHANGED <<maps, uid, pc, connUid, done, idle, keepalive, panicked>>

(* ReadMessage returns an error (it resets idle all the same).              *)
ReadError(c) ==
  /\ ~panicked /\ pc[c] = "reading" /\ ~open[c]
  /\ pc' = [pc EXCEPT ![c] = "closing"]
  /\ idle' = [idle EXCEPT ![c] = FALSE]
  /\ UNCHANGED <<maps, uid, connUid, socket, keepalive, panicked>>

(* Server.Close: nothing for a connection that is not registered; else both *)
(* entries go, userToConn's whatever connection it names, and the           *)
(* connection is closed.  Closing a closed channel panics, and the caller   *)
(* is a goroutine that does not recover.                                    *)
(* Mutants: a connection that is closed already is removed all the same,    *)
(* without the panic; the connection is removed and not closed.             *)
ServerCloseTwice(c) ==
  IF connToUser[c] = NoUser
  THEN UNCHANGED <<maps, socket, panicked>>
  ELSE /\ connToUser' = [connToUser EXCEPT ![c] = NoUser]
       /\ userToConn' = [userToConn EXCEPT ![connToUser[c]] = NoConn]
       /\ CloseConn(c)
       /\ UNCHANGED panicked
ServerForget(c) ==
  /\ connToUser[c] # NoUser
  /\ connToUser' = [connToUser EXCEPT ![c] = NoUser]
  /\ userToConn' = [userToConn EXCEPT ![connToUser[c]] = NoConn]
  /\ UNCHANGED <<socket, panicked>>
ServerClose(c) ==
  IF connToUser[c] = NoUser
  THEN UNCHANGED <<maps, socket, panicked>>
  ELSE /\ connToUser' = [connToUser EXCEPT ![c] = NoUser]
       /\ userToConn' = [userToConn EXCEPT ![connToUser[c]] = NoConn]
       /\ IF done[c] THEN panicked' = TRUE /\ UNCHANGED socket
          ELSE CloseConn(c) /\ UNCHANGED panicked

(* The read loop closes the connection and returns.                         *)
(* Mutant: only the connection is closed, not its entries.                  *)
ReaderCloseConn(c) ==
  /\ ~panicked /\ pc[c] = "closing" /\ ~done[c]
  /\ CloseConn(c)
  /\ pc' = [pc EXCEPT ![c] = "exit"]
  /\ UNCHANGED <<maps, uid, connUid, idle, keepalive, panicked>>
ReaderClose(c) ==
  /\ ~panicked /\ pc[c] = "closing"
  /\ ServerClose(c)
  /\ pc' = [pc EXCEPT ![c] = "exit"]
  /\ UNCHANGED <<uid, connUid, idle, keepalive>>

-----------------------------------------------------------------------------
(* keepalive *)

(* The timer finds the connection untouched since its creation.             *)
KeepaliveClose(c) ==
  /\ ~panicked /\ IdleLimit /\ keepalive[c] /\ idle[c]
  /\ ServerClose(c)
  /\ keepalive' = [keepalive EXCEPT ![c] = FALSE]
  /\ UNCHANGED <<uid, pc, connUid, idle>>

KeepaliveDone(c) ==
  /\ ~panicked /\ keepalive[c] /\ done[c]
  /\ keepalive' = [keepalive EXCEPT ![c] = FALSE]
  /\ UNCHANGED <<maps, uid, pc, connUid, socket, idle, panicked>>

-----------------------------------------------------------------------------
ServerWs(c) ==
  \/ AuthFail(c) \/ AddFirst(c) \/ AddPanics(c)
  \/ \E err \in BOOLEAN : AddReplacing(c, err)

HandlerConn(c) == Start(c) \/ ReadError(c) \/ ReaderClose(c)

Client(c) == (\E u \in Users : Upgrade(c, u)) \/ ReadFrame(c) \/ PeerGone(c)

Next == \E c \in Conns : \/ Client(c) \/ ServerWs(c) \/ HandlerConn(c) \/ Block(c)
                         \/ KeepaliveClose(c) \/ KeepaliveDone(c)

Spec == Init /\ [][Next]_vars

(* The server's goroutines run; clients connect, send and leave as they     *)
(* like, and a timer need not pass.                                         *)
Fairness == \A c \in Conns : /\ WF_vars(ServerWs(c))
                             /\ WF_vars(HandlerConn(c))
                             /\ WF_vars(KeepaliveDone(c))

FairSpec == Spec /\ Fairness

-----------------------------------------------------------------------------
(* Properties *)

(* TypeOK: the variables keep their shape.                                  *)
TypeOK ==
  /\ connToUser \in [Conns -> Users \cup {NoUser}]
  /\ userToConn \in [Users -> Conns \cup {NoConn}]
  /\ uid \in [Conns -> Users \cup {NoUser}]
  /\ pc \in [Conns -> {"none", "upgraded", "refused", "abandoned", "starting",
                       "reading", "blocked", "closing", "exit"}]
  /\ connUid \in [Conns -> Users \cup {NoUser}]
  /\ done \in [Conns -> BOOLEAN] /\ open \in [Conns -> BOOLEAN]
  /\ idle \in [Conns -> BOOLEAN] /\ keepalive \in [Conns -> BOOLEAN]
  /\ panicked \in BOOLEAN

(* MapsAgree: GetConn(u) answers with a connection that GetUser says is u's *)
(* and that u's token opened, in every interleaving of logins, failing      *)
(* reads and idle timers: nobody is sent another user's messages.           *)
MapsAgree ==
  \A u \in Users : userToConn[u] # NoConn =>
    connToUser[userToConn[u]] = u /\ uid[userToConn[u]] = u

(* SingleLogin: a user never has two registered connections that have not   *)
(* been told to stop (im-chat-dataflow.md 6.5).                             *)
SingleLogin ==
  \A c, d \in Conns :
    /\ connToUser[c] # NoUser /\ connToUser[c] = connToUser[d]
    /\ ~done[c] /\ ~done[d]
    => c = d

(* ServedIsReachable: a connection that is being read and has not been told *)
(* to stop is the one GetConn returns for its user, so pushes reach it, and *)
(* its handlers send under that user's name.  Only closing the socket of    *)
(* the connection before may fail, and then the new one is read without     *)
(* being registered (server.go:120-123).                                    *)
ServedIsReachable ==
  \A c \in Conns :
    pc[c] = "reading" /\ ~done[c] /\ ~panicked /\ (CloseMayFail => connToUser[c] # NoUser)
      => userToConn[uid[c]] = c /\ connUid[c] = uid[c]

(* RemovedIsClosed: whoever takes a connection out of the registry has its  *)
(* goroutines told to stop, in the same step: no connection is read and     *)
(* served that the registry has forgotten.                                  *)
RemovedIsClosed ==
  [][\A c \in Conns :
       connToUser[c] # NoUser /\ connToUser'[c] = NoUser => done'[c]]_vars

(* Forgotten: when the peer of a registered connection is gone, the         *)
(* connection leaves the registry, or the process has died; the loop may    *)
(* also be blocked for good after a newer login closed the connection.      *)
Forgotten ==
  \A c \in Conns :
    connToUser[c] # NoUser /\ ~open[c]
      ~> connToUser[c] = NoUser \/ panicked \/ pc[c] = "blocked"

-----------------------------------------------------------------------------
(* What documents say of this code, and the code does not do.               *)

(* SurvivesRelogin: "a new login of the same user closes the old connection *)
(* automatically" (im-chat-dataflow.md:515); the server goes on.            *)
SurvivesRelogin == ~panicked

=============================================================================
