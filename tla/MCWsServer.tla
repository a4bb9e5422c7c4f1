------------------------------ MODULE MCWsServer ------------------------------
(* WsServer for TLC: users and connections are interchangeable.             *)
EXTENDS WsServer, TLC

Symmetry == Permutations(Users) \cup Permutations(Conns)
=============================================================================
