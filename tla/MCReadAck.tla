------------------------------ MODULE MCReadAck ------------------------------
(* ReadAck for TLC: ids are interchangeable.                                *)
EXTENDS ReadAck, TLC

Symmetry == Permutations(Ids)
=============================================================================
