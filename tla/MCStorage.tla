------------------------------ MODULE MCStorage ------------------------------
(* Instances of Storage for TLC: one node, a DATA bundle or two with their  *)
(* ACKs, and one or two threads that may make any call.                     *)
EXTENDS StorageRefinement

CONSTANTS n1, t1, t2, d1, d2, a1, a2

MCAckOf == [a \in AckIds |-> IF a = a1 THEN d1 ELSE d2]

MCHome == [t \in Threads |-> n1]

=============================================================================
