------------------------------- MODULE MCWire --------------------------------
(* Instances of Wire for TLC: a few connections of one node, to a peer and  *)
(* to the registry.                                                         *)
EXTENDS Wire, TLC

CONSTANTS c1, c2, b1, a1, n1

MCAckOf == (b1 :> a1)

=============================================================================
