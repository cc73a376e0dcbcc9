------------------------------ MODULE MCRouting ------------------------------
(* Instances of Routing for TLC: alice sends to carol, with bob in between. *)
EXTENDS RoutingRefinement, TLC

CONSTANTS alice, bob, carol, d1, a1, a2

MCAckOf == [a \in AckIds |-> d1]
MCSource == [d \in Data |-> alice]
MCDestination == [d \in Data |-> carol]

(* Both ACK ids stand for a fresh uuid: they are interchangeable.          *)
AckSymmetry == Permutations(AckIds)

(* Neighbours know each other.                                             *)
Line == [n \in Nodes |-> IF n = bob THEN {alice, carol} ELSE {bob}]

(* Everybody knows everybody.                                              *)
Mesh == [n \in Nodes |-> Nodes \ {n}]

=============================================================================
