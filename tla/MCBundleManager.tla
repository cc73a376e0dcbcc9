--------------------------- MODULE MCBundleManager ---------------------------
(* Instances of BundleManager for TLC: one node, two DATA bundles whose ends*)
(* are any two nodes; two different ACK ids acknowledge one of them.        *)
EXTENDS BundleManager

CONSTANTS n1, n2, n3, t1, d1, d2, a1, a2, b1

MCAckOf == [a \in AckIds |-> IF a = b1 THEN d2 ELSE d1]

MCHome == [t \in Threads |-> n1]

=============================================================================
