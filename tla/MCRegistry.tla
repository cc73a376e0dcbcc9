----------------------------- MODULE MCRegistry ------------------------------
(* Instances of Registry for TLC: two nodes, a few connections.             *)
EXTENDS Registry

CONSTANTS n1, n2, s1, s2, s3

=============================================================================
