------------------------------ MODULE MCSession ------------------------------
(* Instances of Session for TLC: alice knows bob, bob knows nobody.         *)
EXTENDS Session

CONSTANTS alice, bob, s1, default

MCDemo == [n \in Nodes |-> IF n = alice THEN {bob} ELSE {}]

=============================================================================
