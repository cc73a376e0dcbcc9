------------------------------ MODULE MCExpiry -------------------------------
(* Instances of Expiry for TLC: sender, relay and destination.              *)
EXTENDS Expiry

CONSTANTS alice, bob, carol

(* Two neighbours of bob, and everybody with everybody.                     *)
Line == {<<alice, bob>>, <<bob, alice>>, <<bob, carol>>, <<carol, bob>>}
Mesh == {alice, bob, carol} \X {alice, bob, carol}

=============================================================================
