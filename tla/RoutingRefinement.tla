-------------------------- MODULE RoutingRefinement --------------------------
(***************************************************************************)
(* Routing against Courier: how far a bundle has come is read off the      *)
(* files of its two ends.                                                  *)
(***************************************************************************)
EXTENDS Routing

Progress ==
  [d \in Data |->
     IF Has(disk[Destination[d]], d)
     THEN IF Has(disk[Source[d]], d) THEN "delivered" ELSE "confirmed"
     ELSE IF Has(disk[Source[d]], d) THEN "held" ELSE "unsent"]

Ends == INSTANCE Courier WITH state <- Progress

(* No order of messages, retries and answers that go missing makes a       *)
(* bundle skip a stage, go back to one, or stop short of the last          *)
(* (route_bundle, handle_incoming_ack, retry_unsynced_bundles).            *)
ImplementsCourier == Ends!FairSpec

=============================================================================
