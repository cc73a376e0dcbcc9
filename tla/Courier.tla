------------------------------- MODULE Courier -------------------------------
(***************************************************************************)
(* What the network of nodes promises to the user who sends a bundle: once *)
(* accepted by its source it is held until it is delivered, it is          *)
(* delivered, and after that, and only then, the source is told and lets   *)
(* go of it.  Each of the four things happens once and in this order.      *)
(***************************************************************************)
CONSTANT Data

VARIABLE
  state      \* state[d]: how far bundle d has come

States == {"unsent", "held", "delivered", "confirmed"}

TypeOK == state \in [Data -> States]

Init == state = [d \in Data |-> "unsent"]

Moves(d, from, to) == state[d] = from /\ state' = [state EXCEPT ![d] = to]

Accept(d) == Moves(d, "unsent", "held")

Deliver(d) == Moves(d, "held", "delivered")

Confirm(d) == Moves(d, "delivered", "confirmed")

Next == \E d \in Data : Accept(d) \/ Deliver(d) \/ Confirm(d)

Spec == Init /\ [][Next]_state

(* Accepting is up to the user; the rest is up to the network.             *)
FairSpec ==
  Spec /\ \A d \in Data : WF_state(Deliver(d)) /\ WF_state(Confirm(d))

=============================================================================
