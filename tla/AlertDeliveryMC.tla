--------------------------- MODULE AlertDeliveryMC ---------------------------
(* Small instances of AlertDelivery for TLC. *)
EXTENDS AlertDelivery, TLC

CONSTANTS r1, r2, l1, k1

OneRequest  == {r1}
TwoRequests == {r1, r2}
OneLoop     == {l1}
SameKey     == {k1}
NoKey       == {None}
Delays      == {0, 3}
NoDelay     == {0}

(* The chats of a delivery are those of a plan, here of a payload with a   *)
(* blank text, a resolved alert that is not to be sent, and a warning.     *)
TwoChats == {1, 2}

Planner == INSTANCE AlertPlanner

Groups == [chats |-> {1}, warning |-> {2}, critical |-> {1, 3},
           resolved |-> FALSE, bot |-> TRUE, auth |-> TRUE]

Outage == [text |-> "blank", message |-> "heading", status |-> "firing",
           alerts |-> <<[status |-> "resolved", severity |-> "fatal", says |-> "disk"],
                        [status |-> "absent", severity |-> "warn", says |-> "disk"]>>]

ASSUME PlannedChats == /\ Planner!Response(Groups, TRUE, Outage) = "submitted"
                       /\ DOMAIN Planner!Deliveries(Groups, Outage) = TwoChats
                       /\ Planner!MatchedAlerts(Groups, Outage) = 1

RequestSymmetry == Permutations({r1, r2})
=============================================================================
