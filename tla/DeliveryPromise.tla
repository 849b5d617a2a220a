---------------------------- MODULE DeliveryPromise ----------------------------
(***************************************************************************)
(* What at-least-once delivery promises, without saying how.  Messages     *)
(* come in units, one unit per business transaction: a unit is accepted    *)
(* as a whole or not at all, only accepted messages are ever delivered,    *)
(* a message may be delivered more than once, and a message is             *)
(* acknowledged (never picked up again) only after it was delivered.       *)
(* The transactional outbox keeps it towards the bus, and the order        *)
(* listener towards the code that processes orders.                        *)
(***************************************************************************)
EXTENDS Naturals

CONSTANTS Messages,     \* every message that could be sent
          Units         \* the message sets that one transaction writes

VARIABLES accepted,     \* messages whose transaction took effect
          delivered,    \* how often each message was delivered
          acked         \* messages the relay will not pick up again

vars == <<accepted, delivered, acked>>

Init == /\ accepted = {}
        /\ delivered = [m \in Messages |-> 0]
        /\ acked = {}

\* A transaction takes effect: all of its messages at once.
Accept(unit) == /\ unit \cap accepted = {}
                /\ accepted' = accepted \cup unit
                /\ UNCHANGED <<delivered, acked>>

\* An accepted message is delivered, perhaps not for the first time.
Deliver(m) == /\ m \in accepted
              /\ delivered' = [delivered EXCEPT ![m] = @ + 1]
              /\ UNCHANGED <<accepted, acked>>

\* Delivered messages are marked as done.
Acknowledge(ms) == /\ \A m \in ms : m \in accepted /\ delivered[m] > 0
                   /\ acked' = acked \cup ms
                   /\ UNCHANGED <<accepted, delivered>>

Next == \/ \E unit \in Units : Accept(unit)
        \/ \E m \in Messages : Deliver(m)
        \/ \E ms \in SUBSET Messages : Acknowledge(ms)

Spec == Init /\ [][Next]_vars
=============================================================================
