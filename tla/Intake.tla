------------------------------- MODULE Intake -------------------------------
(***************************************************************************)
(* What the intake of the hub promises, without queue, worker or retry:    *)
(* webhook bodies are stored, a stored body may create the order it names, *)
(* an order is created at most once, it is announced to the dashboards at  *)
(* most once and only after it was created, and a body is settled (its     *)
(* processing reported as a success) only when its order exists.           *)
(***************************************************************************)
EXTENDS Integers

CONSTANTS
    Events,      \* webhook bodies, one WebhookDelivery row each
    Keys,        \* business orders: (provider, externalId)
    KeyOf,       \* the business order that a body names
    Unreadable,  \* bodies that no adapter turns into an order
    None

VARIABLES
    stored,      \* bodies that have a WebhookDelivery row
    orders,      \* business order -> the body that created it, or None
    announced,   \* business order -> number of order.created messages
    settled      \* bodies whose processing was reported as a success

ivars == <<stored, orders, announced, settled>>

Init ==
    /\ stored = {}
    /\ orders = [k \in Keys |-> None]
    /\ announced = [k \in Keys |-> 0]
    /\ settled = {}

Store(e) ==
    /\ e \notin stored
    /\ stored' = stored \cup {e}
    /\ UNCHANGED <<orders, announced, settled>>

CreateOrder(e) ==
    /\ e \in stored \ Unreadable
    /\ orders[KeyOf[e]] = None
    /\ orders' = [orders EXCEPT ![KeyOf[e]] = e]
    /\ UNCHANGED <<stored, announced, settled>>

Announce(k) ==
    /\ orders[k] # None
    /\ announced[k] = 0
    /\ announced' = [announced EXCEPT ![k] = 1]
    /\ UNCHANGED <<stored, orders, settled>>

Settle(e) ==
    /\ e \in stored \ settled
    /\ orders[KeyOf[e]] # None
    /\ settled' = settled \cup {e}
    /\ UNCHANGED <<stored, orders, announced>>

Next ==
    \/ \E e \in Events : Store(e) \/ CreateOrder(e) \/ Settle(e)
    \/ \E k \in Keys : Announce(k)

Spec == Init /\ [][Next]_ivars
=============================================================================
