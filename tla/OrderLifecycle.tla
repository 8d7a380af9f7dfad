--------------------------- MODULE OrderLifecycle ---------------------------
(***************************************************************************)
(* The lifecycle of an order: the table that packages/shared gives to the  *)
(* API, which enforces it, and to the dashboard, which renders it.         *)
(***************************************************************************)

OrderStatus == {"RECEIVED", "ACCEPTED", "IN_PREPARATION", "READY", "DISPATCHED",
                "DELIVERED", "CANCELLED", "REJECTED"}

ORDER_TRANSITIONS ==
    [s \in OrderStatus |->
        CASE s = "RECEIVED"       -> {"ACCEPTED", "REJECTED", "CANCELLED"}
          [] s = "ACCEPTED"       -> {"IN_PREPARATION", "CANCELLED"}
          [] s = "IN_PREPARATION" -> {"READY", "CANCELLED"}
          [] s = "READY"          -> {"DISPATCHED", "CANCELLED"}
          [] s = "DISPATCHED"     -> {"DELIVERED"}
          [] OTHER                -> {}]

\* OrderStateMachine.canTransition
CanTransition(from, to) == to \in ORDER_TRANSITIONS[from]
=============================================================================
