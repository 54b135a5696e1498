---------------------------- MODULE OrderStatus ----------------------------
(***************************************************************************)
(* The statuses of an order (internal/domain/order.go) and the transitions *)
(* OrderService.canTransition allows between them.                         *)
(***************************************************************************)

Status == {"CREATED", "PAID", "COMPLETED", "CANCELLED"}

Allowed == [CREATED   |-> {"PAID", "CANCELLED"},
            PAID      |-> {"COMPLETED", "CANCELLED"},
            COMPLETED |-> {},
            CANCELLED |-> {}]

CanTransition(from, to) == to \in Allowed[from]

\* An order that still holds a box of its offer's stock.
Live == {"CREATED", "PAID", "COMPLETED"}
=============================================================================
