------------------------------ MODULE Lifecycle ------------------------------
(***************************************************************************)
(* The two guarded lifecycles of the governor: flow_transition (flow.cpp)  *)
(* and reservation_transition (reservation.cpp).  The tables are relations *)
(* consulted by the actions of Governor; nothing here has state.           *)
(***************************************************************************)

FlowStates ==
  { "Created", "Queued", "Reserved", "Running", "Throttled", "Preempted",
    "Completed", "Cancelled", "Failed" }

ReservationStates ==
  { "Pending", "Active", "Released", "Cancelled", "Expired", "Failed" }

TerminalFlow == { "Completed", "Cancelled", "Failed" }

TerminalReservation == { "Released", "Cancelled", "Expired", "Failed" }

(* The states in which tick() hands a flow a share of its path.            *)
Scheduled == { "Running", "Throttled", "Reserved" }

(* The states whose grant recompute_allocated() counts.                    *)
Served == { "Running", "Throttled" }

(* The outgoing edges of each flow state; a terminal state has none.       *)
FlowEdges ==
  [ Created   |-> { "Queued", "Cancelled", "Failed" },
    Queued    |-> { "Reserved", "Preempted", "Cancelled", "Failed", "Running" },
    Reserved  |-> { "Running", "Preempted", "Cancelled", "Failed", "Completed" },
    Running   |-> { "Throttled", "Preempted", "Completed", "Cancelled", "Failed",
                    "Reserved" },
    Throttled |-> { "Running", "Preempted", "Completed", "Cancelled", "Failed",
                    "Reserved" },
    Preempted |-> { "Queued", "Running", "Cancelled", "Failed", "Reserved" },
    Completed |-> {},
    Cancelled |-> {},
    Failed    |-> {} ]

(* The outgoing edges of each reservation state.                           *)
ReservationEdges ==
  [ Pending   |-> { "Active", "Cancelled", "Expired", "Failed" },
    Active    |-> { "Released", "Cancelled", "Expired", "Failed" },
    Released  |-> {},
    Cancelled |-> {},
    Expired   |-> {},
    Failed    |-> {} ]

(* A transition to the same state is allowed and does nothing.             *)
FlowTransition(from, to) == from = to \/ to \in FlowEdges[from]

ReservationTransition(from, to) == from = to \/ to \in ReservationEdges[from]
==============================================================================
