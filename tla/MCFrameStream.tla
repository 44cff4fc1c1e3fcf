---------------------------- MODULE MCFrameStream ----------------------------
(***************************************************************************)
(* Instances of FrameStream for TLC.  Each field holds its own name, so a  *)
(* field read in the place of another shows.                               *)
(***************************************************************************)
EXTENDS FrameStream, Wire

CONSTANTS conn, sched

Rec(names) == [x \in Range(names) |-> <<x>>]

ASpec ==
  Rec(<<"id", "tenant", "workload", "attempt", "generation", "source", "destination",
        "path", "byte_count", "direction", "priority", "latency_class",
        "deadline_seconds", "requested_min", "requested_preferred", "requested_max",
        "burst_bytes", "preemptible", "resumable">>)

AResource ==
  Rec(<<"id", "class", "source", "destination", "direction", "nominal", "generation",
        "enabled">>)

AReservation ==
  Rec(<<"id", "flow", "attempt", "flow_generation", "path", "epoch", "worker_boot",
        "capacity_generation", "state">>)
    @@ "allocations" :> <<Rec(<<"resource", "allocated">>), Rec(<<"resource", "allocated">>)>>

ADecision(bottleneck) ==
  Rec(<<"flow", "tenant", "workload", "kind", "requested", "granted",
        "minimum_guarantee", "preferred", "maximum", "path", "priority",
        "latency_class", "deadline_pressure", "tenant_fairness", "workload_fairness",
        "starvation_age", "burst_remaining", "saturated", "reservation_pressure",
        "resource_generation", "capacity_generation", "kind_reason", "defer_reason",
        "reject_reason", "throttle_reason", "preemption_reason">>)
    @@ "bottleneck" :> bottleneck
    @@ "competing_flows" :> <<<<"f1">>>>
    @@ "factors" :> <<Rec(<<"name", "value", "weight", "rationale">>)>>

AResourceSnapshot ==
  Rec(<<"id", "class", "source", "destination", "direction", "nominal", "measured",
        "governed", "reserved", "allocated", "instantaneous_util",
        "moving_average_util", "queue_depth", "saturated", "measured_latency_ms",
        "confidence", "provenance", "staleness_ms", "staleness_threshold_ms",
        "capacity_generation", "health", "enabled">>)

AFlowSnapshot(worker) ==
  Rec(<<"state", "granted", "admitted_ms", "last_update_ms", "bytes_transferred",
        "burst_remaining", "retry_count", "starvation_ms", "reservation",
        "assigned_boot", "last_error">>)
    @@ "spec" :> ASpec @@ "assigned_worker" :> worker

Message(type, body) == [type |-> type, body |-> body]

Ack == Message("Ack", Rec(<<"ok", "reason">>))

RegisterAck ==
  Message("RegisterAck", Rec(<<"ok", "coordinator", "epoch", "generation", "reason">>))

Dispatch ==
  Message("FlowDispatch",
          Rec(<<"attempt", "fgen", "boot", "grant", "reservation">>) @@ "flow" :> ASpec)

Grant == Message("FlowGrant", Rec(<<"flow", "attempt", "fgen", "boot", "grant">>))

Report ==
  Message("Progress", Rec(<<"flow", "attempt", "fgen", "boot", "bytes", "completed">>))

Register ==
  Message("Register",
          Rec(<<"worker", "boot", "protocol", "backend">>)
            @@ "inventory" :> <<AResource, AResource>>)

Admission(bottleneck) ==
  Message("SubmitAck", [admitted |-> <<"admitted">>, flow |-> ASpec,
                        decision |-> ADecision(bottleneck), reservation |-> None])

Listing(type, list) == Message(type, [list |-> list])

(* The last message is longer than a reader takes; the others are not.      *)
MCCatalogue ==
  << RegisterAck, Ack, Dispatch, Grant, Register, Report, Message("SubmitFlow", ASpec),
     Admission(None), [Admission(<<"bottleneck">>) EXCEPT !.body.reservation = AReservation],
     Listing("Resources", <<AResourceSnapshot, AResourceSnapshot>>),
     Listing("FlowList", <<AFlowSnapshot(None), AFlowSnapshot(<<"w1">>)>>),
     Listing("Reservations", <<AReservation>>),
     Listing("Reservations", [i \in 1..6 |-> AReservation]) >>

(* To a worker that runs a flow; from a worker; from a client; to clients. *)
MCScripts ==
  { conn :> <<1, 2>> @@ sched :> <<3, 4>>, conn :> <<5, 6>> @@ sched :> <<>> }
    \cup { conn :> <<m>> @@ sched :> <<>> : m \in 7..Len(MCCatalogue) }
===============================================================================
