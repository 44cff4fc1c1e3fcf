--------------------------------- MODULE Wire ---------------------------------
(***************************************************************************)
(* Payloads of frames (src/wire.cpp).  A payload is the sequence of the    *)
(* fields a writer put into it, in the order it put them; a reader takes   *)
(* fields off the front in an order of its own, and fails when it needs    *)
(* one that is not there.  One cell stands for one field, whatever its     *)
(* width; an optional field is preceded by a flag and a list by its        *)
(* length.  Every writer and every reader has its order written down       *)
(* separately here, as in the code.  The operators that take a writer w or *)
(* a reader r are the loops and tests those functions repeat.              *)
(*                                                                         *)
(* A reader refuses a payload for want of a field, which is modelled, or   *)
(* for a value no writer puts there (a double that is not finite, a        *)
(* negative rate, a string or a list beyond its bound), which is not:      *)
(* fields hold what the writers were given.                                *)
(***************************************************************************)
EXTENDS Integers, SequencesExt

CONSTANT None    \* an absent optional field

-------------------------------------------------------------------------------
(* Sinks: what a writer appends.                                           *)

Put(rec, names) == [i \in DOMAIN names |-> rec[names[i]]]

Flag(present) == <<"flag", present>>

Count(n) == <<"count", n>>

(* `cells' is the encoding of v, when there is one.                        *)
PutOptional(v, cells) == IF v = None THEN <<Flag(FALSE)>> ELSE <<Flag(TRUE)>> \o cells

PutList(list, w(_)) == <<Count(Len(list))>> \o FlattenSeq([i \in DOMAIN list |-> w(list[i])])

Single(v) == <<v>>

(* Sources: what a reader has so far and what it has not read yet.  Readers *)
(* work on a set with the one source there is; need() throws on a read     *)
(* past the end, and then there is none.                                   *)
Source(cells) == {[rec |-> <<>>, rest |-> cells]}

Holding(srcs, n) == { s \in srcs : Len(s.rest) >= n }

(* The fields `names' in that order, added to the record read so far.      *)
Get(srcs, names) ==
  LET field(s, x) == s.rest[CHOOSE i \in DOMAIN names : names[i] = x]
  IN  { [ rec  |-> [x \in Range(names) |-> field(s, x)] @@ s.rec,
          rest |-> SubSeq(s.rest, Len(names) + 1, Len(s.rest)) ] :
        s \in Holding(srcs, Len(names)) }

(* A single unnamed value.                                                 *)
GetSingle(srcs) ==
  { [rec |-> Head(s.rest), rest |-> Tail(s.rest)] : s \in Holding(srcs, 1) }

(* A part read by reader r becomes field `name'.                           *)
GetPart(srcs, name, r(_)) ==
  UNION { { [part EXCEPT !.rec = name :> @ @@ s.rec] : part \in r(Source(s.rest)) } :
          s \in srcs }

GetOptional(srcs, name, r(_)) ==
  UNION { IF Head(s.rest) = Flag(FALSE)
          THEN {[rec |-> name :> None @@ s.rec, rest |-> Tail(s.rest)]}
          ELSE GetPart({[s EXCEPT !.rest = Tail(@)]}, name, r) :
          s \in Holding(srcs, 1) }

(* One more item of a list.                                                *)
GetItem(lists, r(_)) ==
  UNION { { [item EXCEPT !.rec = Append(l.rec, @)] : item \in r(Source(l.rest)) } :
          l \in lists }

(* As many items as the count says.                                        *)
GetList(srcs, name, r(_)) ==
  UNION { LET n == Head(s.rest)[2]
              list[k \in 0..n] ==
                IF k = 0 THEN Source(Tail(s.rest)) ELSE GetItem(list[k - 1], r)
          IN  { [l EXCEPT !.rec = name :> @ @@ s.rec] : l \in list[n] } :
          s \in Holding(srcs, 1) }

-------------------------------------------------------------------------------
(* Parts of payloads.                                                      *)

w_res(r) ==
  Put(r, <<"id", "class", "source", "destination", "direction", "nominal",
           "generation", "enabled">>)

r_res(s) ==
  Get(s, <<"id", "class", "source", "destination", "direction", "nominal",
           "generation", "enabled">>)

w_spec(f) ==
  Put(f, <<"id", "tenant", "workload", "attempt", "generation", "source",
           "destination", "path", "byte_count", "direction", "priority",
           "latency_class", "deadline_seconds", "requested_min",
           "requested_preferred", "requested_max", "burst_bytes", "preemptible",
           "resumable">>)

r_spec(s) ==
  Get(s, <<"id", "tenant", "workload", "attempt", "generation", "source",
           "destination", "path", "byte_count", "direction", "priority",
           "latency_class", "deadline_seconds", "requested_min",
           "requested_preferred", "requested_max", "burst_bytes", "preemptible",
           "resumable">>)

w_res_alloc(a) == Put(a, <<"resource", "allocated">>)

r_res_alloc(s) == Get(s, <<"resource", "allocated">>)

w_reservation(r) ==
  Put(r, <<"id", "flow", "attempt", "flow_generation", "path">>)
    \o PutList(r.allocations, w_res_alloc)
    \o Put(r, <<"epoch", "worker_boot", "capacity_generation", "state">>)

r_reservation(s) ==
  LET head == Get(s, <<"id", "flow", "attempt", "flow_generation", "path">>)
      list == GetList(head, "allocations", r_res_alloc)
  IN  Get(list, <<"epoch", "worker_boot", "capacity_generation", "state">>)

w_factor(f) == Put(f, <<"name", "value", "weight", "rationale">>)

r_factor(s) == Get(s, <<"name", "value", "weight", "rationale">>)

w_decision(d) ==
  Put(d, <<"flow", "tenant", "workload", "kind", "requested", "granted",
           "minimum_guarantee", "preferred", "maximum">>)
    \o PutOptional(d.bottleneck, <<d.bottleneck>>)
    \o Put(d, <<"path", "priority", "latency_class", "deadline_pressure",
                "tenant_fairness", "workload_fairness", "starvation_age",
                "burst_remaining", "saturated">>)
    \o PutList(d.competing_flows, Single)
    \o Put(d, <<"reservation_pressure", "resource_generation", "capacity_generation",
                "kind_reason", "defer_reason", "reject_reason", "throttle_reason",
                "preemption_reason">>)
    \o PutList(d.factors, w_factor)

r_decision(s) ==
  LET rates == Get(s, <<"flow", "tenant", "workload", "kind", "requested", "granted",
                        "minimum_guarantee", "preferred", "maximum">>)
      tight == GetOptional(rates, "bottleneck", GetSingle)
      state == Get(tight, <<"path", "priority", "latency_class", "deadline_pressure",
                            "tenant_fairness", "workload_fairness", "starvation_age",
                            "burst_remaining", "saturated">>)
      rival == GetList(state, "competing_flows", GetSingle)
      cause == Get(rival, <<"reservation_pressure", "resource_generation",
                            "capacity_generation", "kind_reason", "defer_reason",
                            "reject_reason", "throttle_reason", "preemption_reason">>)
  IN  GetList(cause, "factors", r_factor)

-------------------------------------------------------------------------------
(* Payloads.                                                               *)

encode_register(r) ==
  Put(r, <<"worker", "boot", "protocol", "backend">>) \o PutList(r.inventory, w_res)

decode_register(cells) ==
  GetList(Get(Source(cells), <<"worker", "boot", "protocol", "backend">>),
          "inventory", r_res)

encode_register_ack(a) ==
  Put(a, <<"ok", "coordinator", "epoch", "generation", "reason">>)

decode_register_ack(cells) ==
  Get(Source(cells), <<"ok", "coordinator", "epoch", "generation", "reason">>)

decode_flow_spec(cells) == r_spec(Source(cells))

encode_admission(a) ==
  <<a.admitted>> \o w_spec(a.flow) \o w_decision(a.decision)
    \o PutOptional(a.reservation, w_reservation(a.reservation))

decode_admission(cells) ==
  LET flow == GetPart(Get(Source(cells), <<"admitted">>), "flow", r_spec)
  IN  GetOptional(GetPart(flow, "decision", r_decision), "reservation", r_reservation)

encode_dispatch(d) ==
  w_spec(d.flow) \o Put(d, <<"attempt", "fgen", "boot", "grant", "reservation">>)

(* Faulty variant: two identities of the same width are read in the wrong  *)
(* order.                                                                  *)
decode_dispatch_swapped(cells) ==
  Get(GetPart(Source(cells), "flow", r_spec),
      <<"fgen", "attempt", "boot", "grant", "reservation">>)

decode_dispatch(cells) ==
  Get(GetPart(Source(cells), "flow", r_spec),
      <<"attempt", "fgen", "boot", "grant", "reservation">>)

encode_grant(g) == Put(g, <<"flow", "attempt", "fgen", "boot", "grant">>)

decode_grant(cells) == Get(Source(cells), <<"flow", "attempt", "fgen", "boot", "grant">>)

encode_report(r) ==
  Put(r, <<"flow", "attempt", "fgen", "boot", "bytes", "completed">>)

(* Faulty variant: the reader stops before the last field.                 *)
decode_report_short(cells) ==
  Get(Source(cells), <<"flow", "attempt", "fgen", "boot", "bytes">>)

decode_report(cells) ==
  Get(Source(cells), <<"flow", "attempt", "fgen", "boot", "bytes", "completed">>)

encode_ack(a) == Put(a, <<"ok", "reason">>)

decode_ack(cells) == Get(Source(cells), <<"ok", "reason">>)

encode_response(r) == Put(r, <<"ok", "message">>) \o PutList(r.body, Single)

decode_response(cells) ==
  GetList(Get(Source(cells), <<"ok", "message">>), "body", GetSingle)

w_resource_snapshot(r) ==
  Put(r, <<"id", "class", "source", "destination", "direction", "nominal",
           "measured", "governed", "reserved", "allocated", "instantaneous_util",
           "moving_average_util", "queue_depth", "saturated", "measured_latency_ms",
           "confidence", "provenance", "staleness_ms", "staleness_threshold_ms",
           "capacity_generation", "health", "enabled">>)

r_resource_snapshot(s) ==
  Get(s, <<"id", "class", "source", "destination", "direction", "nominal",
           "measured", "governed", "reserved", "allocated", "instantaneous_util",
           "moving_average_util", "queue_depth", "saturated", "measured_latency_ms",
           "confidence", "provenance", "staleness_ms", "staleness_threshold_ms",
           "capacity_generation", "health", "enabled">>)

encode_resource_snapshot(list) == PutList(list, w_resource_snapshot)

decode_resource_snapshot(s) == GetList(s, "list", r_resource_snapshot)

w_flow_snapshot(f) ==
  w_spec(f.spec)
    \o Put(f, <<"state", "granted", "admitted_ms", "last_update_ms",
                "bytes_transferred", "burst_remaining", "retry_count", "starvation_ms">>)
    \o PutOptional(f.reservation, <<f.reservation>>)
    \o PutOptional(f.assigned_worker, <<f.assigned_worker>>)
    \o Put(f, <<"assigned_boot", "last_error">>)

r_flow_snapshot(s) ==
  LET state == Get(GetPart(s, "spec", r_spec),
                   <<"state", "granted", "admitted_ms", "last_update_ms",
                     "bytes_transferred", "burst_remaining", "retry_count",
                     "starvation_ms">>)
      held  == GetOptional(state, "reservation", GetSingle)
  IN  Get(GetOptional(held, "assigned_worker", GetSingle), <<"assigned_boot", "last_error">>)

encode_flow_snapshot(list) == PutList(list, w_flow_snapshot)

decode_flow_snapshot(s) == GetList(s, "list", r_flow_snapshot)

encode_reservation_snapshot(list) == PutList(list, w_reservation)

decode_reservation_snapshot(s) == GetList(s, "list", r_reservation)

-------------------------------------------------------------------------------
(* Messages.  A message has a type and a body; the answers to queries are  *)
(* Responses around an encoded list, and the client knows what it asked.   *)

QueryAnswer(list) ==
  encode_response([ok |-> Flag(TRUE), message |-> <<"">>, body |-> list])

ReadAnswer(cells) ==
  UNION { Source(resp.rec.body) : resp \in decode_response(cells) }

Payload(m) ==
  CASE m.type = "Register"      -> encode_register(m.body)
    [] m.type = "RegisterAck"   -> encode_register_ack(m.body)
    [] m.type = "SubmitFlow"    -> w_spec(m.body)
    [] m.type = "SubmitAck"     -> encode_admission(m.body)
    [] m.type = "FlowDispatch"  -> encode_dispatch(m.body)
    [] m.type = "FlowGrant"     -> encode_grant(m.body)
    [] m.type = "Progress"      -> encode_report(m.body)
    [] m.type = "Ack"           -> encode_ack(m.body)
    [] m.type = "Resources"     -> QueryAnswer(encode_resource_snapshot(m.body.list))
    [] m.type = "FlowList"      -> QueryAnswer(encode_flow_snapshot(m.body.list))
    [] m.type = "Reservations"  -> QueryAnswer(encode_reservation_snapshot(m.body.list))

ReadPayload(type, cells) ==
  CASE type = "Register"      -> decode_register(cells)
    [] type = "RegisterAck"   -> decode_register_ack(cells)
    [] type = "SubmitFlow"    -> decode_flow_spec(cells)
    [] type = "SubmitAck"     -> decode_admission(cells)
    [] type = "FlowDispatch"  -> decode_dispatch(cells)
    [] type = "FlowGrant"     -> decode_grant(cells)
    [] type = "Progress"      -> decode_report(cells)
    [] type = "Ack"           -> decode_ack(cells)
    [] type = "Resources"     -> decode_resource_snapshot(ReadAnswer(cells))
    [] type = "FlowList"      -> decode_flow_snapshot(ReadAnswer(cells))
    [] type = "Reservations"  -> decode_reservation_snapshot(ReadAnswer(cells))

===============================================================================
