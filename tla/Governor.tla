------------------------------- MODULE Governor -------------------------------
(***************************************************************************)
(* The coordinator core (src/governor.cpp).  Every public method of        *)
(* Governor takes the one mutex for its whole body, so each method is one  *)
(* atomic action.  A call that returns without changing anything (an       *)
(* unknown id, a rejected spec, a stale report) is a stuttering step.      *)
(*                                                                         *)
(* Rates are naturals: one unit is the grain of the model.  The tolerance  *)
(* kEps of the floating-point comparisons has no counterpart.  Identities  *)
(* that IdGen mints are unique, so the n-th reservation minted for flow f  *)
(* is named <<f, n>>; an attempt minted with it is named n (attempt 0 is   *)
(* the one the submitter chose).  Weights, latency, confidence, starvation *)
(* and utilisation figures only shape the allocator's choice or reports.   *)
(***************************************************************************)
EXTENDS Totals, Lifecycle

CONSTANTS
  Flows,        \* flow ids
  Resources,    \* resource ids
  Paths,        \* path ids
  Workers,      \* worker ids
  Boots,        \* worker boot ids
  Tenants,      \* tenant ids (a workload id is accounted the same way)
  Hops,         \* Hops[p]: the resources path p traverses
  Backs,        \* Backs[w]: the inventory worker w registers
  Nominal,      \* Nominal[r]: configured rate of resource r
  MaxRate,      \* kMaxRate: no rate is above it
  Specs,        \* the flow specifications clients submit
  Measured,     \* rates a capacity measurement may report
  Switchable,   \* the resources an operator enables and disables
  ClockRuns,    \* whether the clock advances in this instance
  Window,       \* staleness threshold, in clock steps
  MaxAge,       \* bound: clock steps counted since a measurement
  MaxMint,      \* bound: reservations minted per flow
  MaxCapGen,    \* bound: capacity generations
  MaxBytes,     \* bound: bytes a report may carry
  NoWorker, NoBoot, NoSpec

FlowSpec ==
  [ path : Paths, tenant : Tenants, min : Nat, pref : Nat, max : Nat,
    preemptible : BOOLEAN ]

ASSUME ConstantsAssumption ==
  /\ Hops \in [Paths -> SUBSET Resources]
  /\ \A p \in Paths : Hops[p] # {}
  /\ Backs \in [Workers -> SUBSET Resources]
  /\ MaxRate \in Nat
  /\ Nominal \in [Resources -> 0..MaxRate]
  /\ Specs \subseteq FlowSpec
  /\ Measured \subseteq 0..MaxRate
  /\ Switchable \subseteq Resources
  /\ ClockRuns \in BOOLEAN
  /\ Window \in Nat \ {0}
  /\ MaxAge \in Nat
  /\ MaxMint \in Nat \ {0}
  /\ MaxCapGen \in Nat
  /\ MaxBytes \in Nat
  /\ NoWorker \notin Workers
  /\ NoBoot \notin Boots
  /\ NoSpec \notin Specs

ASSUME FlowsAssumption == IsFiniteSet(Flows)

VARIABLES
  known,        \* resources in the table
  enabled,      \* enabled[r]
  measured,     \* measured[r]; 0 when nothing was measured
  age,          \* age[r]: clock steps since last_ms, counted up to MaxAge
  governed,     \* cached governed[r]
  reserved,     \* cached reserved[r]
  allocated,    \* cached allocated[r]
  saturated,    \* cached saturated[r]
  paths,        \* paths in the table
  capGen,       \* the coordinator's CapacityGeneration
  epoch,        \* the coordinator's epoch
  fstate,       \* fstate[f], "Absent" before submission
  spec,         \* spec[f]
  granted,      \* granted[f]
  attempt,      \* spec.attempt of f
  fgen,         \* spec.generation of f, counted from submission (= retries)
  bytes,        \* bytes_done of f
  rsvOf,        \* f.reservation: the number of f's reservation, 0 for none
  assigned,     \* assigned_worker of f
  assignedBoot, \* assigned_boot of f
  minted,       \* number of reservations minted for f
  reservations, \* reservations[f][n]: authority data of reservation <<f, n>>
  rsvRate,      \* rsvRate[f][n]: rate it holds on every hop of f's path
  alive,        \* alive[w]
  wboot,        \* wboot[w], NoBoot when w never registered
  submitted,    \* submitted[t]
  completed     \* completed[t]

capacityVars == <<known, enabled, measured, age, governed, saturated>>
loadVars     == <<reserved, allocated>>
topologyVars == <<paths, epoch>>
flowVars     == <<fstate, spec, granted, attempt, fgen, bytes, rsvOf,
                  assigned, assignedBoot>>
rsvVars      == <<minted, reservations, rsvRate>>
workerVars   == <<alive, wboot>>
tenantVars   == <<submitted, completed>>

vars == <<capacityVars, loadVars, topologyVars, capGen, flowVars, rsvVars,
          workerVars, tenantVars>>

RsvNums == 1..MaxMint

Reservation ==
  [ state   : ReservationStates \cup {"Unminted"},
    attempt : 0..MaxMint,
    fgen    : Nat,
    epoch   : Nat,
    capGen  : 0..MaxCapGen,
    boot    : Boots \cup {NoBoot} ]

Unminted ==
  [ state |-> "Unminted", attempt |-> 0, fgen |-> 0, epoch |-> 0,
    capGen |-> 0, boot |-> NoBoot ]

-------------------------------------------------------------------------------
(* Capacity arithmetic                                                     *)

NonNeg(x) == IF x < 0 THEN 0 ELSE x

Smaller(x, y) == IF x < y THEN x ELSE y

Larger(x, y) == IF x < y THEN y ELSE x

(* Faulty variant: nothing is done about an age past the threshold.        *)
FreshnessUnclamped(ag) == Window - ag

(* freshness_of, in parts of Window: whole when the measurement is made,   *)
(* nothing once it is as old as the threshold.                             *)
Freshness(ag) == IF ag >= Window THEN 0 ELSE Window - ag

(* governed_of an enabled resource: the measured (or, failing that, the    *)
(* nominal) rate discounted by its freshness; a product that is no rate    *)
(* gives the nominal rate.                                                 *)
GovernedRate(nominal, ms, ag) ==
  LET applied == ((IF ms > 0 THEN ms ELSE nominal) * Freshness(ag)) \div Window
  IN  IF applied < 0 \/ applied > MaxRate THEN nominal ELSE applied

(* recompute_governed: a disabled resource governs nothing.                *)
GovernedOf(kn, en, ms, ag) ==
  [ r \in Resources |->
      IF r \in kn /\ en[r] THEN GovernedRate(Nominal[r], ms[r], ag[r]) ELSE 0 ]

HopsOf(f, sp) == Hops[sp[f].path]

(* recompute_reserved: reservations still held by flows that tick() is not *)
(* serving.                                                                *)
ReservedOf(st, sp, rs, rate) ==
  [ r \in Resources |->
      Total([x \in Flows \X RsvNums |-> rate[x[1]][x[2]]],
            { x \in Flows \X RsvNums :
                /\ rs[x[1]][x[2]].state \in {"Active", "Pending"}
                /\ st[x[1]] \notin Scheduled
                /\ r \in HopsOf(x[1], sp) }) ]

(* recompute_allocated: the grants of the flows being served.              *)
AllocatedOf(st, sp, gr) ==
  [ r \in Resources |->
      Total(gr, { f \in Flows : st[f] \in Served /\ r \in HopsOf(f, sp) }) ]

(* recompute_saturation                                                    *)
SaturatedOf(gov, rsvd, allc) ==
  [ r \in Resources |-> r \in known /\ allc[r] + rsvd[r] >= gov[r] ]

(* What is left of a resource once held and served rates are taken out.    *)
Avail(gov, rsvd, allc, r) == NonNeg(gov[r] - rsvd[r] - allc[r])

(* The admission test of submit_flow and admit_queued.                     *)
Fits(s, gov, rsvd, allc) ==
  \A r \in Hops[s.path] : r \in known /\ Avail(gov, rsvd, allc, r) >= s.min

(* The rate an admitted flow is granted: its preference bounded by what    *)
(* the tightest hop has left, never below its minimum.                     *)
AdmissionGrant(s, gov, rsvd, allc) ==
  LET bottleneck == Min({ Avail(gov, rsvd, allc, r) : r \in Hops[s.path] })
  IN  Larger(s.min, Smaller(Smaller(s.pref, s.max), bottleneck))

-------------------------------------------------------------------------------
(* Reservations                                                            *)

(* A reservation minted for flow f, whose attempt and generation are a and *)
(* g, under the coordinator's current epoch and capacity generation.       *)
NewReservation(a, g, b) ==
  [ state |-> "Active", attempt |-> a, fgen |-> g, epoch |-> epoch,
    capGen |-> capGen, boot |-> b ]

(* release_reservation_internal: a terminal reservation is left alone.     *)
Release(rsv) ==
  IF ReservationTransition(rsv.state, "Released")
  THEN [rsv EXCEPT !.state = "Released"]
  ELSE rsv

(* Faulty variant: a preempted flow keeps its reservation.                 *)
ReleaseUnlessPreempted(f) ==
  [ n \in RsvNums |->
      IF n = rsvOf[f] /\ fstate[f] # "Preempted"
      THEN Release(reservations[f][n]) ELSE reservations[f][n] ]

(* All of f's reservations after its current one, if any, is released.     *)
ReleaseCurrent(f) ==
  [ n \in RsvNums |->
      IF n = rsvOf[f] THEN Release(reservations[f][n]) ELSE reservations[f][n] ]

-------------------------------------------------------------------------------
Init ==
  /\ known = {}
  /\ enabled = [r \in Resources |-> TRUE]
  /\ measured = [r \in Resources |-> 0]
  /\ age = [r \in Resources |-> 0]
  /\ governed = [r \in Resources |-> 0]
  /\ reserved = [r \in Resources |-> 0]
  /\ allocated = [r \in Resources |-> 0]
  /\ saturated = [r \in Resources |-> FALSE]
  /\ paths = {}
  /\ capGen = 0
  /\ epoch = 0
  /\ fstate = [f \in Flows |-> "Absent"]
  /\ spec = [f \in Flows |-> NoSpec]
  /\ granted = [f \in Flows |-> 0]
  /\ attempt = [f \in Flows |-> 0]
  /\ fgen = [f \in Flows |-> 0]
  /\ bytes = [f \in Flows |-> 0]
  /\ rsvOf = [f \in Flows |-> 0]
  /\ assigned = [f \in Flows |-> NoWorker]
  /\ assignedBoot = [f \in Flows |-> NoBoot]
  /\ minted = [f \in Flows |-> 0]
  /\ reservations = [f \in Flows |-> [n \in RsvNums |-> Unminted]]
  /\ rsvRate = [f \in Flows |-> [n \in RsvNums |-> 0]]
  /\ alive = [w \in Workers |-> FALSE]
  /\ wboot = [w \in Workers |-> NoBoot]
  /\ submitted = [t \in Tenants |-> 0]
  /\ completed = [t \in Tenants |-> 0]

-------------------------------------------------------------------------------
(* Resources and paths                                                     *)

RecomputeGoverned == governed' = GovernedOf(known', enabled', measured', age')

(* Faulty variant: one of the two recomputations is forgotten.             *)
RecomputeReservedOnly ==
  /\ reserved' = ReservedOf(fstate', spec', reservations', rsvRate')
  /\ UNCHANGED allocated

RecomputeLoad ==
  /\ reserved' = ReservedOf(fstate', spec', reservations', rsvRate')
  /\ allocated' = AllocatedOf(fstate', spec', granted')

(* add_resource: insert or overwrite the specification; the measurement is *)
(* forgotten and the clock restarted.                                      *)
AddResource(r) ==
  /\ known' = known \cup {r}
  /\ measured' = [measured EXCEPT ![r] = 0]
  /\ age' = [age EXCEPT ![r] = 0]
  /\ UNCHANGED enabled
  /\ RecomputeGoverned
  /\ UNCHANGED <<saturated, loadVars, topologyVars, capGen, flowVars, rsvVars,
                 workerVars, tenantVars>>

(* update_capacity: a measurement m arrives, fencing the reservations      *)
(* minted so far when bump is set.                                         *)
UpdateCapacity(r, m, bump) ==
  /\ r \in known
  /\ bump => capGen < MaxCapGen
  /\ measured' = [measured EXCEPT ![r] = m]
  /\ age' = [age EXCEPT ![r] = 0]
  /\ capGen' = IF bump THEN capGen + 1 ELSE capGen
  /\ UNCHANGED <<known, enabled>>
  /\ RecomputeGoverned
  /\ saturated' = SaturatedOf(governed', reserved, allocated)
  /\ UNCHANGED <<loadVars, topologyVars, flowVars, rsvVars, workerVars,
                 tenantVars>>

SetResourceEnabled(r, on) ==
  /\ r \in known \cap Switchable
  /\ enabled' = [enabled EXCEPT ![r] = on]
  /\ UNCHANGED <<known, measured, age>>
  /\ RecomputeGoverned
  /\ saturated' = SaturatedOf(governed', reserved, allocated)
  /\ UNCHANGED <<loadVars, topologyVars, capGen, flowVars, rsvVars, workerVars,
                 tenantVars>>

InvalidateResourceCapacity(r) ==
  /\ r \in known
  /\ capGen < MaxCapGen
  /\ capGen' = capGen + 1
  /\ UNCHANGED <<known, enabled, measured, age>>
  /\ RecomputeGoverned
  /\ saturated' = SaturatedOf(governed', reserved, allocated)
  /\ UNCHANGED <<loadVars, topologyVars, flowVars, rsvVars, workerVars,
                 tenantVars>>

AddPath(p) ==
  /\ paths' = paths \cup {p}
  /\ UNCHANGED <<capacityVars, loadVars, epoch, capGen, flowVars, rsvVars,
                 workerVars, tenantVars>>

(* The coordinator's clock advances; nothing is recomputed by that alone.  *)
Elapse ==
  /\ ClockRuns
  /\ age' = [r \in Resources |->
               IF r \in known THEN Smaller(age[r] + 1, MaxAge) ELSE age[r]]
  /\ UNCHANGED <<known, enabled, measured, governed, saturated, loadVars,
                 topologyVars, capGen, flowVars, rsvVars, workerVars, tenantVars>>

-------------------------------------------------------------------------------
(* Flows                                                                   *)

ValidSpec(s) == s.min <= s.pref /\ s.pref <= s.max

(* submit_flow, on the path that parks the flow: some hop cannot honour    *)
(* the minimum.  The caches were refreshed before the test.                *)
SubmitDeferred(f, s) ==
  /\ governed' = GovernedOf(known, enabled, measured, age)
  /\ reserved' = ReservedOf(fstate, spec, reservations, rsvRate)
  /\ allocated' = AllocatedOf(fstate, spec, granted)
  /\ ~ Fits(s, governed', reserved', allocated')
  /\ fstate' = [fstate EXCEPT ![f] = "Queued"]
  /\ UNCHANGED <<saturated, granted, rsvOf, rsvVars>>

(* submit_flow, on the path that admits it: a reservation is minted and    *)
(* the load recomputed with the new flow in place.                         *)
SubmitAdmitted(f, s) ==
  LET gov   == GovernedOf(known, enabled, measured, age)
      rsvd  == ReservedOf(fstate, spec, reservations, rsvRate)
      allc  == AllocatedOf(fstate, spec, granted)
      grant == AdmissionGrant(s, gov, rsvd, allc)
      n     == minted[f] + 1
  IN  /\ Fits(s, gov, rsvd, allc)
      /\ n \in RsvNums
      /\ fstate' = [fstate EXCEPT ![f] = "Reserved"]
      /\ granted' = [granted EXCEPT ![f] = grant]
      /\ rsvOf' = [rsvOf EXCEPT ![f] = n]
      /\ minted' = [minted EXCEPT ![f] = n]
      /\ reservations' = [reservations EXCEPT
                            ![f][n] = NewReservation(attempt[f], fgen[f], NoBoot)]
      /\ rsvRate' = [rsvRate EXCEPT ![f][n] = grant]
      /\ governed' = gov
      /\ RecomputeLoad
      /\ saturated' = SaturatedOf(governed', reserved', allocated')

SubmitFlow(f, s) ==
  /\ fstate[f] = "Absent"
  /\ ValidSpec(s)
  /\ s.path \in paths
  /\ spec' = [spec EXCEPT ![f] = s]
  /\ submitted' = [submitted EXCEPT ![s.tenant] = @ + 1]
  /\ SubmitDeferred(f, s) \/ SubmitAdmitted(f, s)
  /\ UNCHANGED <<known, enabled, measured, age, topologyVars, capGen, attempt,
                 fgen, bytes, assigned, assignedBoot, workerVars, completed>>

(* cancel_flow                                                             *)
CancelFlow(f) ==
  /\ fstate[f] \in FlowStates \ TerminalFlow
  /\ fstate' = [fstate EXCEPT ![f] = "Cancelled"]
  /\ reservations' = [reservations EXCEPT ![f] = ReleaseCurrent(f)]
  /\ UNCHANGED <<spec, granted, rsvRate>>
  /\ RecomputeLoad
  /\ saturated' = SaturatedOf(governed, reserved', allocated')
  /\ UNCHANGED <<known, enabled, measured, age, governed, topologyVars, capGen,
                 attempt, fgen, bytes, rsvOf, assigned, assignedBoot, minted,
                 workerVars, tenantVars>>

(* resume_flow: a flow that was ever scheduled still names a reservation,  *)
(* so the branch that mints a new one is not taken; nothing is recomputed. *)
ResumeFlow(f) ==
  /\ fstate[f] \in {"Preempted", "Throttled"}
  /\ rsvOf[f] # 0
  /\ fstate' = [fstate EXCEPT ![f] = "Reserved"]
  /\ UNCHANGED <<capacityVars, loadVars, topologyVars, capGen, spec, granted,
                 attempt, fgen, bytes, rsvOf, assigned, assignedBoot, rsvVars,
                 workerVars, tenantVars>>

(* Faulty variant: the flow forgets the reservation that was released.     *)
ReleaseForgotten(f, n) ==
  /\ reservations[f][n].state \in ReservationStates \ TerminalReservation
  /\ reservations' = [reservations EXCEPT ![f][n] = Release(@)]
  /\ rsvOf' = [rsvOf EXCEPT ![f] = 0]
  /\ reserved' = ReservedOf(fstate, spec, reservations', rsvRate)
  /\ saturated' = SaturatedOf(governed, reserved', allocated)
  /\ UNCHANGED <<known, enabled, measured, age, governed, allocated,
                 topologyVars, capGen, fstate, spec, granted, attempt, fgen, bytes,
                 assigned, assignedBoot, minted, rsvRate, workerVars, tenantVars>>

(* release_reservation, by a client that holds the reservation's id: the   *)
(* flow itself is left as it is.                                           *)
ReleaseReservation(f, n) ==
  /\ reservations[f][n].state \in ReservationStates \ TerminalReservation
  /\ reservations' = [reservations EXCEPT ![f][n] = Release(@)]
  /\ reserved' = ReservedOf(fstate, spec, reservations', rsvRate)
  /\ saturated' = SaturatedOf(governed, reserved', allocated)
  /\ UNCHANGED <<known, enabled, measured, age, governed, allocated,
                 topologyVars, capGen, flowVars, minted, rsvRate, workerVars,
                 tenantVars>>

-------------------------------------------------------------------------------
(* The scheduler                                                           *)

(* The outcomes of allocate_weighted over the flows S of a resource, for   *)
(* some weights: nothing when the capacity is spent; minima scaled down to *)
(* the capacity when they do not fit, each staying positive as long as the *)
(* grain can show it; else every flow between its minimum and preference,  *)
(* the capacity used up or every preference met.                           *)
Shares(S, cap) ==
  LET rate == [S -> 0..cap]
      mins == Total([f \in S |-> spec[f].min], S)
      want == Total([f \in S |-> spec[f].pref], S)
      needy == { f \in S : spec[f].min > 0 }
  IN  IF cap = 0
      THEN { [f \in S |-> 0] }
      ELSE IF mins > cap
      THEN { g \in rate :
               /\ \A f \in S : g[f] <= spec[f].min
               /\ Cardinality(needy) <= cap => \A f \in needy : g[f] > 0
               /\ Total(g, S) = cap }
      ELSE { g \in rate :
               /\ \A f \in S : spec[f].min <= g[f] /\ g[f] <= spec[f].pref
               /\ Total(g, S) = Smaller(cap, want) }

(* pick_worker_for_path: some live worker that backs a hop of the path, or *)
(* none when there is none; the table's order decides which.               *)
Candidates(p) == { w \in Workers : alive[w] /\ Backs[w] \cap Hops[p] # {} }

WorkerPicks ==
  { pick \in [paths -> Workers \cup {NoWorker}] :
      \A p \in paths : IF Candidates(p) = {} THEN pick[p] = NoWorker
                                            ELSE pick[p] \in Candidates(p) }

(* Faulty variant: a parked flow waits until its preference fits.          *)
AdmittedAtPreference ==
  { f \in Flows : /\ fstate[f] = "Queued"
                  /\ Fits(spec[f], governed, reserved, allocated)
                  /\ \A r \in HopsOf(f, spec) :
                       Avail(governed, reserved, allocated, r) >= spec[f].pref }

(* admit_queued for every parked flow: it trusts the cached figures, which *)
(* no admission of the same tick updates.                                  *)
AdmittedByTick ==
  { f \in Flows : /\ fstate[f] = "Queued"
                  /\ Fits(spec[f], governed, reserved, allocated) }

StateAfterAdmission(A) == [f \in Flows |-> IF f \in A THEN "Reserved" ELSE fstate[f]]

ReservationsAfterAdmission(A) ==
  [ f \in Flows |->
      IF f \in A
      THEN [reservations[f] EXCEPT
              ![minted[f] + 1] = NewReservation(attempt[f], fgen[f], NoBoot)]
      ELSE reservations[f] ]

RatesAfterAdmission(A) ==
  [ f \in Flows |->
      IF f \in A
      THEN [rsvRate[f] EXCEPT
              ![minted[f] + 1] = AdmissionGrant(spec[f], governed, reserved, allocated)]
      ELSE rsvRate[f] ]

(* Faulty variant: what preempted flows hold is shared out again.          *)
SharedCapacity(gov, rsvd, r) == gov[r]

(* What tick() shares out of a resource: preempted flows keep their part.  *)
TickCapacity(gov, rsvd, r) == NonNeg(gov[r] - rsvd[r])

(* Faulty variant: a flow just admitted is throttled or preempted at once. *)
RescheduledAlike(st, s, grant) ==
  IF grant = 0 /\ s.preemptible THEN "Preempted"
  ELSE IF grant < s.min THEN "Throttled"
  ELSE "Running"

(* The state tick() leaves a scheduled flow in, given its new grant.       *)
Rescheduled(st, s, grant) ==
  IF st = "Reserved" THEN "Running"
  ELSE IF grant = 0 /\ s.preemptible THEN "Preempted"
  ELSE IF grant < s.min THEN "Throttled"
  ELSE "Running"

(* Faulty variant: a flow takes the share of its widest hop.               *)
WidestShare(alloc, f) == Max({ alloc[r][f] : r \in HopsOf(f, spec) })

(* A flow's grant is the least of its hops' shares.                        *)
PathGrant(alloc, f) == Min({ alloc[r][f] : r \in HopsOf(f, spec) })

(* tick: admit what fits, share out every resource among the flows that    *)
(* cross it, give each flow the least of its hops' shares, and dispatch,   *)
(* throttle or preempt it accordingly.                                     *)
Tick ==
  LET A     == AdmittedByTick
      st    == StateAfterAdmission(A)
      rs    == ReservationsAfterAdmission(A)
      rate  == RatesAfterAdmission(A)
      gov   == GovernedOf(known, enabled, measured, age)
      rsvd  == ReservedOf(st, spec, rs, rate)
      sched == { f \in Flows : st[f] \in Scheduled }
      share == [ r \in known |->
                   Shares({ f \in sched : r \in HopsOf(f, spec) },
                          TickCapacity(gov, rsvd, r)) ]
  IN  /\ \A f \in A : minted[f] + 1 \in RsvNums
      /\ \E alloc \in [known -> UNION { share[r] : r \in known }], pick \in WorkerPicks :
          /\ \A r \in known : alloc[r] \in share[r]
          /\ granted' = [f \in Flows |->
                           IF f \in sched THEN PathGrant(alloc, f) ELSE granted[f]]
          /\ fstate' = [f \in Flows |->
                          IF f \in sched
                          THEN Rescheduled(st[f], spec[f], granted'[f])
                          ELSE st[f]]
          /\ assigned' = [f \in Flows |->
               IF st[f] = "Reserved" /\ pick[spec[f].path] # NoWorker
               THEN pick[spec[f].path] ELSE assigned[f]]
          /\ assignedBoot' = [f \in Flows |->
               IF st[f] = "Reserved" /\ pick[spec[f].path] # NoWorker
               THEN wboot[pick[spec[f].path]] ELSE assignedBoot[f]]
          /\ rsvOf' = [f \in Flows |-> IF f \in A THEN minted[f] + 1 ELSE rsvOf[f]]
          /\ minted' = [f \in Flows |-> IF f \in A THEN minted[f] + 1 ELSE minted[f]]
          /\ reservations' = rs
          /\ rsvRate' = rate
          /\ governed' = gov
          /\ UNCHANGED spec
          /\ RecomputeLoad
          /\ saturated' = SaturatedOf(governed', reserved', allocated')
          /\ UNCHANGED <<known, enabled, measured, age, topologyVars, capGen,
                         attempt, fgen, bytes, workerVars, tenantVars>>

-------------------------------------------------------------------------------
(* Distributed authority                                                   *)

(* Faulty variant: every flow assigned to the worker that has not          *)
(* completed is rolled.                                                    *)
RolledUnlessCompleted(w, b) ==
  IF alive[w] /\ wboot[w] # b
  THEN { f \in Flows : fstate[f] \in {"Running", "Cancelled"} /\ assigned[f] = w }
  ELSE {}

(* The flows whose authority register_worker rolls when a live worker      *)
(* comes back under another boot.                                          *)
RolledBy(w, b) ==
  IF alive[w] /\ wboot[w] # b
  THEN { f \in Flows : fstate[f] = "Running" /\ assigned[f] = w }
  ELSE {}

(* Faulty variant: the minimum comes on top of the grant.                  *)
RollRateSum(f) == granted[f] + spec[f].min

(* The rate reserved for a retry.                                          *)
RollRate(f) ==
  LET rate == Larger(granted[f], spec[f].min)
  IN  IF rate > 0 THEN rate ELSE spec[f].pref

(* Faulty variant: the new reservation is bound to the old boot.           *)
RolledOnOldBoot(f, b) ==
  [ReleaseCurrent(f) EXCEPT
     ![minted[f] + 1] = NewReservation(minted[f] + 1, fgen[f] + 1, assignedBoot[f])]

(* The reservations of a flow whose authority is rolled onto boot b.       *)
RolledReservations(f, b) ==
  [ReleaseCurrent(f) EXCEPT
     ![minted[f] + 1] = NewReservation(minted[f] + 1, fgen[f] + 1, b)]

(* register_worker: the inventory's resources are (re)inserted; flows that *)
(* ran on the worker's old boot lose their reservation and get another,    *)
(* under a fresh attempt and the next generation, bound to the new boot.   *)
RegisterWorker(w, b) ==
  LET R    == RolledBy(w, b)
      n(f) == minted[f] + 1
  IN  /\ \A f \in R : n(f) \in RsvNums
      /\ alive' = [alive EXCEPT ![w] = TRUE]
      /\ wboot' = [wboot EXCEPT ![w] = b]
      /\ known' = known \cup Backs[w]
      /\ measured' = [r \in Resources |-> IF r \in Backs[w] THEN 0 ELSE measured[r]]
      /\ age' = [r \in Resources |-> IF r \in Backs[w] THEN 0 ELSE age[r]]
      /\ fstate' = [f \in Flows |-> IF f \in R THEN "Reserved" ELSE fstate[f]]
      /\ attempt' = [f \in Flows |-> IF f \in R THEN n(f) ELSE attempt[f]]
      /\ fgen' = [f \in Flows |-> IF f \in R THEN fgen[f] + 1 ELSE fgen[f]]
      /\ bytes' = [f \in Flows |-> IF f \in R THEN 0 ELSE bytes[f]]
      /\ assignedBoot' = [f \in Flows |-> IF f \in R THEN b ELSE assignedBoot[f]]
      /\ granted' = [f \in Flows |-> IF f \in R THEN RollRate(f) ELSE granted[f]]
      /\ rsvOf' = [f \in Flows |-> IF f \in R THEN n(f) ELSE rsvOf[f]]
      /\ minted' = [f \in Flows |-> IF f \in R THEN n(f) ELSE minted[f]]
      /\ reservations' =
           [f \in Flows |-> IF f \in R THEN RolledReservations(f, b)
                                       ELSE reservations[f]]
      /\ rsvRate' = [f \in Flows |->
                       IF f \in R THEN [rsvRate[f] EXCEPT ![n(f)] = RollRate(f)]
                                  ELSE rsvRate[f]]
      /\ UNCHANGED enabled
      /\ RecomputeGoverned
      /\ UNCHANGED <<saturated, loadVars, topologyVars, capGen, spec, assigned,
                     tenantVars>>

(* deregister_worker: running flows of the lost worker become unassigned.  *)
DeregisterWorker(w) ==
  /\ wboot[w] # NoBoot
  /\ alive' = [alive EXCEPT ![w] = FALSE]
  /\ assigned' = [f \in Flows |->
                    IF fstate[f] = "Running" /\ assigned[f] = w
                    THEN NoWorker ELSE assigned[f]]
  /\ UNCHANGED <<capacityVars, loadVars, topologyVars, capGen, fstate, spec,
                 granted, attempt, fgen, bytes, rsvOf, assignedBoot, rsvVars,
                 wboot, tenantVars>>

(* Faulty variants: a settled flow reports again; a report outlives the    *)
(* capacity generation it was reserved under; any report is believed.      *)
AuthorisedTwice(f, a, g, b) ==
  /\ fstate[f] \in {"Running", "Completed"}
  /\ attempt[f] = a
  /\ fgen[f] = g
  /\ assigned[f] # NoWorker => alive[assigned[f]] /\ wboot[assigned[f]] = b
  /\ rsvOf[f] # 0 =>
       /\ reservations[f][rsvOf[f]].epoch = epoch
       /\ reservations[f][rsvOf[f]].capGen = capGen

AuthorisedUnfenced(f, a, g, b) ==
  /\ fstate[f] = "Running"
  /\ attempt[f] = a
  /\ fgen[f] = g
  /\ assigned[f] # NoWorker => alive[assigned[f]] /\ wboot[assigned[f]] = b
  /\ rsvOf[f] # 0 => reservations[f][rsvOf[f]].epoch = epoch

AuthorisedByState(f, a, g, b) == fstate[f] = "Running"

(* The fences report_progress and report_completion share.                 *)
Authorised(f, a, g, b) ==
  /\ fstate[f] = "Running"
  /\ attempt[f] = a
  /\ fgen[f] = g
  /\ assigned[f] # NoWorker => alive[assigned[f]] /\ wboot[assigned[f]] = b
  /\ rsvOf[f] # 0 =>
       /\ reservations[f][rsvOf[f]].epoch = epoch
       /\ reservations[f][rsvOf[f]].capGen = capGen

(* Faulty variants: progress is added up; progress is overwritten.         *)
ProgressAdded(f, a, g, b, done) ==
  /\ Authorised(f, a, g, b)
  /\ bytes' = [bytes EXCEPT ![f] = @ + done]
  /\ UNCHANGED <<capacityVars, loadVars, topologyVars, capGen, fstate, spec,
                 granted, attempt, fgen, rsvOf, assigned, assignedBoot, rsvVars,
                 workerVars, tenantVars>>

ProgressOverwritten(f, a, g, b, done) ==
  /\ Authorised(f, a, g, b)
  /\ bytes' = [bytes EXCEPT ![f] = done]
  /\ UNCHANGED <<capacityVars, loadVars, topologyVars, capGen, fstate, spec,
                 granted, attempt, fgen, rsvOf, assigned, assignedBoot, rsvVars,
                 workerVars, tenantVars>>

ReportProgress(f, a, g, b, done) ==
  /\ Authorised(f, a, g, b)
  /\ bytes' = [bytes EXCEPT ![f] = Larger(@, done)]
  /\ UNCHANGED <<capacityVars, loadVars, topologyVars, capGen, fstate, spec,
                 granted, attempt, fgen, rsvOf, assigned, assignedBoot, rsvVars,
                 workerVars, tenantVars>>

ReportCompletion(f, a, g, b, done) ==
  /\ Authorised(f, a, g, b)
  /\ bytes' = [bytes EXCEPT ![f] = Larger(@, done)]
  /\ fstate' = [fstate EXCEPT ![f] = "Completed"]
  /\ completed' = [completed EXCEPT ![spec[f].tenant] = @ + 1]
  /\ reservations' = [reservations EXCEPT ![f] = ReleaseCurrent(f)]
  /\ UNCHANGED <<spec, granted, rsvRate>>
  /\ RecomputeLoad
  /\ saturated' = SaturatedOf(governed, reserved', allocated')
  /\ UNCHANGED <<known, enabled, measured, age, governed, topologyVars, capGen,
                 attempt, fgen, rsvOf, assigned, assignedBoot, minted,
                 workerVars, submitted>>

-------------------------------------------------------------------------------
CapacityNext ==
  \/ \E r \in Resources :
       \/ AddResource(r)
       \/ \E m \in Measured, bump \in BOOLEAN : UpdateCapacity(r, m, bump)
       \/ \E on \in BOOLEAN : SetResourceEnabled(r, on)
       \/ InvalidateResourceCapacity(r)
  \/ \E p \in Paths : AddPath(p)
  \/ Elapse

FlowNext ==
  \/ \E f \in Flows :
       \/ \E s \in Specs : SubmitFlow(f, s)
       \/ CancelFlow(f)
       \/ ResumeFlow(f)
       \/ \E n \in RsvNums : ReleaseReservation(f, n)
  \/ Tick

WorkerNext ==
  \/ \E w \in Workers :
       \/ \E b \in Boots : RegisterWorker(w, b)
       \/ DeregisterWorker(w)
  \/ \E f \in Flows, a \in 0..MaxMint, g \in 0..MaxMint, b \in Boots \cup {NoBoot},
        done \in 0..MaxBytes :
       \/ ReportProgress(f, a, g, b, done)
       \/ ReportCompletion(f, a, g, b, done)

Next == CapacityNext \/ FlowNext \/ WorkerNext

Spec == Init /\ [][Next]_vars

(* The coordinator's scheduler thread calls tick() every 5 ms and is never *)
(* stopped by an exception; clients, workers and operators promise nothing. *)
FairSpec == Spec /\ WF_vars(Tick)

-------------------------------------------------------------------------------
(* The abstract authority of the governor's flows and reservations.        *)
LiveReservations ==
  [f \in Flows |-> { n \in RsvNums : reservations[f][n].state \in {"Active", "Pending"} }]

Outcomes ==
  [f \in Flows |-> IF fstate[f] = "Completed" THEN "completed"
                   ELSE IF fstate[f] = "Cancelled" THEN "cancelled"
                   ELSE "open"]

Authority == INSTANCE ReservationAuthority
             WITH issued <- minted, live <- LiveReservations, outcome <- Outcomes

(* The governor implements ReservationAuthority: across admission, retry,  *)
(* release, cancellation and completion a reservation number is issued     *)
(* once, is live alone, and dies for good (submit_flow, tick,              *)
(* register_worker, release_reservation, cancel_flow, report_completion).  *)
AuthorityImplemented == Authority!Spec

(* Type invariant.  The control state of the governor; rates are typed by  *)
(* RatesInRange below.                                                     *)
TypeOK ==
  /\ known \in SUBSET Resources
  /\ enabled \in [Resources -> BOOLEAN]
  /\ measured \in [Resources -> Nat]
  /\ age \in [Resources -> 0..MaxAge]
  /\ paths \in SUBSET Paths
  /\ capGen \in 0..MaxCapGen
  /\ epoch \in Nat
  /\ fstate \in [Flows -> FlowStates \cup {"Absent"}]
  /\ spec \in [Flows -> Specs \cup {NoSpec}]
  /\ attempt \in [Flows -> 0..MaxMint]
  /\ fgen \in [Flows -> Nat]
  /\ bytes \in [Flows -> 0..MaxBytes]
  /\ rsvOf \in [Flows -> 0..MaxMint]
  /\ assigned \in [Flows -> Workers \cup {NoWorker}]
  /\ assignedBoot \in [Flows -> Boots \cup {NoBoot}]
  /\ minted \in [Flows -> 0..MaxMint]
  /\ reservations \in [Flows -> [RsvNums -> Reservation]]
  /\ alive \in [Workers -> BOOLEAN]
  /\ wboot \in [Workers -> Boots \cup {NoBoot}]
  /\ submitted \in [Tenants -> Nat]
  /\ completed \in [Tenants -> Nat]

(* Every grant and every reserved rate stays between zero and the maximum  *)
(* its flow asked for, whatever mixture of admission, scheduling, roll and *)
(* restart produced it (submit_flow, tick, register_worker).               *)
RatesInRange ==
  /\ \A r \in Resources : {governed[r], reserved[r], allocated[r]} \subseteq Nat
  /\ \A f \in Flows : fstate[f] # "Absent" =>
       /\ granted[f] \in 0..spec[f].max
       /\ \A n \in RsvNums : rsvRate[f][n] \in 0..spec[f].max

(* A flow never has two live reservations: the only one that may be Active *)
(* is the one the flow names, and it carries the flow's current attempt    *)
(* and generation (register_worker must release before it mints).          *)
SingleAuthority ==
  \A f \in Flows, n \in RsvNums :
    reservations[f][n].state = "Active" =>
      /\ n = rsvOf[f]
      /\ reservations[f][n].attempt = attempt[f]
      /\ reservations[f][n].fgen = fgen[f]

(* No leaked reservation: a flow that is not admitted yet, or has settled, *)
(* holds no capacity (cancel_flow, report_completion).                     *)
NoLeakedReservation ==
  \A f \in Flows :
    fstate[f] \in TerminalFlow \cup {"Absent", "Created", "Queued"} =>
      \A n \in RsvNums : reservations[f][n].state \notin {"Active", "Pending"}

(* The history of a flow's reservations: the last one minted is the one    *)
(* the flow names and carries its attempt and generation, every earlier    *)
(* one was released, none is minted before admission and none is held once *)
(* the flow has settled.                                                   *)
FlowHistory(f) ==
  /\ rsvOf[f] = minted[f]
  /\ attempt[f] <= minted[f] /\ fgen[f] <= minted[f]
  /\ fstate[f] \notin {"Created", "Failed"}
  /\ fstate[f] # "Absent" => spec[f] \in Specs /\ spec[f].path \in paths
  /\ fstate[f] \in {"Absent", "Queued"} => minted[f] = 0
  /\ fstate[f] \in Scheduled \cup {"Preempted", "Completed"} => minted[f] # 0
  /\ \A n \in RsvNums :
       /\ n > minted[f] => reservations[f][n].state = "Unminted"
       /\ n < minted[f] => reservations[f][n].state = "Released"
       /\ n = minted[f] =>
            /\ reservations[f][n].state \in {"Active", "Released"}
            /\ reservations[f][n].attempt = attempt[f]
            /\ reservations[f][n].fgen = fgen[f]
            /\ fstate[f] \in TerminalFlow => reservations[f][n].state = "Released"

(* Every flow's history is in order.  This is the inductive form of the    *)
(* two invariants above, and what lets resume_flow always find a           *)
(* reservation to come back to.                                            *)
ReservationHistory == \A f \in Flows : FlowHistory(f)

(* accounting_at_zero()                                                    *)
AccountingAtZero ==
  /\ \A r \in Resources : allocated[r] = 0 /\ reserved[r] = 0
  /\ \A f \in Flows : fstate[f] \notin Scheduled
  /\ \A f \in Flows, n \in RsvNums :
       reservations[f][n].state \notin {"Active", "Pending"}

(* Accounting returns to zero once every flow has settled, the cached      *)
(* figures included: no handler that settles the last flow may leave them  *)
(* stale (docs/ARCHITECTURE.md, "Accounting returns exactly to zero").     *)
SettledAccountsAreZero ==
  (\A f \in Flows : fstate[f] \in TerminalFlow \cup {"Absent"}) => AccountingAtZero

(* The per-tenant counters agree with the flow table: each submission and  *)
(* each completion was counted once, across retries and duplicate reports. *)
AccountsMatchFlows ==
  \A t \in Tenants :
    LET mine == { f \in Flows : fstate[f] # "Absent" /\ spec[f].tenant = t }
    IN  /\ submitted[t] = Cardinality(mine)
        /\ completed[t] = Cardinality({ f \in mine : fstate[f] = "Completed" })

(* set_flow_state never throws, and no reservation leaves a terminal       *)
(* state: every step of every handler, the bulk updates of tick() and      *)
(* register_worker() included, is an edge of the two lifecycle tables.     *)
LifecycleStep(f) ==
  /\ fstate[f] # "Absent" => FlowTransition(fstate[f], fstate'[f])
  /\ \A n \in RsvNums :
       reservations[f][n].state # "Unminted" =>
         ReservationTransition(reservations[f][n].state, reservations'[f][n].state)

LifecycleRespected == [][\A f \in Flows : LifecycleStep(f)]_vars

(* A flow completes only under current authority: it names a reservation   *)
(* of its own attempt and generation, minted under the epoch and capacity  *)
(* generation of the moment, and its worker, if it has one, is alive.      *)
CompletesUnderAuthority(f) ==
  fstate[f] # "Completed" /\ fstate'[f] = "Completed" =>
    /\ rsvOf[f] # 0
    /\ reservations[f][rsvOf[f]].attempt = attempt[f]
    /\ reservations[f][rsvOf[f]].fgen = fgen[f]
    /\ reservations[f][rsvOf[f]].epoch = epoch
    /\ reservations[f][rsvOf[f]].capGen = capGen
    /\ assigned[f] # NoWorker => alive[assigned[f]]

CompletionFenced == [][\A f \in Flows : CompletesUnderAuthority(f)]_vars

(* A retry replaces authority in one step: the attempt of a flow changes   *)
(* only together with its generation, its progress starts again, the old   *)
(* reservation is dead and the new one is live and bound to the new boot.  *)
ReplacesAuthority(f) ==
  attempt'[f] # attempt[f] =>
    /\ fgen'[f] = fgen[f] + 1
    /\ bytes'[f] = 0
    /\ rsvOf'[f] # rsvOf[f]
    /\ reservations'[f][rsvOf[f]].state \in TerminalReservation
    /\ reservations'[f][rsvOf'[f]].state = "Active"
    /\ reservations'[f][rsvOf'[f]].boot = wboot'[assigned'[f]]

RetryReplacesAuthority == [][\A f \in Flows : ReplacesAuthority(f)]_vars

(* Progress of an attempt never runs backwards (report_progress keeps the  *)
(* maximum, so late and duplicate reports are harmless).                   *)
ProgressMonotone ==
  [][\A f \in Flows : attempt'[f] = attempt[f] => bytes'[f] >= bytes[f]]_vars

(* No overcommit: what tick() serves on a resource fits in its governed    *)
(* rate less what preempted flows still hold there, multi-hop flows and    *)
(* admissions of the same tick included.                                   *)
TickWithinCapacity ==
  [][ \/ \A r \in Resources :
           allocated'[r] <= NonNeg(governed'[r]
                                   - ReservedOf(fstate, spec, reservations, rsvRate)[r])
      \/ ~ Tick ]_vars

(* "Stale measurements are never silently treated as fresh" (README.md): a *)
(* resource's rate rises only with a measurement of it or by its being     *)
(* switched on, however long the clock has run and whichever operation     *)
(* computes it anew; and tick() serves nothing over a resource whose       *)
(* measurement is past the threshold, although it may admit a parked flow  *)
(* by the rate of an earlier step.                                         *)
StaleNeverFresh ==
  [][ \A r \in Resources :
        /\ governed'[r] > governed[r] => age'[r] = 0 \/ ~ enabled[r]
        /\ age[r] < Window \/ allocated'[r] = 0 \/ ~ Tick ]_vars

(* A parked flow for which there is room, by figures computed afresh, does *)
(* not stay parked for ever although admit_queued trusts cached figures.   *)
HasRoom(f) ==
  /\ fstate[f] = "Queued"
  /\ Fits(spec[f], GovernedOf(known, enabled, measured, age),
          ReservedOf(fstate, spec, reservations, rsvRate),
          AllocatedOf(fstate, spec, granted))

QueuedFlowsAdmitted == \A f \in Flows : []<>(~ HasRoom(f))

(* What docs/ARCHITECTURE.md says of admission: "admission defers or       *)
(* rejects when guarantees cannot be honored".  A step that admits a flow  *)
(* leaves the minima of all admitted flows within each link's capacity.    *)
AdmissionHonoursMinima ==
  [][ \A f \in Flows :
        fstate[f] \in {"Absent", "Queued"} /\ fstate'[f] \in Scheduled =>
          \A r \in HopsOf(f, spec') :
            Total([g \in Flows |-> spec'[g].min],
                  { g \in Flows : fstate'[g] \in Scheduled /\ r \in HopsOf(g, spec') })
              <= governed'[r] ]_vars
===============================================================================
