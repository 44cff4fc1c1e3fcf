---------------------------- MODULE RateProofs -----------------------------
(***************************************************************************)
(* What rests on the rates.  The governor keeps every grant and every      *)
(* reserved rate within the envelope of its flow, and a scheduling pass    *)
(* hands out no more of a resource than is governed there and not held by  *)
(* others.  In the running system it follows that a flow tick() cannot     *)
(* interrupt goes on running, and with it that attempts are dispatched in  *)
(* order and once.                                                         *)
(***************************************************************************)
EXTENDS CoordinatorProofs, TotalProofs

(* The rates of the governor, typed.                                       *)
RateTypes ==
  /\ governed \in [Resources -> Nat]
  /\ reserved \in [Resources -> Nat]
  /\ allocated \in [Resources -> Nat]
  /\ granted \in [Flows -> Nat]
  /\ rsvRate \in [Flows -> [RsvNums -> Nat]]

(* A flow's rates keep to the envelope it was submitted with, and once it  *)
(* was admitted its path leads over known resources.                       *)
FlowRates(f) ==
  /\ fstate[f] = "Absent" => granted[f] = 0 /\ \A n \in RsvNums : rsvRate[f][n] = 0
  /\ fstate[f] # "Absent" =>
       /\ ValidSpec(spec[f])
       /\ granted[f] <= spec[f].max
       /\ \A n \in RsvNums : rsvRate[f][n] <= spec[f].max
  /\ fstate[f] \in Scheduled \cup {"Preempted"} => HopsOf(f, spec) \subseteq known

(* The rates of the governor are in order.                                 *)
RatesInv == RateTypes /\ \A f \in Flows : FlowRates(f)

(* Everything a step starts from.                                          *)
Inv == TypeOK /\ ReservationHistory /\ RatesInv

-------------------------------------------------------------------------------
(* What recompute_governed, recompute_reserved and recompute_allocated     *)
(* return are rates again.                                                 *)
LEMMA GovernedType ==
  ASSUME NEW kn, NEW en, NEW ms \in [Resources -> Nat], NEW ag \in [Resources -> 0..MaxAge]
  PROVE  GovernedOf(kn, en, ms, ag) \in [Resources -> Nat]
  <1> SUFFICES ASSUME NEW r \in Resources
               PROVE  GovernedRate(Nominal[r], ms[r], ag[r]) \in Nat
    BY Zenon DEF GovernedOf
  <1> DEFINE rate == IF ms[r] > 0 THEN ms[r] ELSE Nominal[r]
             left == Freshness(ag[r])
  <1>1. Nominal[r] \in Nat /\ ms[r] \in Nat /\ ag[r] \in Nat /\ Window \in Nat /\ Window > 0
    BY ConstantsAssumption
  <1>2. rate \in Nat /\ left \in Nat
    BY <1>1 DEF Freshness
  <1> HIDE DEF rate, left
  <1>3. rate * left \in Nat
    BY <1>2
  <1>4. (rate * left) \div Window \in Nat
    BY <1>1, <1>3, Division, Zenon
  <1>5. QED
    BY <1>1, <1>4, Zenon DEF GovernedRate, rate, left

(* recompute_reserved                                                      *)
LEMMA ReservedType ==
  ASSUME NEW st, NEW sp, NEW rs, NEW rate \in [Flows -> [RsvNums -> Nat]]
  PROVE  ReservedOf(st, sp, rs, rate) \in [Resources -> Nat]
  <1> DEFINE all == Flows \X RsvNums
             g == [x \in all |-> rate[x[1]][x[2]]]
             held(r) == { x \in all : /\ rs[x[1]][x[2]].state \in {"Active", "Pending"}
                                      /\ st[x[1]] \notin Scheduled
                                      /\ r \in HopsOf(x[1], sp) }
  <1>1. IsFiniteSet(RsvNums)
    BY ConstantsAssumption, FS_Interval DEF RsvNums
  <1>2. IsFiniteSet(all)
    BY <1>1, FlowsAssumption, FS_Product, Zenon
  <1>3. \A x \in all : g[x] \in Nat
    BY Zenon
  <1>4. \A r \in Resources : held(r) \in SUBSET all
    BY Zenon
  <1>5. ReservedOf(st, sp, rs, rate) = [r \in Resources |-> Total(g, held(r))]
    BY Zenon DEF ReservedOf
  <1> HIDE DEF all, g, held
  <1>6. \A r \in Resources : IsFiniteSet(held(r))
    BY <1>2, <1>4, FS_Subset, Zenon
  <1>7. \A r \in Resources : Total(g, held(r)) \in Nat
    BY <1>3, <1>4, <1>6, TotalType, Zenon
  <1>8. QED
    BY <1>5, <1>7, Zenon

(* recompute_allocated                                                     *)
LEMMA AllocatedType ==
  ASSUME NEW st, NEW sp, NEW gr \in [Flows -> Nat]
  PROVE  AllocatedOf(st, sp, gr) \in [Resources -> Nat]
  <1> DEFINE served(r) == { f \in Flows : st[f] \in Served /\ r \in HopsOf(f, sp) }
  <1>1. \A r \in Resources : served(r) \in SUBSET Flows
    BY Zenon
  <1>2. AllocatedOf(st, sp, gr) = [r \in Resources |-> Total(gr, served(r))]
    BY Zenon DEF AllocatedOf
  <1> HIDE DEF served
  <1>3. \A r \in Resources : IsFiniteSet(served(r))
    BY <1>1, FS_Subset, FlowsAssumption, Zenon
  <1>4. \A r \in Resources : Total(gr, served(r)) \in Nat
    BY <1>1, <1>3, TotalType, Zenon
  <1>5. QED
    BY <1>2, <1>4, Zenon

(* An admitted flow is granted a rate within its envelope.                 *)
LEMMA GrantInEnvelope ==
  ASSUME NEW s \in Specs, ValidSpec(s),
         NEW gov \in [Resources -> Nat], NEW rsvd \in [Resources -> Nat],
         NEW allc \in [Resources -> Nat]
  PROVE  AdmissionGrant(s, gov, rsvd, allc) \in Nat
         /\ AdmissionGrant(s, gov, rsvd, allc) <= s.max
  <1> DEFINE left == { Avail(gov, rsvd, allc, r) : r \in Hops[s.path] }
  <1>1. s.path \in Paths /\ s.min \in Nat /\ s.pref \in Nat /\ s.max \in Nat
    BY ConstantsAssumption, Zenon DEF FlowSpec
  <1>2. Hops[s.path] # {} /\ Hops[s.path] \subseteq Resources
    BY <1>1, ConstantsAssumption, Zenon
  <1>3. \A r \in Resources : Avail(gov, rsvd, allc, r) \in Nat
    BY DEF Avail, NonNeg
  <1>4. left \in SUBSET Nat /\ left # {}
    BY <1>2, <1>3, Zenon
  <1> HIDE DEF left
  <1>5. Min(left) \in Nat
    BY <1>4, MinIsLeast, Zenon
  <1>6. AdmissionGrant(s, gov, rsvd, allc) = Larger(s.min, Smaller(Smaller(s.pref, s.max), Min(left)))
    BY Zenon DEF AdmissionGrant, left
  <1>7. QED
    BY <1>1, <1>5, <1>6 DEF Larger, Smaller, ValidSpec

(* A flow's rates stay in order when a step leaves them alone and admits   *)
(* nobody.                                                                 *)
LEMMA RatesFrame ==
  ASSUME NEW f \in Flows, FlowRates(f), known \subseteq known',
         UNCHANGED <<spec[f], granted[f], rsvRate[f]>>,
         fstate[f] = "Absent" <=> fstate'[f] = "Absent",
         fstate'[f] \in Scheduled \cup {"Preempted"} => fstate[f] \in Scheduled \cup {"Preempted"}
  PROVE  FlowRates(f)'
  BY Zenon DEF FlowRates, HopsOf, ValidSpec

(* They stay in order when the flow is admitted at some rate.              *)
LEMMA RatesAdmitted ==
  ASSUME NEW f \in Flows, NEW s \in Specs, NEW grant \in Nat, NEW n \in RsvNums,
         rsvRate \in [Flows -> [RsvNums -> Nat]],
         ValidSpec(s), grant <= s.max, Hops[s.path] \subseteq known',
         \A k \in RsvNums : rsvRate[f][k] <= s.max,
         spec'[f] = s, fstate'[f] # "Absent", granted'[f] \in Nat, granted'[f] <= s.max,
         rsvRate'[f] = [rsvRate[f] EXCEPT ![n] = grant]
  PROVE  FlowRates(f)'
  BY Zenon DEF FlowRates, HopsOf, ValidSpec

(* Operations on resources, paths and the clock.                           *)
LEMMA CapacityRates ==
  ASSUME Inv, CapacityNext
  PROVE  RatesInv'
  <1>1. /\ UNCHANGED <<fstate, spec, granted, rsvRate, reserved, allocated>>
        /\ known \subseteq known'
        /\ governed' = governed \/ governed' = GovernedOf(known', enabled', measured', age')
    BY Zenon DEF CapacityNext, AddResource, UpdateCapacity, SetResourceEnabled,
           InvalidateResourceCapacity, AddPath, Elapse, flowVars, rsvVars, loadVars,
           capacityVars, RecomputeGoverned
  <1>2. TypeOK'
    BY CapacityTypeOK, Zenon DEF Inv
  <1>3. GovernedOf(known', enabled', measured', age') \in [Resources -> Nat]
    BY <1>2, GovernedType, Zenon DEF TypeOK
  <1>4. RateTypes'
    BY <1>1, <1>3, Zenon DEF Inv, RatesInv, RateTypes
  <1>5. \A f \in Flows : FlowRates(f)'
    BY <1>1, RatesFrame, Zenon DEF Inv, RatesInv
  <1>6. QED
    BY <1>4, <1>5, Zenon DEF RatesInv

(* Submission, whether the flow is parked or admitted.                     *)
LEMMA SubmitRates ==
  ASSUME Inv, NEW f \in Flows, NEW s \in Specs, SubmitFlow(f, s)
  PROVE  RatesInv'
  <1> DEFINE gov == GovernedOf(known, enabled, measured, age)
             rsvd == ReservedOf(fstate, spec, reservations, rsvRate)
             allc == AllocatedOf(fstate, spec, granted)
             grant == AdmissionGrant(s, gov, rsvd, allc)
             n == minted[f] + 1
  <1>1. /\ fstate[f] = "Absent" /\ ValidSpec(s) /\ spec' = [spec EXCEPT ![f] = s]
        /\ known' = known
    BY Zenon DEF SubmitFlow
  <1>2. /\ granted \in [Flows -> Nat] /\ rsvRate \in [Flows -> [RsvNums -> Nat]]
        /\ spec \in [Flows -> Specs \cup {NoSpec}] /\ fstate = [e \in Flows |-> fstate[e]]
        /\ \A e \in Flows : FlowRates(e)
    BY Zenon DEF Inv, RatesInv, RateTypes, TypeOK
  <1>3. gov \in [Resources -> Nat]
    BY GovernedType, Zenon DEF Inv, TypeOK
  <1>4. rsvd \in [Resources -> Nat]
    BY <1>2, ReservedType, Zenon
  <1>5. allc \in [Resources -> Nat]
    BY <1>2, AllocatedType, Zenon
  <1> HIDE DEF gov, rsvd, allc
  <1>6. grant \in Nat /\ grant <= s.max
    BY <1>1, <1>3, <1>4, <1>5, GrantInEnvelope, Zenon
  <1>7. s.max \in Nat
    BY ConstantsAssumption, Zenon DEF FlowSpec
  <1>8. granted[f] = 0 /\ \A k \in RsvNums : rsvRate[f][k] = 0
    BY <1>1, <1>2, Zenon DEF FlowRates
  <1>9. CASE SubmitDeferred(f, s)
    <2>1. /\ governed' = gov /\ reserved' = rsvd /\ allocated' = allc
          /\ fstate' = [fstate EXCEPT ![f] = "Queued"]
          /\ UNCHANGED <<granted, rsvRate>>
      BY <1>9, Zenon DEF SubmitDeferred, gov, rsvd, allc, rsvVars
    <2>2. FlowRates(f)'
      <3>1. fstate'[f] = "Queued" /\ spec'[f] = s
        BY <1>1, <1>2, <2>1, Zenon
      <3>2. QED
        BY <1>1, <1>7, <1>8, <2>1, <3>1 DEF FlowRates, Scheduled, ValidSpec
    <2>3. ASSUME NEW e \in Flows, e # f PROVE FlowRates(e)'
      BY <1>1, <1>2, <2>1, <2>3, RatesFrame, Zenon
    <2>4. QED
      BY <1>2, <1>3, <1>4, <1>5, <2>1, <2>2, <2>3, Zenon DEF RatesInv, RateTypes
  <1>10. CASE SubmitAdmitted(f, s)
    <2>1. /\ Fits(s, gov, rsvd, allc) /\ n \in RsvNums
          /\ fstate' = [fstate EXCEPT ![f] = "Reserved"]
          /\ granted' = [granted EXCEPT ![f] = grant]
          /\ rsvRate' = [rsvRate EXCEPT ![f][n] = grant]
          /\ governed' = gov
          /\ RecomputeLoad
      BY <1>10, Zenon DEF SubmitAdmitted, gov, rsvd, allc
    <2> HIDE DEF grant, n
    <2>2. granted' \in [Flows -> Nat] /\ rsvRate' \in [Flows -> [RsvNums -> Nat]]
      BY <1>2, <1>6, <2>1, Zenon
    <2>3. reserved' \in [Resources -> Nat]
      BY <2>1, <2>2, ReservedType, Zenon DEF RecomputeLoad
    <2>4. allocated' \in [Resources -> Nat]
      BY <2>1, <2>2, AllocatedType, Zenon DEF RecomputeLoad
    <2>5. FlowRates(f)'
      <3>1. /\ fstate'[f] = "Reserved" /\ spec'[f] = s /\ granted'[f] = grant
            /\ rsvRate'[f] = [rsvRate[f] EXCEPT ![n] = grant]
        BY <1>1, <1>2, <2>1, Zenon
      <3>2. Hops[s.path] \subseteq known'
        BY <1>1, <2>1, Zenon DEF Fits
      <3>3. \A k \in RsvNums : rsvRate[f][k] <= s.max
        BY <1>7, <1>8
      <3>4. QED
        BY <1>1, <1>2, <1>6, <2>1, <3>2, <3>3, RatesAdmitted, Zenon
    <2>6. ASSUME NEW e \in Flows, e # f PROVE FlowRates(e)'
      BY <1>1, <1>2, <2>1, <2>6, RatesFrame, Zenon
    <2>7. QED
      BY <1>3, <2>1, <2>2, <2>3, <2>4, <2>5, <2>6, Zenon DEF RatesInv, RateTypes
  <1>11. QED
    BY <1>9, <1>10, Zenon DEF SubmitFlow

(* Settling, resuming and releasing leave every rate alone and recompute   *)
(* the loads, or not, from them.                                           *)
LEMMA QuietRates ==
  ASSUME Inv, known' = known, UNCHANGED <<spec, granted, rsvRate, governed>>,
         \A f \in Flows :
           \/ fstate'[f] = fstate[f]
           \/ fstate[f] # "Absent" /\ fstate'[f] \in TerminalFlow
           \/ fstate[f] \in {"Preempted", "Throttled"} /\ fstate'[f] = "Reserved",
         \/ reserved' = reserved
         \/ reserved' = ReservedOf(fstate', spec', reservations', rsvRate'),
         allocated' = allocated \/ allocated' = AllocatedOf(fstate', spec', granted')
  PROVE  RatesInv'
  <1>1. RateTypes /\ \A f \in Flows : FlowRates(f)
    BY Zenon DEF Inv, RatesInv
  <1>2. reserved' \in [Resources -> Nat]
    BY <1>1, ReservedType DEF RateTypes
  <1>3. allocated' \in [Resources -> Nat]
    BY <1>1, AllocatedType DEF RateTypes
  <1>4. RateTypes'
    BY <1>1, <1>2, <1>3, Zenon DEF RateTypes
  <1>5. \A f \in Flows : FlowRates(f)'
    <2> TAKE f \in Flows
    <2>1. /\ fstate[f] = "Absent" <=> fstate'[f] = "Absent"
          /\ fstate'[f] \in Scheduled \cup {"Preempted"} => fstate[f] \in Scheduled \cup {"Preempted"}
      BY Zenon DEF TerminalFlow, Scheduled
    <2>2. QED
      BY <1>1, <2>1, RatesFrame, Zenon
  <1>6. QED
    BY <1>4, <1>5, Zenon DEF RatesInv

(* The retry's reservation stays within the flow's envelope.               *)
LEMMA RegisterRates ==
  ASSUME Inv, NEW w \in Workers, NEW b \in Boots, RegisterWorker(w, b)
  PROVE  RatesInv'
  <1> DEFINE R == RolledBy(w, b)
  <1>1. /\ \A f \in R : minted[f] + 1 \in RsvNums
        /\ known \subseteq known'
        /\ fstate' = [f \in Flows |-> IF f \in R THEN "Reserved" ELSE fstate[f]]
        /\ granted' = [f \in Flows |-> IF f \in R THEN RollRate(f) ELSE granted[f]]
        /\ rsvRate' = [f \in Flows |->
                         IF f \in R THEN [rsvRate[f] EXCEPT ![minted[f] + 1] = RollRate(f)]
                                    ELSE rsvRate[f]]
        /\ governed' = GovernedOf(known', enabled', measured', age')
        /\ UNCHANGED <<spec, reserved, allocated>>
    BY Zenon DEF RegisterWorker, RecomputeGoverned, loadVars
  <1>2. \A f \in R : f \in Flows /\ fstate[f] = "Running"
    BY Zenon DEF RolledBy
  <1> HIDE DEF R
  <1>3. /\ granted \in [Flows -> Nat] /\ rsvRate \in [Flows -> [RsvNums -> Nat]]
        /\ reserved \in [Resources -> Nat] /\ allocated \in [Resources -> Nat]
        /\ \A f \in Flows : FlowRates(f) /\ FlowHistory(f)
    BY Zenon DEF Inv, RatesInv, RateTypes, ReservationHistory
  <1>4. ASSUME NEW f \in R
        PROVE  /\ spec[f] \in Specs /\ ValidSpec(spec[f]) /\ spec[f].max \in Nat
               /\ RollRate(f) \in Nat /\ RollRate(f) <= spec[f].max
    <2>1. spec[f] \in Specs
      BY <1>2, <1>3, Zenon DEF FlowHistory
    <2>2. spec[f].min \in Nat /\ spec[f].pref \in Nat /\ spec[f].max \in Nat
      BY <2>1, ConstantsAssumption, Zenon DEF FlowSpec
    <2>3. ValidSpec(spec[f]) /\ granted[f] \in Nat /\ granted[f] <= spec[f].max
      BY <1>2, <1>3, Zenon DEF FlowRates
    <2>4. QED
      BY <2>1, <2>2, <2>3 DEF RollRate, Larger, ValidSpec
  <1>5. granted' \in [Flows -> Nat] /\ rsvRate' \in [Flows -> [RsvNums -> Nat]]
    BY <1>1, <1>3, <1>4, Zenon
  <1>6. governed' \in [Resources -> Nat]
    <2>1. TypeOK'
      <3>1. WorkerNext
        BY Zenon DEF WorkerNext
      <3>2. QED
        BY <3>1, WorkerTypeOK, Zenon DEF Inv
    <2>2. QED
      BY <1>1, <2>1, GovernedType, Zenon DEF TypeOK
  <1>7. ASSUME NEW f \in Flows PROVE FlowRates(f)'
    <2>1. CASE f \in R
      <3>1. /\ fstate'[f] = "Reserved" /\ granted'[f] = RollRate(f) /\ spec'[f] = spec[f]
            /\ rsvRate'[f] = [rsvRate[f] EXCEPT ![minted[f] + 1] = RollRate(f)]
            /\ minted[f] + 1 \in RsvNums
        BY <1>1, <2>1, Zenon
      <3>2. Hops[spec[f].path] \subseteq known'
        BY <1>1, <1>2, <1>3, <2>1, Zenon DEF FlowRates, HopsOf, Scheduled
      <3>3. \A k \in RsvNums : rsvRate[f][k] <= spec[f].max
        BY <1>2, <1>3, <2>1, Zenon DEF FlowRates
      <3>4. QED
        BY <1>3, <1>4, <2>1, <3>1, <3>2, <3>3, RatesAdmitted, Zenon
    <2>2. CASE f \notin R
      BY <1>1, <1>3, <2>2, RatesFrame, Zenon
    <2>3. QED
      BY <2>1, <2>2, Zenon
  <1>8. QED
    BY <1>1, <1>3, <1>5, <1>6, <1>7, Zenon DEF RatesInv, RateTypes

(* What allocate_weighted hands out on a resource: no flow more than it    *)
(* prefers, all together no more than there is.                            *)
LEMMA SharesFit ==
  ASSUME NEW S \in SUBSET Flows, NEW cap \in Nat, NEW g \in Shares(S, cap),
         \A f \in S : spec[f] \in Specs /\ ValidSpec(spec[f])
  PROVE  /\ \A f \in S : g[f] \in Nat /\ g[f] <= spec[f].pref
         /\ Total(g, S) <= cap
  <1> DEFINE pref == [f \in S |-> spec[f].pref]
             mins == [f \in S |-> spec[f].min]
             rate == [S -> 0..cap]
  <1>1. IsFiniteSet(S)
    BY FS_Subset, FlowsAssumption, Zenon
  <1>2. \A f \in S : spec[f].min \in Nat /\ spec[f].pref \in Nat /\ spec[f].min <= spec[f].pref
    BY ConstantsAssumption, Zenon DEF FlowSpec, ValidSpec
  <1>3. Total(pref, S) \in Nat
    <2>1. \A f \in S : pref[f] \in Nat
      BY <1>2, Zenon
    <2>2. QED
      BY <1>1, <2>1, TotalType, Zenon
  <1>4. CASE cap = 0
    <2>1. \A f \in S : g[f] = 0
      BY <1>4, Zenon DEF Shares
    <2>2. Total(g, S) = 0
      BY <1>1, <2>1, TotalZero, Zenon
    <2>3. QED
      BY <1>2, <2>1, <2>2
  <1>5. CASE cap # 0
    <2>1. /\ g \in rate
          /\ (\A f \in S : g[f] <= spec[f].min) \/ (\A f \in S : g[f] <= spec[f].pref)
          /\ Total(g, S) = cap \/ Total(g, S) = Smaller(cap, Total(pref, S))
      <3>1. CASE Total(mins, S) > cap
        BY <1>5, Zenon DEF Shares
      <3>2. CASE ~ (Total(mins, S) > cap)
        BY <1>5, Zenon DEF Shares
      <3>3. QED
        BY <3>1, <3>2, Zenon
    <2>2. \A f \in S : g[f] \in Nat
      BY <2>1
    <2>3. \A f \in S : g[f] <= spec[f].pref
      BY <1>2, <2>1
    <2>4. Total(g, S) <= cap
      BY <1>3, <2>1 DEF Smaller
    <2>5. QED
      BY <2>2, <2>3, <2>4, Zenon
  <1>6. QED
    BY <1>4, <1>5, Zenon

-------------------------------------------------------------------------------
(* The flows tick() serves, the ones it has just admitted included, those  *)
(* of them that cross a resource, and what the flows it does not serve     *)
(* hold of each resource.                                                  *)
TickScheduled == { f \in Flows : StateAfterAdmission(AdmittedByTick)[f] \in Scheduled }

Crossing(r) == { f \in TickScheduled : r \in HopsOf(f, spec) }

Held == ReservedOf(fstate, spec, reservations, rsvRate)

(* Their specifications are sound and their paths lead over known          *)
(* resources: those served before by the invariant, the others because     *)
(* they were found to fit.                                                 *)
LEMMA ScheduledSound ==
  ASSUME Inv, NEW f \in TickScheduled
  PROVE  /\ f \in Flows /\ spec[f] \in Specs /\ ValidSpec(spec[f])
         /\ spec[f].min \in Nat /\ spec[f].pref \in Nat /\ spec[f].max \in Nat
         /\ HopsOf(f, spec) # {} /\ HopsOf(f, spec) \subseteq known
         /\ fstate[f] # "Absent"
  <1> DEFINE A == AdmittedByTick
  <1>1. f \in Flows /\ StateAfterAdmission(A)[f] = IF f \in A THEN "Reserved" ELSE fstate[f]
    BY Zenon DEF TickScheduled, StateAfterAdmission
  <1>2. f \in A => fstate[f] = "Queued" /\ Fits(spec[f], governed, reserved, allocated)
    BY Zenon DEF AdmittedByTick
  <1>3. f \notin A => fstate[f] \in Scheduled
    BY <1>1, Zenon DEF TickScheduled
  <1> HIDE DEF A
  <1>4. fstate[f] # "Absent"
    BY <1>2, <1>3, Zenon DEF Scheduled
  <1>5. FlowRates(f) /\ FlowHistory(f)
    BY <1>1, Zenon DEF Inv, RatesInv, ReservationHistory
  <1>6. spec[f] \in Specs /\ ValidSpec(spec[f])
    BY <1>4, <1>5, Zenon DEF FlowHistory, FlowRates
  <1>7. /\ spec[f].min \in Nat /\ spec[f].pref \in Nat /\ spec[f].max \in Nat
        /\ spec[f].path \in Paths
    BY <1>6, ConstantsAssumption, Zenon DEF FlowSpec
  <1>8. HopsOf(f, spec) # {}
    BY <1>7, ConstantsAssumption, Zenon DEF HopsOf
  <1>9. HopsOf(f, spec) \subseteq known
    BY <1>2, <1>3, <1>5, Zenon DEF Fits, HopsOf, FlowRates
  <1>10. QED
    BY <1>1, <1>4, <1>6, <1>7, <1>8, <1>9, Zenon

(* Admissions of the same tick do not change what flows outside the        *)
(* schedule hold: a parked flow holds nothing, an admitted one is served.  *)
LEMMA HeldKept ==
  ASSUME Inv
  PROVE  ReservedOf(StateAfterAdmission(AdmittedByTick), spec,
                    ReservationsAfterAdmission(AdmittedByTick),
                    RatesAfterAdmission(AdmittedByTick)) = Held
  <1> DEFINE A == AdmittedByTick
             st == StateAfterAdmission(A)
             rs == ReservationsAfterAdmission(A)
             rate == RatesAfterAdmission(A)
             all == Flows \X RsvNums
             g == [x \in all |-> rsvRate[x[1]][x[2]]]
             h == [x \in all |-> rate[x[1]][x[2]]]
             old(r) == { x \in all : /\ reservations[x[1]][x[2]].state \in {"Active", "Pending"}
                                     /\ fstate[x[1]] \notin Scheduled
                                     /\ r \in HopsOf(x[1], spec) }
             new(r) == { x \in all : /\ rs[x[1]][x[2]].state \in {"Active", "Pending"}
                                     /\ st[x[1]] \notin Scheduled
                                     /\ r \in HopsOf(x[1], spec) }
  <1>1. \A f \in Flows : /\ st[f] = IF f \in A THEN "Reserved" ELSE fstate[f]
                         /\ f \notin A => rs[f] = reservations[f] /\ rate[f] = rsvRate[f]
    BY Zenon DEF StateAfterAdmission, ReservationsAfterAdmission, RatesAfterAdmission
  <1>2. ASSUME NEW f \in A, NEW n \in RsvNums
        PROVE  reservations[f][n].state \notin {"Active", "Pending"}
    <2>1. f \in Flows /\ fstate[f] = "Queued"
      BY Zenon DEF AdmittedByTick
    <2>2. FlowHistory(f) /\ minted[f] = 0
      BY <2>1, Zenon DEF Inv, ReservationHistory, FlowHistory
    <2>3. n > minted[f]
      BY <2>2 DEF RsvNums
    <2>4. reservations[f][n].state = "Unminted"
      BY <2>2, <2>3, Zenon DEF FlowHistory
    <2>5. QED
      BY <2>4, Zenon
  <1> HIDE DEF A, st, rs, rate
  <1>3. \A r \in Resources : old(r) = new(r) /\ \A x \in old(r) : x[1] \notin A
    BY <1>1, <1>2, Zenon DEF Scheduled
  <1>4. \A r \in Resources : \A x \in old(r) : x \in all /\ h[x] = g[x]
    BY <1>1, <1>3, Zenon
  <1>5. \A x \in all : g[x] \in Nat
    BY Zenon DEF Inv, RatesInv, RateTypes
  <1>6. \A r \in Resources : IsFiniteSet(old(r))
    <2>1. IsFiniteSet(RsvNums)
      BY ConstantsAssumption, FS_Interval DEF RsvNums
    <2>2. IsFiniteSet(all)
      BY <2>1, FlowsAssumption, FS_Product, Zenon
    <2>3. \A r \in Resources : old(r) \in SUBSET all
      BY Zenon
    <2> HIDE DEF all, old
    <2>4. QED
      BY <2>2, <2>3, FS_Subset, Zenon
  <1>7. Held = [r \in Resources |-> Total(g, old(r))]
    BY Zenon DEF Held, ReservedOf
  <1>8. ReservedOf(st, spec, rs, rate) = [r \in Resources |-> Total(h, new(r))]
    BY Zenon DEF ReservedOf
  <1> HIDE DEF all, g, h, old, new
  <1>9. \A r \in Resources : Total(g, old(r)) = Total(h, new(r))
    <2> TAKE r \in Resources
    <2>1. \A x \in old(r) : g[x] \in Nat /\ g[x] = h[x]
      BY <1>4, <1>5, Zenon
    <2>2. Total(g, old(r)) = Total(h, old(r))
      BY <1>6, <2>1, TotalEqual, Zenon
    <2>3. QED
      BY <1>3, <2>2, Zenon
  <1>10. QED
    BY <1>7, <1>8, <1>9, Zenon DEF A, st, rs, rate

(* A tick's outcome: each flow it serves gets no more than its share of    *)
(* any hop, and the shares of a hop fit in what the hop has to share.      *)
LEMMA TickOutcome ==
  ASSUME Inv, Tick
  PROVE  /\ \A f \in TickScheduled : granted'[f] \in Nat /\ granted'[f] <= spec[f].pref
         /\ \A f \in Flows \ TickScheduled : granted'[f] = granted[f]
         /\ granted' = [f \in Flows |-> granted'[f]]
         /\ governed' \in [Resources -> Nat] /\ Held \in [Resources -> Nat]
         /\ \A r \in known : \E share :
              /\ \A f \in Crossing(r) : share[f] \in Nat /\ granted'[f] <= share[f]
              /\ Total(share, Crossing(r)) <= NonNeg(governed'[r] - Held[r])
  <1> DEFINE A == AdmittedByTick
             gov == GovernedOf(known, enabled, measured, age)
             rsvd == ReservedOf(StateAfterAdmission(A), spec, ReservationsAfterAdmission(A),
                                RatesAfterAdmission(A))
             share == [ r \in known |-> Shares(Crossing(r), TickCapacity(gov, rsvd, r)) ]
  <1>1. PICK alloc \in [known -> UNION { share[r] : r \in known }] :
          /\ \A r \in known : alloc[r] \in share[r]
          /\ granted' = [f \in Flows |->
                           IF f \in TickScheduled THEN PathGrant(alloc, f) ELSE granted[f]]
    BY Zenon DEF Tick, TickScheduled, Crossing
  <1>2. governed' = gov
    BY Zenon DEF Tick
  <1>3. rsvd = Held
    BY HeldKept, Zenon
  <1>4. gov \in [Resources -> Nat]
    BY GovernedType, Zenon DEF Inv, TypeOK
  <1>5. Held \in [Resources -> Nat]
    BY ReservedType, Zenon DEF Held, Inv, RatesInv, RateTypes
  <1>6. \A r \in known : alloc[r] \in Shares(Crossing(r), NonNeg(governed'[r] - Held[r]))
    BY <1>1, <1>2, <1>3, Zenon DEF TickCapacity
  <1> HIDE DEF gov, rsvd, share, A
  <1>7. \A r \in known : r \in Resources /\ NonNeg(governed'[r] - Held[r]) \in Nat
    <2>1. known \subseteq Resources
      BY Zenon DEF Inv, TypeOK
    <2>2. \A r \in Resources : governed'[r] \in Nat /\ Held[r] \in Nat
      BY <1>2, <1>4, <1>5, Zenon
    <2>3. QED
      BY <2>1, <2>2 DEF NonNeg
  <1>8. \A r \in known :
          /\ \A f \in Crossing(r) : alloc[r][f] \in Nat /\ alloc[r][f] <= spec[f].pref
          /\ Total(alloc[r], Crossing(r)) <= NonNeg(governed'[r] - Held[r])
    <2> TAKE r \in known
    <2>1. Crossing(r) \in SUBSET Flows
      BY Zenon DEF Crossing, TickScheduled
    <2>2. \A f \in Crossing(r) : spec[f] \in Specs /\ ValidSpec(spec[f])
      BY ScheduledSound, Zenon DEF Crossing
    <2>3. QED
      BY <1>6, <1>7, <2>1, <2>2, SharesFit, Zenon
  <1>9. ASSUME NEW f \in TickScheduled
        PROVE  /\ granted'[f] \in Nat /\ granted'[f] <= spec[f].pref
               /\ \A r \in HopsOf(f, spec) : granted'[f] <= alloc[r][f]
    <2> DEFINE parts == { alloc[r][f] : r \in HopsOf(f, spec) }
    <2>1. /\ HopsOf(f, spec) # {} /\ HopsOf(f, spec) \subseteq known /\ f \in Flows
          /\ spec[f].pref \in Nat
      BY ScheduledSound, Zenon
    <2>2. \A r \in HopsOf(f, spec) : alloc[r][f] \in Nat /\ alloc[r][f] <= spec[f].pref
      BY <1>8, <2>1, Zenon DEF Crossing
    <2>3. parts \in SUBSET Nat /\ parts # {}
      BY <2>1, <2>2, Zenon
    <2>4. granted'[f] = Min(parts)
      BY <1>1, <2>1, Zenon DEF PathGrant
    <2>5. Min(parts) \in parts /\ \A m \in parts : Min(parts) <= m
      BY <2>3, MinIsLeast, Zenon
    <2>6. QED
      BY <2>2, <2>4, <2>5, Zenon
  <1>10. ASSUME NEW r \in known
         PROVE  \A f \in Crossing(r) : alloc[r][f] \in Nat /\ granted'[f] <= alloc[r][f]
    BY <1>8, <1>9, Zenon DEF Crossing
  <1>11. QED
    <2>1. \A f \in Flows \ TickScheduled : granted'[f] = granted[f]
      BY <1>1, Zenon
    <2>2. granted' = [f \in Flows |-> granted'[f]]
      BY <1>1, Zenon
    <2>3. QED
      BY <1>2, <1>4, <1>5, <1>8, <1>9, <1>10, <2>1, <2>2, Zenon

(* A tick keeps every rate within its flow's envelope.                     *)
LEMMA TickRates ==
  ASSUME Inv, Tick
  PROVE  RatesInv'
  <1> DEFINE A == AdmittedByTick
             st == StateAfterAdmission(A)
             grant(f) == AdmissionGrant(spec[f], governed, reserved, allocated)
  <1>1. /\ fstate' = [f \in Flows |->
                        IF f \in TickScheduled THEN Rescheduled(st[f], spec[f], granted'[f])
                                              ELSE st[f]]
        /\ rsvRate' = [f \in Flows |->
                         IF f \in A THEN [rsvRate[f] EXCEPT ![minted[f] + 1] = grant(f)]
                                    ELSE rsvRate[f]]
        /\ \A f \in A : minted[f] + 1 \in RsvNums
        /\ UNCHANGED <<known, spec>>
        /\ RecomputeLoad
    BY Zenon DEF Tick, TickScheduled, RatesAfterAdmission
  <1>2. \A f \in Flows : st[f] = IF f \in A THEN "Reserved" ELSE fstate[f]
    BY Zenon DEF StateAfterAdmission
  <1>3. A \subseteq TickScheduled
    BY <1>2, Zenon DEF TickScheduled, Scheduled, AdmittedByTick
  <1>4. \A f \in Flows : f \in TickScheduled <=> st[f] \in Scheduled
    BY Zenon DEF TickScheduled
  <1>5. /\ granted \in [Flows -> Nat] /\ rsvRate \in [Flows -> [RsvNums -> Nat]]
        /\ governed \in [Resources -> Nat] /\ reserved \in [Resources -> Nat]
        /\ allocated \in [Resources -> Nat] /\ \A f \in Flows : FlowRates(f)
    BY Zenon DEF Inv, RatesInv, RateTypes
  <1>6. \A f \in A : grant(f) \in Nat /\ grant(f) <= spec[f].max
    BY <1>3, <1>5, ScheduledSound, GrantInEnvelope, Zenon
  <1> HIDE DEF A, st, grant
  <1>7. granted' \in [Flows -> Nat] /\ governed' \in [Resources -> Nat]
    BY <1>5, TickOutcome, Zenon
  <1>8. rsvRate' \in [Flows -> [RsvNums -> Nat]]
    BY <1>1, <1>5, <1>6, Zenon
  <1>9. reserved' \in [Resources -> Nat]
    BY <1>1, <1>8, ReservedType, Zenon DEF RecomputeLoad
  <1>10. allocated' \in [Resources -> Nat]
    BY <1>1, <1>7, AllocatedType, Zenon DEF RecomputeLoad
  <1>11. ASSUME NEW f \in Flows PROVE FlowRates(f)'
    <2>1. CASE f \in TickScheduled
      <3>1. /\ spec[f] \in Specs /\ ValidSpec(spec[f])
            /\ spec[f].pref \in Nat /\ spec[f].max \in Nat
            /\ HopsOf(f, spec) \subseteq known /\ fstate[f] # "Absent"
        BY <2>1, ScheduledSound, Zenon
      <3>2. granted'[f] \in Nat /\ granted'[f] <= spec[f].max
        <4>1. granted'[f] \in Nat /\ granted'[f] <= spec[f].pref
          BY <2>1, TickOutcome, Zenon
        <4>2. QED
          BY <3>1, <4>1 DEF ValidSpec
      <3>3. fstate'[f] # "Absent"
        BY <1>1, <2>1, RescheduledType, Zenon
      <3>4. \A n \in RsvNums : rsvRate'[f][n] <= spec[f].max
        BY <1>1, <1>5, <1>6, <3>1, Zenon DEF FlowRates
      <3>5. QED
        BY <1>1, <3>1, <3>2, <3>3, <3>4, Zenon DEF FlowRates, HopsOf, ValidSpec
    <2>2. CASE f \notin TickScheduled
      <3>1. f \notin A /\ fstate'[f] = fstate[f]
        BY <1>1, <1>2, <1>3, <2>2, Zenon
      <3>2. granted'[f] = granted[f] /\ rsvRate'[f] = rsvRate[f]
        BY <1>1, <2>2, <3>1, TickOutcome, Zenon
      <3>3. QED
        BY <1>1, <1>5, <3>1, <3>2, RatesFrame, Zenon
    <2>3. QED
      BY <2>1, <2>2, Zenon
  <1>12. QED
    BY <1>7, <1>8, <1>9, <1>10, <1>11, Zenon DEF RatesInv, RateTypes

(* Every step keeps the invariant.                                         *)
LEMMA RatesStep == Inv /\ [Next]_vars => Inv'
  <1> SUFFICES ASSUME Inv, [Next]_vars PROVE RatesInv'
    BY StepInvariant, Zenon DEF Inv
  <1>1. CASE UNCHANGED vars
    BY <1>1, QuietRates, Zenon DEF vars, capacityVars, loadVars, flowVars, rsvVars
  <1>2. CASE CapacityNext
    BY <1>2, CapacityRates, Zenon
  <1>4. ASSUME NEW f \in Flows, CancelFlow(f) PROVE RatesInv'
    <2>1. /\ fstate[f] # "Absent" /\ fstate' = [fstate EXCEPT ![f] = "Cancelled"]
          /\ RecomputeLoad /\ UNCHANGED <<known, spec, granted, rsvRate, governed>>
      BY <1>4, Zenon DEF CancelFlow, FlowStates
    <2>2. QED
      BY <2>1, QuietRates DEF RecomputeLoad, TerminalFlow
  <1>5. ASSUME NEW f \in Flows, ResumeFlow(f) PROVE RatesInv'
    <2>1. /\ fstate[f] \in {"Preempted", "Throttled"} /\ fstate' = [fstate EXCEPT ![f] = "Reserved"]
          /\ UNCHANGED <<known, spec, granted, rsvRate, governed, reserved, allocated>>
      BY <1>5, Zenon DEF ResumeFlow, capacityVars, loadVars, rsvVars
    <2>2. QED
      BY <2>1, QuietRates
  <1>6. ASSUME NEW f \in Flows, NEW n \in RsvNums, ReleaseReservation(f, n) PROVE RatesInv'
    <2>1. /\ reserved' = ReservedOf(fstate', spec', reservations', rsvRate')
          /\ UNCHANGED <<known, fstate, spec, granted, rsvRate, governed, allocated>>
      BY <1>6, Zenon DEF ReleaseReservation, flowVars
    <2>2. QED
      BY <2>1, QuietRates, Zenon
  <1>7. CASE FlowNext
    BY <1>4, <1>5, <1>6, <1>7, SubmitRates, TickRates, Zenon DEF FlowNext
  <1>8. ASSUME NEW w \in Workers, DeregisterWorker(w) PROVE RatesInv'
    BY <1>8, QuietRates, Zenon DEF DeregisterWorker, capacityVars, loadVars, rsvVars
  <1>9. ASSUME NEW f \in Flows, NEW a, NEW g, NEW b, NEW done, ReportProgress(f, a, g, b, done)
        PROVE  RatesInv'
    BY <1>9, QuietRates, Zenon DEF ReportProgress, capacityVars, loadVars, rsvVars
  <1>10. ASSUME NEW f \in Flows, NEW a, NEW g, NEW b, NEW done, ReportCompletion(f, a, g, b, done)
         PROVE  RatesInv'
    <2>1. /\ fstate[f] # "Absent" /\ fstate' = [fstate EXCEPT ![f] = "Completed"]
          /\ RecomputeLoad /\ UNCHANGED <<known, spec, granted, rsvRate, governed>>
      BY <1>10, Zenon DEF ReportCompletion, Authorised
    <2>2. QED
      BY <2>1, QuietRates DEF RecomputeLoad, TerminalFlow
  <1>11. CASE WorkerNext
    BY <1>8, <1>9, <1>10, <1>11, RegisterRates, Zenon DEF WorkerNext
  <1>12. QED
    BY <1>1, <1>2, <1>7, <1>11, Zenon DEF Next

(* The rates invariant is inductive together with TypeOK and               *)
(* ReservationHistory, which say which flows hold a reservation and what   *)
(* they asked for.                                                         *)
LEMMA RatesInductive == Spec => []Inv
  <1>1. Init => Inv
    <2> SUFFICES ASSUME Init PROVE RatesInv
      BY InitTypeOK, InitHistory, Zenon DEF Inv
    <2>1. QED
      BY Zenon DEF Init, RatesInv, RateTypes, FlowRates, Scheduled
  <1>2. QED
    BY <1>1, RatesStep, PTL DEF Spec

(* Whatever mixture of admission, scheduling, retry and restart produced   *)
(* it, a grant or a reserved rate stays between zero and the maximum its   *)
(* flow asked for, and no load is negative.                                *)
THEOREM RatesStayInRange == Spec => []RatesInRange
  <1>1. Inv => RatesInRange
    <2> SUFFICES ASSUME Inv PROVE RatesInRange
      BY Zenon
    <2>1. RateTypes /\ \A f \in Flows : FlowRates(f) /\ FlowHistory(f)
      BY Zenon DEF Inv, RatesInv, ReservationHistory
    <2>2. ASSUME NEW f \in Flows, fstate[f] # "Absent"
          PROVE  /\ granted[f] \in 0..spec[f].max
                 /\ \A n \in RsvNums : rsvRate[f][n] \in 0..spec[f].max
      <3>1. spec[f] \in Specs
        BY <2>1, <2>2, Zenon DEF FlowHistory
      <3>2. spec[f].max \in Nat
        BY <3>1, ConstantsAssumption, Zenon DEF FlowSpec
      <3>3. QED
        BY <2>1, <2>2, <3>2 DEF RateTypes, FlowRates
    <2>3. QED
      BY <2>1, <2>2, Zenon DEF RatesInRange, RateTypes
  <1>2. QED
    BY <1>1, RatesInductive, PTL

(* What a tick serves on a resource fits in its governed rate less what    *)
(* flows outside the schedule hold there.                                  *)
LEMMA TickFits ==
  ASSUME Inv, Tick, NEW r \in Resources
  PROVE  allocated'[r] <= NonNeg(governed'[r] - Held[r])
  <1> DEFINE served == { f \in Flows : fstate'[f] \in Served /\ r \in HopsOf(f, spec') }
  <1>1. allocated'[r] = Total(granted', served)
    BY Zenon DEF Tick, RecomputeLoad, AllocatedOf
  <1>2. served \in SUBSET Crossing(r)
    <2>1. spec' = spec
      BY Zenon DEF Tick
    <2>2. \A f \in Flows : f \notin TickScheduled => fstate'[f] \notin Scheduled
      BY Zenon DEF Tick, TickScheduled
    <2>3. QED
      BY <2>1, <2>2, Zenon DEF Crossing, HopsOf, Scheduled, Served
  <1>3. IsFiniteSet(Crossing(r)) /\ \A f \in Crossing(r) : granted'[f] \in Nat
    <2>1. Crossing(r) \in SUBSET Flows
      BY Zenon DEF Crossing, TickScheduled
    <2>2. QED
      BY <2>1, TickOutcome, FS_Subset, FlowsAssumption, Zenon DEF Crossing
  <1>4. NonNeg(governed'[r] - Held[r]) \in Nat
    BY TickOutcome DEF NonNeg
  <1> HIDE DEF served
  <1>5. CASE r \in known
    <2>1. PICK share :
            /\ \A f \in Crossing(r) : share[f] \in Nat /\ granted'[f] <= share[f]
            /\ Total(share, Crossing(r)) <= NonNeg(governed'[r] - Held[r])
      BY <1>5, TickOutcome, Zenon
    <2>2. Total(granted', served) <= Total(share, Crossing(r))
      BY <1>2, <1>3, <2>1, TotalMonotone, Zenon
    <2>3. Total(granted', served) \in Nat /\ Total(share, Crossing(r)) \in Nat
      BY <1>2, <1>3, <2>1, TotalType, FS_Subset, Zenon
    <2>4. QED
      BY <1>1, <1>4, <2>1, <2>2, <2>3
  <1>6. CASE r \notin known
    <2>1. Crossing(r) = {}
      BY <1>6, ScheduledSound, Zenon DEF Crossing
    <2>2. served = {}
      BY <1>2, <2>1, Zenon
    <2>3. Total(granted', served) = 0
      BY <1>3, <2>1, <2>2, TotalStep, Zenon
    <2>4. QED
      BY <1>1, <1>4, <2>3
  <1>7. QED
    BY <1>5, <1>6, Zenon

(* No overcommit, for any number of flows, resources and hops, in every    *)
(* tick.                                                                   *)
THEOREM NoOvercommit == Spec => TickWithinCapacity
  <1>1. Inv /\ [Next]_vars =>
          [ \/ \A r \in Resources :
                 allocated'[r] <= NonNeg(governed'[r]
                                         - ReservedOf(fstate, spec, reservations, rsvRate)[r])
            \/ ~ Tick ]_vars
    BY TickFits, Zenon DEF Held
  <1>2. QED
    BY <1>1, RatesInductive, PTL DEF Spec, TickWithinCapacity

-------------------------------------------------------------------------------
(* The age of a measurement                                                *)

(* The discount only grows with the age (freshness_of), and nothing is     *)
(* left at the threshold (governed_of).                                    *)
LEMMA RateFades ==
  ASSUME NEW nominal \in 0..MaxRate, NEW ms \in 0..MaxRate, NEW a \in Nat, NEW b \in Nat, a <= b
  PROVE  /\ GovernedRate(nominal, ms, a) \in Nat /\ GovernedRate(nominal, ms, b) \in Nat
         /\ GovernedRate(nominal, ms, b) <= GovernedRate(nominal, ms, a)
         /\ b >= Window => GovernedRate(nominal, ms, b) = 0
  <1> DEFINE rate == IF ms > 0 THEN ms ELSE nominal
             applied(x) == (rate * Freshness(x)) \div Window
  <1>1. Window \in Nat /\ Window > 0 /\ MaxRate \in Nat
    BY ConstantsAssumption
  <1>2. rate \in Nat /\ rate <= MaxRate
    BY <1>1
  <1>3. /\ Freshness(a) \in Nat /\ Freshness(a) <= Window
        /\ Freshness(b) \in Nat /\ Freshness(b) <= Window
        /\ Freshness(b) <= Freshness(a)
        /\ b >= Window => Freshness(b) = 0
    BY <1>1 DEF Freshness
  <1>4. /\ GovernedRate(nominal, ms, a) = IF applied(a) < 0 \/ applied(a) > MaxRate
                                          THEN nominal ELSE applied(a)
        /\ GovernedRate(nominal, ms, b) = IF applied(b) < 0 \/ applied(b) > MaxRate
                                          THEN nominal ELSE applied(b)
    BY Zenon DEF GovernedRate
  <1> HIDE DEF rate
  <1>5. /\ rate * Freshness(a) \in Nat /\ rate * Freshness(b) \in Nat
        /\ rate * Freshness(b) <= rate * Freshness(a)
    BY <1>2, <1>3
  <1>6. applied(a) \in Nat /\ applied(b) \in Nat
    BY <1>1, <1>5, Division, Zenon
  <1>7. applied(a) <= rate /\ applied(b) <= rate
    BY <1>1, <1>2, <1>3, PartOfRate, Zenon
  <1>8. applied(b) <= applied(a)
    BY <1>1, <1>5, QuotientMonotone, Zenon
  <1>9. b >= Window => applied(b) = 0
    BY <1>1, <1>2, <1>3
  <1> HIDE DEF applied
  <1>10. QED
    BY <1>1, <1>2, <1>4, <1>6, <1>7, <1>8, <1>9

(* No cached rate is below what would be computed afresh: while the clock  *)
(* runs a rate only goes down.                                             *)
FreshInv ==
  /\ measured \in [Resources -> 0..MaxRate]
  /\ \A r \in Resources : GovernedOf(known, enabled, measured, age)[r] <= governed[r]

(* What a step does to a resource: it leaves it alone, or the clock runs,  *)
(* or its rate is computed anew.  Then it was measured, switched on or off *)
(* or left as it was.                                                      *)
Ages(r) ==
  /\ r \in known' <=> r \in known
  /\ enabled'[r] = enabled[r]
  /\ measured'[r] = measured[r]
  /\ age'[r] = age[r] \/ age'[r] = Smaller(age[r] + 1, MaxAge)

RateMoves(r) ==
  \/ Ages(r) /\ governed' = governed
  \/ /\ governed' = GovernedOf(known', enabled', measured', age')
     /\ \/ Ages(r) /\ age'[r] = age[r]
        \/ age'[r] = 0
        \/ ~ enabled[r]
        \/ ~ enabled'[r]

(* Every operation of the governor.                                        *)
LEMMA ResourceMoves ==
  ASSUME TypeOK, Next, NEW r \in Resources
  PROVE  RateMoves(r)
  <1>1. /\ age \in [Resources -> 0..MaxAge] /\ measured \in [Resources -> Nat]
        /\ enabled \in [Resources -> BOOLEAN] /\ known \in SUBSET Resources
    BY Zenon DEF TypeOK
  <1>2. ASSUME NEW q \in Resources, AddResource(q) PROVE RateMoves(r)
    BY <1>1, <1>2, Zenon DEF AddResource, RecomputeGoverned, RateMoves, Ages
  <1>3. ASSUME NEW q \in Resources, NEW m, NEW bump, UpdateCapacity(q, m, bump) PROVE RateMoves(r)
    BY <1>1, <1>3, Zenon DEF UpdateCapacity, RecomputeGoverned, RateMoves, Ages
  <1>4. ASSUME NEW q \in Resources, NEW on \in BOOLEAN, SetResourceEnabled(q, on) PROVE RateMoves(r)
    BY <1>1, <1>4, Zenon DEF SetResourceEnabled, RecomputeGoverned, RateMoves, Ages
  <1>5. ASSUME NEW q \in Resources, InvalidateResourceCapacity(q) PROVE RateMoves(r)
    BY <1>5, Zenon DEF InvalidateResourceCapacity, RecomputeGoverned, RateMoves, Ages
  <1>6. CASE Elapse
    BY <1>6, Zenon DEF Elapse, RateMoves, Ages
  <1>7. ASSUME UNCHANGED <<known, enabled, measured, age, governed>> PROVE RateMoves(r)
    BY <1>7, Zenon DEF RateMoves, Ages
  <1>8. ASSUME UNCHANGED <<known, enabled, measured, age>>,
               governed' = GovernedOf(known, enabled, measured, age)
        PROVE  RateMoves(r)
    BY <1>8, Zenon DEF RateMoves, Ages
  <1>9. CASE CapacityNext
    BY <1>2, <1>3, <1>4, <1>5, <1>6, <1>7, <1>9, Zenon DEF CapacityNext, AddPath, capacityVars
  <1>10. ASSUME NEW f \in Flows, NEW s \in Specs, SubmitFlow(f, s) PROVE RateMoves(r)
    BY <1>8, <1>10, Zenon DEF SubmitFlow, SubmitDeferred, SubmitAdmitted
  <1>11. ASSUME Tick PROVE RateMoves(r)
    BY <1>8, <1>11, Zenon DEF Tick
  <1>12. ASSUME NEW f \in Flows, CancelFlow(f) \/ ResumeFlow(f) PROVE RateMoves(r)
    BY <1>7, <1>12, Zenon DEF CancelFlow, ResumeFlow, capacityVars
  <1>13. ASSUME NEW f \in Flows, NEW n \in RsvNums, ReleaseReservation(f, n) PROVE RateMoves(r)
    BY <1>7, <1>13, Zenon DEF ReleaseReservation
  <1>14. CASE FlowNext
    BY <1>10, <1>11, <1>12, <1>13, <1>14, Zenon DEF FlowNext
  <1>15. ASSUME NEW w \in Workers, NEW b \in Boots, RegisterWorker(w, b) PROVE RateMoves(r)
    BY <1>1, <1>15, Zenon DEF RegisterWorker, RecomputeGoverned, RateMoves, Ages
  <1>16. ASSUME NEW w \in Workers, DeregisterWorker(w) PROVE RateMoves(r)
    BY <1>7, <1>16, Zenon DEF DeregisterWorker, capacityVars
  <1>17. ASSUME NEW f \in Flows, NEW a, NEW g, NEW b, NEW done,
                ReportProgress(f, a, g, b, done) \/ ReportCompletion(f, a, g, b, done)
         PROVE  RateMoves(r)
    BY <1>7, <1>17, Zenon DEF ReportProgress, ReportCompletion, capacityVars
  <1>18. CASE WorkerNext
    BY <1>15, <1>16, <1>17, <1>18, Zenon DEF WorkerNext
  <1>19. QED
    BY <1>9, <1>14, <1>18, Zenon DEF Next

(* Every step keeps it, and a rate rises only with a measurement or by     *)
(* being switched on.                                                      *)
LEMMA FreshStep ==
  ASSUME Inv, Inv', FreshInv, Next
  PROVE  /\ FreshInv'
         /\ \A r \in Resources : governed'[r] > governed[r] => age'[r] = 0 \/ ~ enabled[r]
  <1>1. measured \in [Resources -> 0..MaxRate] /\ MaxRate \in Nat /\ 0 \in 0..MaxRate
    BY ConstantsAssumption DEF FreshInv
  <1>2. measured' \in [Resources -> 0..MaxRate]
    <2>1. ASSUME NEW r \in Resources, AddResource(r)
                  \/ \E m \in Measured, bump \in BOOLEAN : UpdateCapacity(r, m, bump)
          PROVE  measured' \in [Resources -> 0..MaxRate]
      BY <1>1, <2>1, ConstantsAssumption, Zenon DEF AddResource, UpdateCapacity
    <2>2. ASSUME NEW w \in Workers, NEW b \in Boots, RegisterWorker(w, b)
          PROVE  measured' \in [Resources -> 0..MaxRate]
      BY <1>1, <2>2, Zenon DEF RegisterWorker
    <2>3. CASE measured' = measured
      BY <1>1, <2>3, Zenon
    <2>4. CASE CapacityNext
      BY <2>1, <2>3, <2>4, Zenon DEF CapacityNext, SetResourceEnabled,
         InvalidateResourceCapacity, AddPath, Elapse, capacityVars
    <2>5. CASE FlowNext
      BY <2>3, <2>5, Zenon DEF FlowNext, SubmitFlow, CancelFlow, ResumeFlow, ReleaseReservation,
         Tick, capacityVars
    <2>6. CASE WorkerNext
      BY <2>2, <2>3, <2>6, Zenon DEF WorkerNext, DeregisterWorker, ReportProgress,
         ReportCompletion, capacityVars
    <2>7. QED
      BY <2>4, <2>5, <2>6, Zenon DEF Next
  <1>3. ASSUME NEW r \in Resources
        PROVE  /\ GovernedOf(known', enabled', measured', age')[r] <= governed'[r]
               /\ governed'[r] > governed[r] => age'[r] = 0 \/ ~ enabled[r]
    <2> DEFINE now == GovernedOf(known, enabled, measured, age)[r]
               later == GovernedOf(known', enabled', measured', age')[r]
               rateNow == GovernedRate(Nominal[r], measured[r], age[r])
               rateThen == GovernedRate(Nominal[r], measured'[r], age'[r])
    <2>1. /\ now = IF r \in known /\ enabled[r] THEN rateNow ELSE 0
          /\ later = IF r \in known' /\ enabled'[r] THEN rateThen ELSE 0
      BY Zenon DEF GovernedOf
    <2>2. /\ Nominal[r] \in 0..MaxRate /\ measured[r] \in 0..MaxRate
          /\ measured'[r] \in 0..MaxRate
      BY <1>1, <1>2, ConstantsAssumption, Zenon
    <2>3. age[r] \in Nat /\ age'[r] \in Nat /\ age[r] <= MaxAge /\ MaxAge \in Nat
      BY ConstantsAssumption DEF Inv, TypeOK
    <2>4. rateNow \in Nat /\ rateThen \in Nat
      <3>1. age[r] <= age[r] /\ age'[r] <= age'[r]
        BY <2>3
      <3>2. QED
        BY <2>2, <2>3, <3>1, RateFades, Zenon
    <2>5. governed[r] \in Nat /\ governed'[r] \in Nat /\ now <= governed[r]
      BY Zenon DEF Inv, RatesInv, RateTypes, FreshInv
    <2>6. RateMoves(r)
      BY ResourceMoves, Zenon DEF Inv
    <2>7. Ages(r) => later <= now
      <3> SUFFICES ASSUME Ages(r) PROVE later <= now
        OBVIOUS
      <3>1. age[r] <= age'[r]
        BY <2>3 DEF Ages, Smaller
      <3>2. rateThen <= rateNow
        BY <2>2, <2>3, <3>1, RateFades, Zenon DEF Ages
      <3> HIDE DEF now, later, rateNow, rateThen
      <3>3. QED
        BY <2>1, <2>4, <3>2 DEF Ages
    <2>8. later \in Nat /\ now \in Nat /\ (~ enabled'[r] => later = 0)
      <3> HIDE DEF now, later, rateNow, rateThen
      <3>1. QED
        BY <2>1, <2>4
    <2>9. \/ governed' = governed /\ Ages(r)
          \/ governed'[r] = later /\ (Ages(r) \/ age'[r] = 0 \/ ~ enabled[r] \/ ~ enabled'[r])
      BY <2>6, Zenon DEF RateMoves
    <2> HIDE DEF now, later, rateNow, rateThen
    <2>10. later <= governed'[r] /\ (governed'[r] > governed[r] => age'[r] = 0 \/ ~ enabled[r])
      BY <2>5, <2>7, <2>8, <2>9
    <2>11. QED
      BY <2>10, Zenon DEF later
  <1>4. QED
    BY <1>2, <1>3, Zenon DEF FreshInv

(* A tick serves nothing over a resource whose measurement is as old as    *)
(* the threshold.                                                          *)
LEMMA TickServesFresh ==
  ASSUME Inv, Inv', FreshInv, Tick, NEW r \in Resources, ~ (age[r] < Window)
  PROVE  allocated'[r] = 0
  <1>1. /\ Nominal[r] \in 0..MaxRate /\ measured[r] \in 0..MaxRate
        /\ age[r] \in Nat /\ Window \in Nat
    BY ConstantsAssumption DEF Inv, TypeOK, FreshInv
  <1>2. age[r] <= age[r] /\ age[r] >= Window
    BY <1>1
  <1>3. GovernedRate(Nominal[r], measured[r], age[r]) = 0
    BY <1>1, <1>2, RateFades, Zenon
  <1>4. governed' = GovernedOf(known, enabled, measured, age)
    BY Zenon DEF Tick
  <1>5. governed'[r] = 0
    BY <1>3, <1>4, Zenon DEF GovernedOf
  <1>6. Held[r] \in Nat /\ allocated'[r] \in Nat
    BY TickOutcome, Zenon DEF Inv, RatesInv, RateTypes
  <1>7. allocated'[r] <= NonNeg(governed'[r] - Held[r])
    BY TickFits, Zenon
  <1>8. QED
    BY <1>5, <1>6, <1>7 DEF NonNeg

(* Stale measurements are never treated as fresh, whatever the threshold,  *)
(* the rates and the times at which recompute_governed runs.               *)
THEOREM StaleStaysStale == Spec => StaleNeverFresh
  <1> DEFINE Stale == \A r \in Resources :
                        /\ governed'[r] > governed[r] => age'[r] = 0 \/ ~ enabled[r]
                        /\ age[r] < Window \/ allocated'[r] = 0 \/ ~ Tick
  <1>1. Init => FreshInv
    <2> SUFFICES ASSUME Init PROVE FreshInv
      OBVIOUS
    <2>1. 0 \in 0..MaxRate /\ 0 <= 0
      BY ConstantsAssumption
    <2>2. measured = [r \in Resources |-> 0] /\ known = {} /\ governed = [r \in Resources |-> 0]
      BY Zenon DEF Init
    <2>3. QED
      BY <2>1, <2>2, Zenon DEF FreshInv, GovernedOf
  <1>2. Inv /\ Inv' /\ FreshInv /\ [Next]_vars => FreshInv'
    <2>1. UNCHANGED vars /\ FreshInv => FreshInv'
      BY Zenon DEF vars, capacityVars, FreshInv
    <2>2. QED
      BY <2>1, FreshStep, Zenon
  <1>3. Inv /\ Inv' /\ FreshInv /\ [Next]_vars => [Stale]_vars
    BY FreshStep, TickServesFresh, Zenon
  <1>4. QED
    BY <1>1, <1>2, <1>3, RatesInductive, PTL DEF Spec, StaleNeverFresh

-------------------------------------------------------------------------------
(* A flow that is running and not interrupted has no minimum to fall below *)
(* and its grant is a rate, so tick() leaves it running; no other call the *)
(* server makes takes it further back.                                     *)
LEMMA FlowMoves ==
  ASSUME Inv, Driven, NEW f \in Flows
  PROVE  Steady(f)
  <1> DEFINE Stays == /\ attempt'[f] = attempt[f]
                      /\ fstate[f] # "Absent" => fstate'[f] # "Absent" /\ spec'[f] = spec[f]
                      /\ fstate[f] \in TerminalFlow => fstate'[f] \in TerminalFlow
                      /\ fstate[f] \in Lasting /\ ~ Interruptible(spec[f])
                           => fstate'[f] \in Lasting
  <1>0. /\ attempt[f] \in Nat /\ minted[f] \in Nat /\ attempt[f] <= minted[f]
        /\ fstate \in [Flows -> FlowStates \cup {"Absent"}]
        /\ spec = [e \in Flows |-> spec[e]]
    BY DEF Inv, TypeOK, ReservationHistory, FlowHistory
  <1>1. ASSUME UNCHANGED vars PROVE Stays
    BY <1>1, Zenon DEF vars, flowVars
  <1>2. ASSUME (\E r \in Resources : AddResource(r)) \/ (\E p \in Paths : AddPath(p))
        PROVE  Stays
    BY <1>2, Zenon DEF AddResource, AddPath, flowVars
  <1>3. ASSUME NEW e \in Flows, NEW s \in Specs, SubmitFlow(e, s) PROVE Stays
    <2>1. /\ fstate[e] = "Absent" /\ attempt' = attempt
          /\ e # f => fstate'[f] = fstate[f] /\ spec'[f] = spec[f]
      BY <1>0, <1>3, Zenon DEF SubmitFlow, SubmitDeferred, SubmitAdmitted
    <2>2. "Absent" \notin Lasting /\ "Absent" \notin TerminalFlow
      BY Zenon DEF Lasting, TerminalFlow
    <2>3. QED
      BY <2>1, <2>2, Zenon
  <1>4. ASSUME NEW e \in Flows, CancelFlow(e) PROVE Stays
    <2>1. /\ fstate' = [fstate EXCEPT ![e] = "Cancelled"]
          /\ UNCHANGED <<attempt, spec>>
      BY <1>4, Zenon DEF CancelFlow
    <2>2. QED
      BY <2>1 DEF Lasting, TerminalFlow
  <1>5. ASSUME Tick PROVE Stays
    <2>1. UNCHANGED <<attempt, spec>>
      BY <1>5, TickFlows, Zenon
    <2>2. \/ fstate[f] = "Queued" /\ fstate'[f] = "Running"
          \/ fstate[f] \in Scheduled /\ fstate'[f] \in {"Running", "Throttled", "Preempted"}
          \/ fstate'[f] = fstate[f]
      BY <1>5, TickFlows, Zenon
    <2>3. ASSUME fstate[f] = "Running", ~ Interruptible(spec[f]) PROVE fstate'[f] = "Running"
      <3>1. f \notin AdmittedByTick
        BY <2>3, Zenon DEF AdmittedByTick
      <3>2. StateAfterAdmission(AdmittedByTick)[f] = "Running" /\ f \in TickScheduled
        BY <2>3, <3>1, Zenon DEF StateAfterAdmission, TickScheduled, Scheduled
      <3>3. granted'[f] \in Nat /\ spec[f].min \in Nat
        BY <1>5, <3>2, TickOutcome, ScheduledSound, Zenon
      <3>4. fstate'[f] = Rescheduled("Running", spec[f], granted'[f])
        BY <1>5, <3>2, Zenon DEF Tick, TickScheduled
      <3>5. QED
        BY <2>3, <3>3, <3>4 DEF Rescheduled, Interruptible
    <2>4. QED
      BY <2>1, <2>2, <2>3, Zenon DEF Lasting, TerminalFlow, Scheduled
  <1>6. ASSUME NEW w \in Workers, NEW b \in Boots, RegisterWorker(w, b)
        PROVE  \/ Stays
               \/ /\ attempt'[f] = minted[f] + 1 /\ fstate[f] = "Running"
                  /\ fstate'[f] = "Reserved" /\ spec'[f] = spec[f]
    <2>1. spec' = spec
      BY <1>6, RegisterFlows, Zenon
    <2>2. \/ attempt'[f] = minted[f] + 1 /\ fstate[f] = "Running" /\ fstate'[f] = "Reserved"
          \/ attempt'[f] = attempt[f] /\ fstate'[f] = fstate[f]
      BY <1>6, RegisterFlows, ZenonT(60)
    <2>3. QED
      BY <2>1, <2>2, Zenon
  <1>7. ASSUME NEW e \in Flows, NEW a, NEW g, NEW b, NEW done, ReportProgress(e, a, g, b, done)
        PROVE  Stays
    BY <1>7, Zenon DEF ReportProgress
  <1>8. ASSUME NEW e \in Flows, NEW a, NEW g, NEW b, NEW done, ReportCompletion(e, a, g, b, done)
        PROVE  Stays
    <2>1. /\ fstate' = [fstate EXCEPT ![e] = "Completed"]
          /\ UNCHANGED <<attempt, spec>>
      BY <1>8, Zenon DEF ReportCompletion
    <2>2. QED
      BY <2>1 DEF Lasting, TerminalFlow
  <1>9. Stays \/ /\ attempt'[f] = minted[f] + 1 /\ fstate[f] = "Running"
                 /\ fstate'[f] = "Reserved" /\ spec'[f] = spec[f]
    BY <1>1, <1>2, <1>3, <1>4, <1>5, <1>6, <1>7, <1>8, Zenon DEF Driven
  <1>10. QED
    BY <1>0, <1>9 DEF TerminalFlow, Steady

(* No job of a process is ever replaced by one of an earlier attempt, nor  *)
(* by one of the same attempt that starts over unless tick() may interrupt *)
(* the flow: dispatched_ and the order of the frames see to it, although   *)
(* the scheduler sends from a copy of the flow table that may be stale.    *)
THEOREM AttemptsInOrder == SysSpec => DispatchedOnce
  <1>1. SysSpec => []Inv
    BY SystemImplementsGovernor, RatesInductive, PTL
  <1>2. Inv /\ SystemInOrder /\ Sequenced /\ [SysNext]_sysVars => Sequenced'
    <2> SUFFICES ASSUME Inv, TypeOK, ServerInOrder, Sequenced, [SysNext]_sysVars
                 PROVE  Sequenced'
      BY Zenon DEF SystemInOrder
    <2>1. \A f \in Flows : Steady(f)
      BY SysDriven, FlowMoves, Zenon
    <2>2. QED
      BY <2>1, StepSequenced, Zenon
  <1>3. SystemInOrder /\ Sequenced /\ [SysNext]_sysVars => Once
    BY StepOnce, Zenon DEF SystemInOrder
  <1>4. SysSpec => [][Once]_sysVars
    BY <1>1, <1>2, <1>3, InitSequenced, SystemInvariant, PTL DEF SysSpec
  <1>5. QED
    BY <1>4, PTL DEF DispatchedOnce, Once
===============================================================================
