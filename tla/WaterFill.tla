------------------------------ MODULE WaterFill ------------------------------
(***************************************************************************)
(* allocate_weighted (src/policy.cpp): a resource's capacity is shared     *)
(* among the flows that cross it, minima first, then by weight up to each  *)
(* flow's target.  Governor takes only its contract, the operator Shares.  *)
(*                                                                         *)
(* Rates are whole multiples of a grain fine enough for every division of  *)
(* the instance to be exact, so kEps has no counterpart: the model is the  *)
(* algorithm over the rationals.  Flows are visited as sets; the order in  *)
(* which the code visits them matters to rounding alone.                   *)
(***************************************************************************)
EXTENDS Totals

CONSTANTS
  Flows,       \* flows that cross the resource
  Weights,     \* weights of flow_weight; 0 stands for one that is not usable
  Envelopes,   \* the [min, want, max] of the specifications
  Capacities   \* what tick() may find left of the resource

ASSUME WaterFillAssumption ==
  /\ IsFiniteSet(Flows)
  /\ Weights \subseteq Nat
  /\ Envelopes \subseteq [min : Nat, want : Nat, max : Nat]
  /\ \A e \in Envelopes : e.min <= e.want /\ e.want <= e.max
  /\ Capacities \subseteq Nat

(* The grain is fine enough for minima to be scaled exactly.               *)
ASSUME GrainAssumption ==
  \A c \in Capacities : \A m \in [Flows -> { e.min : e \in Envelopes }] :
    Total(m, Flows) > c => \A f \in Flows : (m[f] * c) % Total(m, Flows) = 0

VARIABLES
  entries,     \* entries[f]: weight and envelope of f
  capacity,    \* the capacity to share
  phase,       \* "start", "fill" or "done"
  granted,     \* granted[f]
  remaining,   \* capacity not handed out yet
  active       \* flows that may still get more

vars == <<entries, capacity, phase, granted, remaining, active>>

Minima == [f \in Flows |-> entries[f].min]

Targets == [f \in Flows |-> entries[f].want]

(* Faulty variant: all weights are equal.                                  *)
EqualWeight(f) == 1

(* A weight that is not usable counts as 1.                                *)
Weight(f) == IF entries[f].weight > 0 THEN entries[f].weight ELSE 1

WeightSum(S) == Total([f \in Flows |-> Weight(f)], S)

Init ==
  /\ entries \in [Flows -> { [weight |-> w, min |-> e.min, want |-> e.want, max |-> e.max] :
                               w \in Weights, e \in Envelopes }]
  /\ capacity \in Capacities
  /\ phase = "start"
  /\ granted = [f \in Flows |-> 0]
  /\ remaining = 0
  /\ active = {}

(* Nothing to share, or nobody to share it.                                *)
NothingToShare ==
  /\ phase = "start"
  /\ Flows = {} \/ capacity = 0
  /\ phase' = "done"
  /\ UNCHANGED <<entries, capacity, granted, remaining, active>>

(* Faulty variant: each minimum is cut by what is missing.                 *)
CutMinima ==
  LET missing == Total(Minima, Flows) - capacity
  IN  [f \in Flows |-> IF Minima[f] > missing THEN Minima[f] - missing ELSE 0]

(* Minima that do not fit are scaled to fit.  The leftovers the code then  *)
(* spreads by weight come from rounding: there are none here.              *)
ScaledMinima ==
  [f \in Flows |-> (Minima[f] * capacity) \div Total(Minima, Flows)]

ScaleMinima ==
  /\ phase = "start"
  /\ capacity > 0
  /\ Total(Minima, Flows) > capacity
  /\ granted' = ScaledMinima
  /\ phase' = "done"
  /\ UNCHANGED <<entries, capacity, remaining, active>>

(* Otherwise every minimum is honoured and the rest is filled in.          *)
HonourMinima ==
  /\ phase = "start"
  /\ capacity > 0
  /\ Total(Minima, Flows) <= capacity
  /\ granted' = Minima
  /\ remaining' = capacity - Total(Minima, Flows)
  /\ active' = { f \in Flows : Targets[f] > Minima[f] }
  /\ phase' = "fill"
  /\ UNCHANGED <<entries, capacity>>

(* What a flow may still take, per unit of weight.                         *)
Room(f) == (Targets[f] - granted[f]) \div Weight(f)

(* Faulty variant: the rest is handed out at once, whatever the targets.   *)
StepRemaining == remaining \div WeightSum(active)

(* The rise per unit of weight: to the end of what remains or to the first *)
(* target, whichever comes first.                                          *)
Step ==
  LET inc == remaining \div WeightSum(active)
      min_room == Min({ Room(f) : f \in active })
  IN  IF min_room < inc THEN min_room ELSE inc

(* Faulty variant: a flow leaves only past its target.                     *)
StillBelowOrAt(g) == { f \in active : g[f] <= Targets[f] }

Risen(step) ==
  [f \in Flows |-> IF f \in active THEN granted[f] + step * Weight(f) ELSE granted[f]]

StillBelow(g) == { f \in active : g[f] < Targets[f] }

(* One turn of the loop.                                                   *)
Fill ==
  /\ phase = "fill"
  /\ remaining > 0
  /\ active # {}
  /\ granted' = Risen(Step)
  /\ remaining' = LET left == remaining - Step * WeightSum(active)
                  IN  IF left < 0 THEN 0 ELSE left
  /\ active' = StillBelow(granted')
  /\ UNCHANGED <<entries, capacity, phase>>

(* The loop ends; no grant may pass its maximum.                           *)
Clamp ==
  /\ phase = "fill"
  /\ remaining = 0 \/ active = {}
  /\ granted' = [f \in Flows |-> Min({granted[f], entries[f].max})]
  /\ phase' = "done"
  /\ UNCHANGED <<entries, capacity, remaining, active>>

Next == NothingToShare \/ ScaleMinima \/ HonourMinima \/ Fill \/ Clamp

(* The call runs to its end.                                               *)
Spec == Init /\ [][Next]_vars /\ WF_vars(Next)

-------------------------------------------------------------------------------
(* Type invariant.                                                         *)
TypeOK ==
  /\ phase \in {"start", "fill", "done"}
  /\ \A f \in Flows : granted[f] \in 0..entries[f].max
  /\ remaining \in 0..capacity
  /\ active \in SUBSET Flows

(* The contract tick() relies on: the grants fill the capacity or meet     *)
(* every target; minima are honoured if they fit together, and otherwise   *)
(* cut without starving a flow that has one.                               *)
MeetsContract ==
  phase = "done" /\ capacity > 0 =>
    IF Total(Minima, Flows) > capacity
    THEN /\ Total(granted, Flows) = capacity
         /\ \A f \in Flows : granted[f] <= Minima[f] /\ (Minima[f] > 0 => granted[f] > 0)
    ELSE /\ Total(granted, Flows) = Min({capacity, Total(Targets, Flows)})
         /\ \A f \in Flows : Minima[f] <= granted[f] /\ granted[f] <= Targets[f]

(* The allocation is the weighted max-min one: beyond the minima, a flow   *)
(* that fell short of its target got at least as much per unit of weight   *)
(* as any other, however many turns of the loop it took part in.           *)
MaxMinFair ==
  LET weight(f) == Max({entries[f].weight, 1})
      extra(f) == granted[f] - Minima[f]
  IN  phase = "done" /\ Total(Minima, Flows) <= capacity =>
        \A f, g \in Flows :
          granted[f] < Targets[f] => extra(g) * weight(f) <= extra(f) * weight(g)

(* The loop ends: every turn spends what remains or meets a target.        *)
Terminates == <>(phase = "done")
===============================================================================
