--------------------------- MODULE WaterFillProofs ----------------------------
(***************************************************************************)
(* The invariants of WaterFill for any flows, weights, envelopes and       *)
(* capacities.  The inductive invariant is the loop invariant of           *)
(* allocate_weighted: what is granted and what remains add up to the       *)
(* capacity, the active flows are those below their target, and beyond     *)
(* its minimum each of them stands at the same level per unit of weight.   *)
(***************************************************************************)
EXTENDS WaterFill, TotalProofs

Entry == [weight : Nat, min : Nat, want : Nat, max : Nat]

(* What the caller passes in.                                              *)
Inputs ==
  /\ entries \in [Flows -> Entry]
  /\ \A f \in Flows : entries[f].min <= entries[f].want /\ entries[f].want <= entries[f].max
  /\ capacity \in Nat
  /\ Total(Minima, Flows) > capacity =>
       \A f \in Flows : (Minima[f] * capacity) % Total(Minima, Flows) = 0

(* The water level: how far the active flows have risen per unit of weight.*)
Level ==
  \E level \in Nat : \A f \in Flows :
    /\ granted[f] <= Minima[f] + level * Weight(f)
    /\ f \in active => granted[f] = Minima[f] + level * Weight(f)

Filling ==
  /\ capacity > 0
  /\ Total(Minima, Flows) <= capacity
  /\ Total(granted, Flows) + remaining = capacity
  /\ \A f \in Flows : Minima[f] <= granted[f] /\ granted[f] <= Targets[f]
  /\ active = { f \in Flows : granted[f] < Targets[f] }
  /\ Level

Finished ==
  \/ /\ Flows = {} \/ capacity = 0
     /\ granted = [f \in Flows |-> 0]
  \/ /\ capacity > 0
     /\ Total(Minima, Flows) > capacity
     /\ granted = ScaledMinima
  \/ Filling /\ (remaining = 0 \/ active = {})

IInv ==
  /\ Inputs
  /\ granted \in [Flows -> Nat]
  /\ remaining \in 0..capacity
  /\ active \in SUBSET Flows
  /\ phase \in {"start", "fill", "done"}
  /\ phase = "start" => granted = [f \in Flows |-> 0] /\ remaining = 0
  /\ phase = "fill" => Filling
  /\ phase = "done" => Finished

-------------------------------------------------------------------------------
(* The envelopes of the flows, as functions of naturals.                   *)
LEMMA InputTypes ==
  ASSUME Inputs
  PROVE  /\ Minima \in [Flows -> Nat]
         /\ Targets \in [Flows -> Nat]
         /\ \A f \in Flows : Minima[f] <= Targets[f] /\ Targets[f] <= entries[f].max
         /\ \A f \in Flows : entries[f].max \in Nat
         /\ \A f \in Flows : Weight(f) \in Nat /\ Weight(f) > 0
         /\ Total(Minima, Flows) \in Nat
         /\ Total(Targets, Flows) \in Nat
  <1>1. Minima \in [Flows -> Nat] /\ Targets \in [Flows -> Nat]
    BY DEF Inputs, Entry, Minima, Targets
  <1>2. \A f \in Flows : Minima[f] <= Targets[f] /\ Targets[f] <= entries[f].max
    BY DEF Inputs, Minima, Targets
  <1>3. \A f \in Flows : entries[f].max \in Nat
    BY DEF Inputs, Entry
  <1>4. \A f \in Flows : Weight(f) \in Nat /\ Weight(f) > 0
    BY DEF Inputs, Entry, Weight
  <1>5. Total(Minima, Flows) \in Nat /\ Total(Targets, Flows) \in Nat
    BY <1>1, TotalType, WaterFillAssumption
  <1>6. QED
    BY <1>1, <1>2, <1>3, <1>4, <1>5

(* Scaled minima are the exact fractions: they add up to the capacity, and *)
(* cut no positive minimum to nothing.                                     *)
LEMMA ScalingExact ==
  ASSUME Inputs, capacity > 0, Total(Minima, Flows) > capacity
  PROVE  /\ ScaledMinima \in [Flows -> Nat]
         /\ \A f \in Flows : ScaledMinima[f] <= Minima[f]
         /\ \A f \in Flows : Minima[f] > 0 => ScaledMinima[f] > 0
         /\ Total(ScaledMinima, Flows) = capacity
  <1> DEFINE T == Total(Minima, Flows)
             q == ScaledMinima
             scaled == [f \in Flows |-> T * q[f]]
  <1>1. T \in Nat /\ T > 0 /\ capacity \in Nat /\ T > capacity /\ Minima \in [Flows -> Nat]
    BY InputTypes DEF Inputs
  <1>2. \A f \in Flows : q[f] = (Minima[f] * capacity) \div T
    BY DEF ScaledMinima
  <1>3. \A f \in Flows : (Minima[f] * capacity) % T = 0 /\ Minima[f] * capacity \in Nat
    BY <1>1 DEF Inputs
  <1>4. q = [f \in Flows |-> q[f]]
    BY DEF ScaledMinima
  <1> HIDE DEF T, q
  <1>5. \A f \in Flows : q[f] \in Nat /\ T * q[f] = Minima[f] * capacity
    BY <1>1, <1>2, <1>3, Division
  <1>6. ASSUME NEW f \in Flows PROVE q[f] <= Minima[f] /\ (Minima[f] > 0 => q[f] > 0)
    <2>1. T * q[f] = Minima[f] * capacity /\ q[f] \in Nat /\ Minima[f] \in Nat
      BY <1>1, <1>5
    <2>2. Minima[f] * capacity <= Minima[f] * T
      BY <1>1, <2>1
    <2>3. q[f] <= Minima[f]
      BY <1>1, <2>1, <2>2
    <2>4. Minima[f] > 0 => q[f] > 0
      BY <1>1, <2>1
    <2>5. QED
      BY <2>3, <2>4
  <1>7. Total(q, Flows) \in Nat
    BY <1>5, TotalType, WaterFillAssumption
  <1>8. \A f \in Flows : scaled[f] = T * q[f] /\ scaled[f] = capacity * Minima[f]
    BY <1>1, <1>5
  <1> HIDE DEF scaled
  <1>9. Total(scaled, Flows) = T * Total(q, Flows)
    BY <1>1, <1>5, <1>8, TotalScale, WaterFillAssumption
  <1>10. Total(scaled, Flows) = capacity * T
    BY <1>1, <1>8, TotalScale, WaterFillAssumption DEF T
  <1>11. Total(q, Flows) = capacity
    BY <1>1, <1>7, <1>9, <1>10
  <1>12. q \in [Flows -> Nat]
    BY <1>4, <1>5
  <1>13. QED
    BY <1>6, <1>11, <1>12 DEF q

(* It holds when the loop is entered.                                      *)
LEMMA InitInductive == Init => IInv
  <1> SUFFICES ASSUME Init PROVE IInv
    OBVIOUS
  <1>1. Inputs
    <2>1. /\ entries \in [Flows -> Entry]
          /\ \A f \in Flows : entries[f].min <= entries[f].want /\ entries[f].want <= entries[f].max
          /\ capacity \in Nat
      BY WaterFillAssumption DEF Init, Entry
    <2>2. Minima \in [Flows -> { e.min : e \in Envelopes }]
      BY DEF Init, Minima
    <2>3. capacity \in Capacities
      BY DEF Init
    <2>4. QED
      BY <2>1, <2>2, <2>3, GrainAssumption DEF Inputs
  <1>2. capacity \in Nat
    BY <1>1 DEF Inputs
  <1>3. QED
    BY <1>1, <1>2 DEF Init, IInv

(* One turn of the loop, seen through the rise s it makes.                 *)
LEMMA StepBounds ==
  ASSUME IInv, Fill
  PROVE  /\ Step \in Nat
         /\ WeightSum(active) \in Nat
         /\ Step * WeightSum(active) <= remaining
         /\ \A f \in active : granted[f] + Step * Weight(f) <= Targets[f]
  <1> DEFINE w == [f \in Flows |-> Weight(f)]
             W == WeightSum(active)
             inc == remaining \div W
             rooms == { Room(f) : f \in active }
  <1>1. /\ active \in SUBSET Flows /\ active # {} /\ remaining \in Nat
        /\ \A f \in Flows : Weight(f) \in Nat /\ Weight(f) > 0
        /\ \A f \in Flows : Targets[f] \in Nat /\ granted[f] \in Nat /\ granted[f] <= Targets[f]
    BY InputTypes DEF IInv, Fill, Filling, Inputs
  <1>2. \A f \in Flows : w[f] = Weight(f)
    OBVIOUS
  <1>3. W = Total(w, active)
    BY DEF WeightSum
  <1>4. IsFiniteSet(active)
    BY <1>1, FS_Subset, WaterFillAssumption
  <1> HIDE DEF w
  <1>5. W \in Nat
    BY <1>1, <1>2, <1>3, <1>4, TotalType
  <1>6. W > 0
    <2>1. PICK f \in active : TRUE
      BY <1>1
    <2>2. w[f] <= Total(w, active)
      BY <1>1, <1>2, <1>4, TotalBoundsTerm
    <2>3. QED
      BY <1>1, <1>2, <1>3, <1>5, <2>2
  <1> HIDE DEF W
  <1>7. inc \in Nat /\ W * inc <= remaining
    BY <1>1, <1>5, <1>6, Division
  <1>8. \A f \in active : Room(f) \in Nat /\ Weight(f) * Room(f) <= Targets[f] - granted[f]
    <2> TAKE f \in active
    <2>1. Targets[f] - granted[f] \in Nat /\ Weight(f) \in Nat /\ Weight(f) > 0
      BY <1>1
    <2>2. QED
      BY <2>1, Division DEF Room
  <1>9. rooms \in SUBSET Nat /\ rooms # {}
    BY <1>1, <1>8
  <1>10. Min(rooms) \in Nat /\ \A f \in active : Min(rooms) <= Room(f)
    BY <1>9, MinIsLeast
  <1>11. Step = IF Min(rooms) < inc THEN Min(rooms) ELSE inc
    BY DEF Step, W
  <1> HIDE DEF inc, rooms
  <1>12. Step \in Nat /\ Step <= inc /\ \A f \in active : Step <= Room(f)
    BY <1>7, <1>8, <1>10, <1>11
  <1>13. Step * W <= remaining
    <2>1. Step * W <= W * inc
      BY <1>5, <1>7, <1>12
    <2>2. Step * W \in Nat /\ W * inc \in Nat
      BY <1>5, <1>7, <1>12
    <2>3. QED
      BY <1>1, <1>7, <2>1, <2>2
  <1>14. ASSUME NEW f \in active PROVE granted[f] + Step * Weight(f) <= Targets[f]
    <2>1. /\ Weight(f) \in Nat /\ Room(f) \in Nat /\ Step <= Room(f)
          /\ Targets[f] \in Nat /\ granted[f] \in Nat
          /\ Weight(f) * Room(f) <= Targets[f] - granted[f]
      BY <1>1, <1>8, <1>12
    <2>2. Step * Weight(f) <= Weight(f) * Room(f)
      BY <1>12, <2>1
    <2>3. Step * Weight(f) \in Nat /\ Weight(f) * Room(f) \in Nat
      BY <1>12, <2>1
    <2>4. QED
      BY <2>1, <2>2, <2>3
  <1>15. QED
    BY <1>5, <1>12, <1>13, <1>14 DEF W

(* A turn of the loop keeps the loop invariant, one level higher.          *)
LEMMA FillKeepsFilling ==
  ASSUME IInv, Fill
  PROVE  Filling' /\ granted' \in [Flows -> Nat] /\ remaining' \in 0..capacity
  <1> DEFINE s == Step
             W == WeightSum(active)
             w == [f \in Flows |-> Weight(f)]
  <1>1. Filling /\ Inputs /\ granted \in [Flows -> Nat] /\ remaining \in 0..capacity
        /\ active \in SUBSET Flows /\ capacity \in Nat
    BY DEF IInv, Fill, Inputs
  <1>2. /\ entries' = entries /\ capacity' = capacity
        /\ Minima' = Minima /\ Targets' = Targets
        /\ \A f \in Flows : Weight(f)' = Weight(f)
    BY DEF Fill, Minima, Targets, Weight
  <1>3. s \in Nat /\ W \in Nat /\ s * W <= remaining
    BY StepBounds
  <1>4. \A f \in active : granted[f] + s * Weight(f) <= Targets[f]
    BY StepBounds
  <1>5. granted' = [f \in Flows |-> IF f \in active THEN granted[f] + s * Weight(f) ELSE granted[f]]
    BY DEF Fill, Risen
  <1>6. remaining' = remaining - s * W
    <2>1. remaining - s * W \in Int /\ ~ (remaining - s * W < 0)
      BY <1>1, <1>3
    <2>2. remaining' = IF remaining - s * W < 0 THEN 0 ELSE remaining - s * W
      BY DEF Fill
    <2> HIDE DEF s, W
    <2>3. QED
      BY <2>1, <2>2
  <1>7. active' = { f \in active : granted'[f] < Targets[f] }
    BY DEF Fill, StillBelow
  <1>8. W = Total(w, active)
    BY DEF WeightSum
  <1>9. \A f \in Flows : w[f] = Weight(f)
    OBVIOUS
  <1> HIDE DEF s, W, w
  <1>10. \A f \in Flows : /\ Weight(f) \in Nat /\ Minima[f] \in Nat /\ Targets[f] \in Nat
                          /\ granted[f] \in Nat /\ s * Weight(f) \in Nat
    BY <1>1, <1>3, InputTypes
  <1>11. granted' \in [Flows -> Nat]
    BY <1>5, <1>10
  <1>12. s * W \in Nat /\ remaining' \in 0..capacity
    BY <1>1, <1>3, <1>6
  <1>13. Total(granted', Flows) + remaining' = capacity
    <2>1. Total(granted', Flows) = Total(granted, Flows) + s * Total(w, active)
      <3> DEFINE h == granted'
      <3>1. \A f \in Flows : granted[f] \in Nat /\ h[f] \in Nat /\ w[f] \in Nat
        BY <1>9, <1>10, <1>11
      <3>2. \A f \in Flows : h[f] = IF f \in active THEN granted[f] + s * w[f] ELSE granted[f]
        BY <1>5, <1>9
      <3> HIDE DEF h
      <3>3. Total(h, Flows) = Total(granted, Flows) + s * Total(w, active)
        BY <1>1, <1>3, <3>1, <3>2, TotalGain, WaterFillAssumption
      <3>4. QED
        BY <3>3 DEF h
    <2>2. Total(granted, Flows) \in Nat
      BY <1>1, TotalType, WaterFillAssumption
    <2>3. Total(granted, Flows) + remaining = capacity
      BY <1>1 DEF Filling
    <2>4. QED
      BY <1>1, <1>6, <1>8, <1>12, <2>1, <2>2, <2>3
  <1>14. \A f \in Flows : Minima[f] <= granted'[f] /\ granted'[f] <= Targets[f]
    BY <1>1, <1>4, <1>5, <1>10 DEF Filling
  <1>15. active' = { f \in Flows : granted'[f] < Targets[f] }
    <2>1. \A f \in Flows : f \notin active => ~ (granted'[f] < Targets[f])
      BY <1>1, <1>5, <1>10 DEF Filling
    <2>2. QED
      BY <1>1, <1>7, <2>1
  <1>16. Level'
    <2>1. PICK l \in Nat : \A f \in Flows :
            /\ granted[f] <= Minima[f] + l * Weight(f)
            /\ f \in active => granted[f] = Minima[f] + l * Weight(f)
      BY <1>1 DEF Filling, Level
    <2>2. ASSUME NEW f \in Flows
          PROVE  /\ granted'[f] <= Minima[f] + (l + s) * Weight(f)
                 /\ f \in active' => granted'[f] = Minima[f] + (l + s) * Weight(f)
      <3>1. (l + s) * Weight(f) = l * Weight(f) + s * Weight(f)
        BY <1>3, <1>10
      <3>2. l * Weight(f) \in Nat /\ s * Weight(f) \in Nat /\ (l + s) * Weight(f) \in Nat
        BY <1>3, <1>10
      <3>3. f \in active' => f \in active
        BY <1>7
      <3>4. granted'[f] = IF f \in active THEN granted[f] + s * Weight(f) ELSE granted[f]
        BY <1>5
      <3>5. QED
        BY <1>10, <2>1, <3>1, <3>2, <3>3, <3>4
    <2>3. l + s \in Nat
      BY <1>3
    <2>4. QED
      BY <1>2, <2>2, <2>3 DEF Level
  <1>17. capacity > 0 /\ Total(Minima, Flows) <= capacity
    BY <1>1 DEF Filling
  <1>18. QED
    BY <1>2, <1>11, <1>12, <1>13, <1>14, <1>15, <1>16, <1>17 DEF Filling

(* A pass of the loop, and leaving it, preserve it.                        *)
LEMMA NextInductive == IInv /\ [Next]_vars => IInv'
  <1> SUFFICES ASSUME IInv, [Next]_vars PROVE IInv'
    OBVIOUS
  <1>1. /\ entries' = entries /\ capacity' = capacity
        /\ Minima' = Minima /\ Targets' = Targets
        /\ \A f \in Flows : Weight(f)' = Weight(f)
    BY DEF Next, NothingToShare, ScaleMinima, HonourMinima, Fill, Clamp, vars, Minima, Targets,
           Weight
  <1>2. Inputs /\ capacity \in Nat
    BY DEF IInv, Inputs
  <1>3. Inputs'
    BY <1>1, <1>2 DEF Inputs
  <1>4. /\ Minima \in [Flows -> Nat] /\ Targets \in [Flows -> Nat]
        /\ \A f \in Flows : Minima[f] <= Targets[f] /\ Targets[f] <= entries[f].max
        /\ \A f \in Flows : entries[f].max \in Nat
        /\ \A f \in Flows : Weight(f) \in Nat
        /\ Total(Minima, Flows) \in Nat
    BY <1>2, InputTypes
  <1>5. CASE NothingToShare
    BY <1>1, <1>2, <1>3, <1>5 DEF NothingToShare, IInv, Finished
  <1>6. CASE ScaleMinima
    <2>1. ScaledMinima \in [Flows -> Nat]
      BY <1>2, <1>6, ScalingExact DEF ScaleMinima
    <2>2. ScaledMinima' = ScaledMinima
      BY <1>1 DEF ScaledMinima
    <2>3. Finished'
      BY <1>1, <1>6, <2>2 DEF ScaleMinima, Finished
    <2>4. QED
      BY <1>1, <1>3, <1>6, <2>1, <2>3 DEF ScaleMinima, IInv
  <1>7. CASE HonourMinima
    <2>1. /\ granted' = Minima /\ remaining' = capacity - Total(Minima, Flows)
          /\ active' = { f \in Flows : Targets[f] > Minima[f] } /\ phase' = "fill"
          /\ capacity > 0 /\ Total(Minima, Flows) <= capacity
      BY <1>7 DEF HonourMinima
    <2>2. remaining' \in 0..capacity /\ Total(Minima, Flows) + remaining' = capacity
      BY <1>2, <1>4, <2>1
    <2>3. Level'
      <3>1. \A f \in Flows : 0 * Weight(f) = 0
        BY <1>4
      <3>2. \A f \in Flows : /\ granted'[f] <= Minima[f] + 0 * Weight(f)
                             /\ granted'[f] = Minima[f] + 0 * Weight(f)
        BY <1>4, <2>1, <3>1
      <3>3. QED
        BY <1>1, <3>2 DEF Level
    <2>4. active' = { f \in Flows : granted'[f] < Targets[f] }
      BY <1>4, <2>1
    <2>5. Filling'
      BY <1>1, <1>4, <2>1, <2>2, <2>3, <2>4 DEF Filling
    <2>6. QED
      BY <1>1, <1>3, <1>4, <2>1, <2>2, <2>5 DEF IInv
  <1>8. CASE Fill
    <2>1. Filling' /\ granted' \in [Flows -> Nat] /\ remaining' \in 0..capacity
      BY <1>8, FillKeepsFilling
    <2>2. phase' = "fill" /\ active' \in SUBSET Flows
      BY <1>8 DEF Fill, IInv, StillBelow
    <2>3. QED
      BY <1>1, <1>3, <2>1, <2>2 DEF IInv
  <1>9. CASE Clamp
    <2>1. Filling /\ granted \in [Flows -> Nat]
      BY <1>9 DEF Clamp, IInv
    <2>2. \A f \in Flows : Min({granted[f], entries[f].max}) = granted[f]
      BY <1>4, <2>1 DEF Min, Filling
    <2>3. granted' = granted
      BY <1>9, <2>1, <2>2 DEF Clamp
    <2>4. phase' = "done" /\ remaining' = remaining /\ active' = active
      BY <1>9 DEF Clamp
    <2>5. Level'
      BY <1>1, <2>1, <2>3, <2>4 DEF Filling, Level
    <2>6. Filling' /\ (remaining = 0 \/ active = {})
      BY <1>1, <1>9, <2>1, <2>3, <2>4, <2>5 DEF Filling, Clamp
    <2>7. Finished'
      BY <2>4, <2>6 DEF Finished
    <2>8. QED
      BY <1>1, <1>3, <2>3, <2>4, <2>7 DEF IInv
  <1>10. CASE UNCHANGED vars
    <2>1. /\ granted' = granted /\ remaining' = remaining /\ active' = active /\ phase' = phase
      BY <1>10 DEF vars
    <2>2. Level' = Level /\ ScaledMinima' = ScaledMinima
      BY <1>1, <2>1 DEF Level, ScaledMinima
    <2>3. Filling' = Filling
      BY <1>1, <2>1, <2>2 DEF Filling
    <2>4. Finished' = Finished
      BY <1>1, <2>1, <2>2, <2>3 DEF Finished
    <2>5. QED
      BY <1>1, <1>3, <2>1, <2>3, <2>4 DEF IInv
  <1>11. QED
    BY <1>5, <1>6, <1>7, <1>8, <1>9, <1>10 DEF Next

(* So it holds throughout.                                                 *)
LEMMA Inductive == Spec => []IInv
  BY InitInductive, NextInductive, PTL DEF Spec

-------------------------------------------------------------------------------
(* Granted rates stay within the maxima at every turn of allocate_weighted,*)
(* and what remains within the capacity.                                   *)
THEOREM TypesHold == Spec => []TypeOK
  <1>1. IInv => TypeOK
    <2> SUFFICES ASSUME IInv PROVE TypeOK
      OBVIOUS
    <2>1. Inputs /\ granted \in [Flows -> Nat]
      BY DEF IInv
    <2>2. \A f \in Flows : /\ Minima[f] \in Nat /\ Targets[f] \in Nat /\ entries[f].max \in Nat
                           /\ Minima[f] <= Targets[f] /\ Targets[f] <= entries[f].max
      BY <2>1, InputTypes
    <2>3. \A f \in Flows : granted[f] <= entries[f].max
      <3>1. CASE phase = "start"
        BY <2>2, <3>1 DEF IInv
      <3>2. CASE Filling
        BY <2>1, <2>2, <3>2 DEF Filling
      <3>3. CASE Finished
        <4>1. CASE granted = [f \in Flows |-> 0]
          BY <2>2, <4>1
        <4>2. CASE capacity > 0 /\ Total(Minima, Flows) > capacity /\ granted = ScaledMinima
          <5>1. \A f \in Flows : granted[f] <= Minima[f]
            BY <2>1, <4>2, ScalingExact
          <5>2. QED
            BY <2>1, <2>2, <5>1
        <4>3. QED
          BY <3>2, <3>3, <4>1, <4>2 DEF Finished
      <3>4. QED
        BY <3>1, <3>2, <3>3 DEF IInv
    <2>4. QED
      BY <2>1, <2>2, <2>3 DEF IInv, TypeOK
  <1>2. QED
    BY <1>1, Inductive, PTL

(* allocate_weighted meets the contract tick() relies on, whatever the     *)
(* flows: it spends the capacity or meets every target, honours the minima *)
(* that fit and scales the ones that do not.                               *)
THEOREM ContractMet == Spec => []MeetsContract
  <1>1. IInv => MeetsContract
    <2> SUFFICES ASSUME IInv, phase = "done", capacity > 0 PROVE MeetsContract
      BY DEF MeetsContract
    <2>1. Inputs /\ granted \in [Flows -> Nat] /\ capacity \in Nat /\ remaining \in Nat
      BY DEF IInv, Inputs
    <2>2. /\ Total(Minima, Flows) \in Nat /\ Total(Targets, Flows) \in Nat
          /\ Minima \in [Flows -> Nat] /\ Targets \in [Flows -> Nat]
      BY <2>1, InputTypes
    <2>3. Total(granted, Flows) \in Nat
      BY <2>1, TotalType, WaterFillAssumption
    <2>4. \A a, b \in Nat : Min({a, b}) = IF a <= b THEN a ELSE b
      BY DEF Min
    <2>5. CASE Flows = {}
      <3>1. Total(Minima, Flows) = 0 /\ Total(granted, Flows) = 0 /\ Total(Targets, Flows) = 0
        BY <2>5, TotalStep, WaterFillAssumption
      <3>2. Min({capacity, 0}) = 0
        BY <2>1, <2>4
      <3>3. ~ (0 > capacity) /\ \A f \in Flows : FALSE
        BY <2>1, <2>5
      <3>4. QED
        BY <3>1, <3>2, <3>3, Zenon DEF MeetsContract
    <2>6. CASE Total(Minima, Flows) > capacity /\ granted = ScaledMinima
      BY <2>1, <2>6, ScalingExact DEF MeetsContract
    <2>7. CASE Filling /\ (remaining = 0 \/ active = {})
      <3>1. ~ (Total(Minima, Flows) > capacity)
        BY <2>1, <2>2, <2>7 DEF Filling
      <3>2. \A f \in Flows : Minima[f] <= granted[f] /\ granted[f] <= Targets[f]
        BY <2>7 DEF Filling
      <3>3. Total(granted, Flows) <= Total(Targets, Flows)
        BY <2>1, <2>2, <3>2, TotalMonotone, WaterFillAssumption
      <3>4. Total(granted, Flows) + remaining = capacity
        BY <2>7 DEF Filling
      <3>5. active = {} => Total(granted, Flows) = Total(Targets, Flows)
        <4> SUFFICES ASSUME active = {} PROVE Total(granted, Flows) = Total(Targets, Flows)
          OBVIOUS
        <4>1. \A f \in Flows : granted[f] \in Nat /\ granted[f] = Targets[f]
          BY <2>1, <2>2, <2>7 DEF Filling
        <4>2. QED
          BY <4>1, TotalEqual, WaterFillAssumption
      <3>6. Total(granted, Flows) = Min({capacity, Total(Targets, Flows)})
        <4>1. Min({capacity, Total(Targets, Flows)}) =
                IF capacity <= Total(Targets, Flows) THEN capacity ELSE Total(Targets, Flows)
          BY <2>1, <2>2, <2>4
        <4>2. QED
          BY <2>1, <2>2, <2>3, <2>7, <3>3, <3>4, <3>5, <4>1
      <3>7. QED
        BY <3>1, <3>2, <3>6 DEF MeetsContract
    <2>8. QED
      BY <2>1, <2>5, <2>6, <2>7 DEF IInv, Finished
  <1>2. QED
    BY <1>1, Inductive, PTL

(* The water-filling loop ends in the weighted max-min allocation, for any *)
(* number of flows and of turns.                                           *)
THEOREM Fair == Spec => []MaxMinFair
  <1>1. ASSUME NEW a \in Nat, NEW b \in Nat, NEW v \in Nat, NEW w \in Nat, NEW l \in Nat,
               a <= l * v, b = l * w
        PROVE  a * w <= b * v
    <2>1. a * w <= (l * v) * w
      BY <1>1
    <2>2. (l * v) * w = b * v
      BY <1>1
    <2>3. QED
      BY <2>1, <2>2
  <1>2. IInv => MaxMinFair
    <2> DEFINE weight(f) == Max({entries[f].weight, 1})
               extra(f) == granted[f] - Minima[f]
    <2> SUFFICES ASSUME IInv, phase = "done", Total(Minima, Flows) <= capacity,
                        NEW f \in Flows, NEW g \in Flows, granted[f] < Targets[f]
                 PROVE  extra(g) * weight(f) <= extra(f) * weight(g)
      BY Zenon DEF MaxMinFair
    <2>1. Inputs /\ granted \in [Flows -> Nat] /\ capacity \in Nat
      BY DEF IInv, Inputs
    <2>2. /\ Minima \in [Flows -> Nat] /\ Targets \in [Flows -> Nat]
          /\ Total(Minima, Flows) \in Nat
          /\ \A x \in Flows : Weight(x) \in Nat /\ Weight(x) > 0
      BY <2>1, InputTypes
    <2>3. weight(f) = Weight(f) /\ weight(g) = Weight(g)
      BY <2>1 DEF Max, Weight, Inputs, Entry
    <2>4. CASE capacity = 0 /\ granted = [x \in Flows |-> 0]
      <3>1. Minima[f] <= Total(Minima, Flows) /\ Minima[g] <= Total(Minima, Flows)
        BY <2>2, TotalBoundsTerm, WaterFillAssumption
      <3>2. extra(f) = 0 /\ extra(g) = 0
        BY <2>2, <2>4, <3>1
      <3> HIDE DEF extra, weight
      <3>3. QED
        BY <2>2, <2>3, <3>2
    <2>5. CASE Filling
      <3>1. PICK l \in Nat : \A x \in Flows :
              /\ granted[x] <= Minima[x] + l * Weight(x)
              /\ x \in active => granted[x] = Minima[x] + l * Weight(x)
        BY <2>5 DEF Filling, Level
      <3>2. f \in active
        BY <2>5 DEF Filling
      <3>3. l * Weight(f) \in Nat /\ l * Weight(g) \in Nat
        BY <2>2
      <3>4. extra(f) \in Nat /\ extra(g) \in Nat
        BY <2>1, <2>2, <2>5 DEF Filling
      <3>5. extra(f) = l * Weight(f) /\ extra(g) <= l * Weight(g)
        BY <2>1, <2>2, <3>1, <3>2, <3>3
      <3> HIDE DEF extra, weight
      <3>6. extra(g) * Weight(f) <= extra(f) * Weight(g)
        BY <1>1, <2>2, <3>4, <3>5
      <3>7. QED
        BY <2>3, <3>6
    <2>6. QED
      <3>1. ~ (Total(Minima, Flows) > capacity)
        BY <2>1, <2>2
      <3>2. QED
        BY <2>4, <2>5, <3>1 DEF IInv, Finished
  <1>3. QED
    BY <1>2, Inductive, PTL
===============================================================================
