---------------------------- MODULE GovernorSteps -----------------------------
(***************************************************************************)
(* What one step of the governor does: lemmas about its operators,         *)
(* summaries of what its two bulk operations, tick and register_worker, do *)
(* to each flow, and the two halves of the inductive invariant.  Every     *)
(* operation keeps the control state well typed (TypeOK) and each flow's   *)
(* reservation history in order (ReservationHistory).                      *)
(***************************************************************************)
EXTENDS Governor, TLAPS

(* A reservation's number is also an attempt's.                             *)
LEMMA NumbersInRange == \A k \in RsvNums : k \in 0..MaxMint
  BY ConstantsAssumption DEF RsvNums

(* A minted reservation is well typed and Active.                          *)
LEMMA NewReservationType ==
  ASSUME TypeOK, NEW a \in 0..MaxMint, NEW g \in Nat, NEW b \in Boots \cup {NoBoot}
  PROVE  /\ NewReservation(a, g, b) \in Reservation
         /\ NewReservation(a, g, b).state = "Active"
         /\ NewReservation(a, g, b).attempt = a
         /\ NewReservation(a, g, b).fgen = g
         /\ NewReservation(a, g, b).epoch = epoch
         /\ NewReservation(a, g, b).capGen = capGen
         /\ NewReservation(a, g, b).boot = b
  BY DEF TypeOK, NewReservation, Reservation, ReservationStates

(* Release changes nothing but the state, and leaves a live or released    *)
(* reservation Released.                                                   *)
LEMMA ReleaseType ==
  ASSUME NEW rsv \in Reservation
  PROVE  /\ Release(rsv) \in Reservation
         /\ Release(rsv).attempt = rsv.attempt
         /\ Release(rsv).fgen = rsv.fgen
         /\ rsv.state \in {"Active", "Released"} => Release(rsv).state = "Released"
  <1>1. [rsv EXCEPT !.state = "Released"] \in Reservation
    BY DEF Reservation, ReservationStates
  <1>2. rsv.state \in {"Active", "Released"} =>
          ReservationTransition(rsv.state, "Released")
    BY DEF ReservationTransition, ReservationEdges
  <1>3. QED
    BY <1>1, <1>2 DEF Release, Reservation

(* ReleaseCurrent keeps a flow's reservations well typed and touches only  *)
(* the one the flow names.                                                 *)
LEMMA ReleaseCurrentType ==
  ASSUME TypeOK, NEW f \in Flows
  PROVE  /\ ReleaseCurrent(f) \in [RsvNums -> Reservation]
         /\ \A n \in RsvNums :
              /\ n # rsvOf[f] => ReleaseCurrent(f)[n] = reservations[f][n]
              /\ n = rsvOf[f] => ReleaseCurrent(f)[n] = Release(reservations[f][n])
  BY ReleaseType DEF TypeOK, ReleaseCurrent

(* A flow's history survives any step that leaves its authority alone.     *)
LEMMA HistoryFrame ==
  ASSUME NEW f \in Flows, FlowHistory(f), paths \subseteq paths',
         UNCHANGED <<fstate[f], spec[f], attempt[f], fgen[f]>>,
         UNCHANGED <<rsvOf[f], minted[f], reservations[f]>>
  PROVE  FlowHistory(f)'
  BY DEF FlowHistory

(* A flow's history survives the release of its current reservation, be it *)
(* by a client (the state stays) or because the flow settles.              *)
LEMMA HistoryRelease ==
  ASSUME TypeOK, NEW f \in Flows, FlowHistory(f), paths \subseteq paths',
         fstate[f] # "Absent",
         \/ fstate'[f] = fstate[f] /\ minted[f] # 0
         \/ fstate'[f] = "Cancelled"
         \/ fstate'[f] = "Completed" /\ minted[f] # 0,
         UNCHANGED <<spec[f], attempt[f], fgen[f], rsvOf[f], minted[f]>>,
         reservations'[f] = ReleaseCurrent(f)
  PROVE  FlowHistory(f)'
  <1>1. /\ minted[f] \in 0..MaxMint
        /\ reservations[f] \in [RsvNums -> Reservation]
    BY Zenon DEF TypeOK
  <1>2. \A n \in RsvNums : n # minted[f] => reservations'[f][n] = reservations[f][n]
    BY ReleaseCurrentType DEF FlowHistory
  <1>3. ASSUME NEW n \in RsvNums, n = minted[f]
        PROVE  /\ reservations'[f][n].state = "Released"
               /\ reservations'[f][n].attempt = attempt[f]
               /\ reservations'[f][n].fgen = fgen[f]
    <2>1. reservations'[f][n] = Release(reservations[f][n])
      BY <1>3, ReleaseCurrentType DEF FlowHistory
    <2>2. reservations[f][n] \in Reservation
      BY <1>1
    <2>3. /\ reservations[f][n].state \in {"Active", "Released"}
          /\ reservations[f][n].attempt = attempt[f]
          /\ reservations[f][n].fgen = fgen[f]
      BY <1>3, Zenon DEF FlowHistory
    <2>4. QED
      BY <2>1, <2>2, <2>3, ReleaseType
  <1>4. \A n \in RsvNums :
          /\ n > minted'[f] => reservations'[f][n].state = "Unminted"
          /\ n < minted'[f] => reservations'[f][n].state = "Released"
    BY <1>1, <1>2 DEF FlowHistory, RsvNums
  <1>5. QED
    BY <1>3, <1>4 DEF FlowHistory, Scheduled

(* A flow's history survives a mint: the reservations so far are left as   *)
(* they are or, on a roll, the current one is released first.              *)
LEMMA HistoryMint ==
  ASSUME TypeOK, NEW f \in Flows, FlowHistory(f), paths \subseteq paths',
         NEW old \in [RsvNums -> Reservation], NEW rsv \in Reservation,
         \A n \in RsvNums : n # minted[f] => old[n] = reservations[f][n],
         \A n \in RsvNums : n = minted[f] => old[n].state = "Released",
         minted[f] + 1 \in RsvNums,
         attempt'[f] <= minted[f] + 1, fgen'[f] <= minted[f] + 1,
         rsvOf'[f] = minted[f] + 1, minted'[f] = minted[f] + 1,
         reservations'[f] = [old EXCEPT ![minted[f] + 1] = rsv],
         rsv.state = "Active", rsv.attempt = attempt'[f], rsv.fgen = fgen'[f],
         fstate'[f] \in {"Reserved", "Running"},
         spec'[f] \in Specs, spec'[f].path \in paths'
  PROVE  FlowHistory(f)'
  <1>1. minted[f] \in 0..MaxMint
    BY DEF TypeOK
  <1>2. /\ reservations'[f][minted[f] + 1] = rsv
        /\ \A n \in RsvNums : n # minted[f] + 1 => reservations'[f][n] = old[n]
    OBVIOUS
  <1>3. ASSUME NEW n \in RsvNums, n > minted'[f]
        PROVE  reservations'[f][n].state = "Unminted"
    BY <1>1, <1>2, <1>3 DEF FlowHistory, RsvNums
  <1>4. ASSUME NEW n \in RsvNums, n < minted'[f]
        PROVE  reservations'[f][n].state = "Released"
    <2>1. CASE n = minted[f]
      BY <1>1, <1>2, <2>1 DEF RsvNums
    <2>2. CASE n # minted[f]
      BY <1>1, <1>2, <1>4, <2>2 DEF FlowHistory, RsvNums
    <2>3. QED
      BY <2>1, <2>2
  <1>5. minted'[f] # 0
    BY <1>1
  <1>6. QED
    BY <1>2, <1>3, <1>4, <1>5, ZenonT(60) DEF FlowHistory, TerminalFlow

(* The states tick() leaves a scheduled flow in.                           *)
LEMMA RescheduledType ==
  ASSUME NEW st, NEW s, NEW g
  PROVE  Rescheduled(st, s, g) \in {"Running", "Throttled", "Preempted"}
  BY DEF Rescheduled

(* What one tick does to each flow's state and reservations, with the      *)
(* allocation that led to it left out.                                     *)
LEMMA TickFlows ==
  ASSUME Tick
  PROVE  /\ fstate' = [f \in Flows |-> fstate'[f]]
         /\ rsvOf' = [f \in Flows |-> rsvOf'[f]]
         /\ minted' = [f \in Flows |-> minted'[f]]
         /\ reservations' = [f \in Flows |-> reservations'[f]]
         /\ UNCHANGED <<known, enabled, measured, age, paths, epoch, capGen, spec,
                        attempt, fgen, bytes, workerVars, tenantVars>>
         /\ \A f \in Flows :
              \/ /\ fstate[f] = "Queued"
                 /\ fstate'[f] = "Running"
                 /\ minted[f] + 1 \in RsvNums
                 /\ rsvOf'[f] = minted[f] + 1
                 /\ minted'[f] = minted[f] + 1
                 /\ reservations'[f] =
                      [reservations[f] EXCEPT
                         ![minted[f] + 1] = NewReservation(attempt[f], fgen[f], NoBoot)]
              \/ /\ IF fstate[f] \in Scheduled
                    THEN fstate'[f] \in {"Running", "Throttled", "Preempted"}
                    ELSE fstate'[f] = fstate[f]
                 /\ fstate[f] = "Reserved" => fstate'[f] = "Running"
                 /\ rsvOf'[f] = rsvOf[f]
                 /\ minted'[f] = minted[f]
                 /\ reservations'[f] = reservations[f]
  <1> DEFINE A == AdmittedByTick
             st == StateAfterAdmission(A)
             rs == ReservationsAfterAdmission(A)
             sched == { f \in Flows : st[f] \in Scheduled }
  <1>1. \A f \in A : minted[f] + 1 \in RsvNums
    BY DEF Tick
  <1>2. /\ fstate' = [f \in Flows |->
                         IF f \in sched THEN Rescheduled(st[f], spec[f], granted'[f])
                                        ELSE st[f]]
        /\ rsvOf' = [f \in Flows |-> IF f \in A THEN minted[f] + 1 ELSE rsvOf[f]]
        /\ minted' = [f \in Flows |-> IF f \in A THEN minted[f] + 1 ELSE minted[f]]
        /\ reservations' = rs
        /\ UNCHANGED <<known, enabled, measured, age, topologyVars, capGen, spec,
                       attempt, fgen, bytes, workerVars, tenantVars>>
    BY Zenon DEF Tick
  <1>3. \A f \in Flows : st[f] = IF f \in A THEN "Reserved" ELSE fstate[f]
    BY DEF StateAfterAdmission
  <1>4. \A f \in A : f \in Flows /\ fstate[f] = "Queued"
    BY DEF AdmittedByTick
  <1>5. ASSUME NEW f \in Flows, f \in A
        PROVE  /\ fstate'[f] = "Running"
               /\ reservations'[f] =
                      [reservations[f] EXCEPT
                         ![minted[f] + 1] = NewReservation(attempt[f], fgen[f], NoBoot)]
    <2>1. st[f] = "Reserved" /\ f \in sched
      BY <1>3, <1>5 DEF Scheduled
    <2>2. fstate'[f] = Rescheduled(st[f], spec[f], granted'[f])
      BY <1>2, <2>1
    <2>3. fstate'[f] = "Running"
      BY <2>1, <2>2 DEF Rescheduled
    <2>4. QED
      BY <1>2, <1>5, <2>3 DEF ReservationsAfterAdmission
  <1>6. ASSUME NEW f \in Flows, f \notin A
        PROVE  /\ IF fstate[f] \in Scheduled
                  THEN fstate'[f] \in {"Running", "Throttled", "Preempted"}
                  ELSE fstate'[f] = fstate[f]
               /\ fstate[f] = "Reserved" => fstate'[f] = "Running"
               /\ reservations'[f] = reservations[f]
    <2>1. st[f] = fstate[f]
      BY <1>3, <1>6
    <2>2. fstate'[f] = IF fstate[f] \in Scheduled
                       THEN Rescheduled(st[f], spec[f], granted'[f]) ELSE st[f]
      BY <1>2, <2>1
    <2>3. fstate[f] = "Reserved" => fstate'[f] = "Running"
      BY <2>1, <2>2 DEF Scheduled, Rescheduled
    <2>4. QED
      BY <1>2, <1>6, <2>1, <2>2, <2>3, RescheduledType DEF ReservationsAfterAdmission
  <1> HIDE DEF A, st, rs, sched
  <1>7. reservations' = [f \in Flows |-> reservations'[f]]
    BY <1>2 DEF rs, ReservationsAfterAdmission
  <1>8. QED
    BY <1>1, <1>2, <1>4, <1>5, <1>6, <1>7 DEF topologyVars

(* A tick assigns flows to workers of the table, under their boots.        *)
LEMMA TickAssigns ==
  ASSUME TypeOK, ReservationHistory, Tick
  PROVE  /\ assigned' \in [Flows -> Workers \cup {NoWorker}]
         /\ assignedBoot' \in [Flows -> Boots \cup {NoBoot}]
  <1> DEFINE A == AdmittedByTick
             st == StateAfterAdmission(A)
  <1>1. PICK pick \in WorkerPicks :
          /\ assigned' = [f \in Flows |->
               IF st[f] = "Reserved" /\ pick[spec[f].path] # NoWorker
               THEN pick[spec[f].path] ELSE assigned[f]]
          /\ assignedBoot' = [f \in Flows |->
               IF st[f] = "Reserved" /\ pick[spec[f].path] # NoWorker
               THEN wboot[pick[spec[f].path]] ELSE assignedBoot[f]]
    BY Zenon DEF Tick
  <1>2. \A f \in Flows : st[f] = IF f \in A THEN "Reserved" ELSE fstate[f]
    BY DEF StateAfterAdmission
  <1>3. \A f \in A : f \in Flows /\ fstate[f] = "Queued"
    BY DEF AdmittedByTick
  <1>4. \A f \in Flows : st[f] = "Reserved" => spec[f].path \in paths
    BY <1>2, <1>3 DEF ReservationHistory, FlowHistory
  <1>5. pick \in [paths -> Workers \cup {NoWorker}]
    BY DEF WorkerPicks
  <1> HIDE DEF st, A
  <1>6. QED
    BY <1>1, <1>4, <1>5 DEF TypeOK

(* What one registration does to each flow's control state: nothing, or a  *)
(* roll of its authority onto the worker's new boot.                       *)
LEMMA RegisterFlows ==
  ASSUME NEW w \in Workers, NEW b \in Boots, RegisterWorker(w, b)
  PROVE  /\ fstate' = [f \in Flows |-> fstate'[f]]
         /\ attempt' = [f \in Flows |-> attempt'[f]]
         /\ fgen' = [f \in Flows |-> fgen'[f]]
         /\ bytes' = [f \in Flows |-> bytes'[f]]
         /\ rsvOf' = [f \in Flows |-> rsvOf'[f]]
         /\ minted' = [f \in Flows |-> minted'[f]]
         /\ reservations' = [f \in Flows |-> reservations'[f]]
         /\ assignedBoot' = [f \in Flows |-> IF f \in RolledBy(w, b) THEN b
                                                               ELSE assignedBoot[f]]
         /\ wboot' = [wboot EXCEPT ![w] = b]
         /\ UNCHANGED <<paths, epoch, capGen, spec, assigned, tenantVars>>
         /\ \A f \in Flows :
              \/ /\ fstate[f] = "Running" /\ assigned[f] = w
                 /\ minted[f] + 1 \in RsvNums
                 /\ fstate'[f] = "Reserved"
                 /\ attempt'[f] = minted[f] + 1
                 /\ fgen'[f] = fgen[f] + 1
                 /\ bytes'[f] = 0
                 /\ rsvOf'[f] = minted[f] + 1
                 /\ minted'[f] = minted[f] + 1
                 /\ reservations'[f] =
                      [ReleaseCurrent(f) EXCEPT
                         ![minted[f] + 1] = NewReservation(minted[f] + 1, fgen[f] + 1, b)]
              \/ /\ UNCHANGED <<fstate[f], attempt[f], fgen[f], bytes[f]>>
                 /\ UNCHANGED <<rsvOf[f], minted[f], reservations[f]>>
  <1> DEFINE R == RolledBy(w, b)
  <1>1. \A f \in R : fstate[f] = "Running" /\ assigned[f] = w
    BY DEF RolledBy
  <1>2. /\ \A f \in R : minted[f] + 1 \in RsvNums
        /\ wboot' = [wboot EXCEPT ![w] = b]
        /\ fstate' = [f \in Flows |-> IF f \in R THEN "Reserved" ELSE fstate[f]]
        /\ attempt' = [f \in Flows |-> IF f \in R THEN minted[f] + 1 ELSE attempt[f]]
        /\ fgen' = [f \in Flows |-> IF f \in R THEN fgen[f] + 1 ELSE fgen[f]]
        /\ bytes' = [f \in Flows |-> IF f \in R THEN 0 ELSE bytes[f]]
        /\ assignedBoot' = [f \in Flows |-> IF f \in R THEN b ELSE assignedBoot[f]]
        /\ rsvOf' = [f \in Flows |-> IF f \in R THEN minted[f] + 1 ELSE rsvOf[f]]
        /\ minted' = [f \in Flows |-> IF f \in R THEN minted[f] + 1 ELSE minted[f]]
        /\ reservations' =
             [f \in Flows |->
                IF f \in R
                THEN [ReleaseCurrent(f) EXCEPT
                        ![minted[f] + 1] = NewReservation(minted[f] + 1, fgen[f] + 1, b)]
                ELSE reservations[f]]
        /\ UNCHANGED <<paths, epoch, capGen, spec, assigned, tenantVars>>
    BY DEF RegisterWorker, RolledReservations, topologyVars
  <1> HIDE DEF R
  <1>3. \A f \in Flows :
          \/ /\ fstate[f] = "Running" /\ assigned[f] = w
             /\ minted[f] + 1 \in RsvNums
             /\ fstate'[f] = "Reserved"
             /\ attempt'[f] = minted[f] + 1
             /\ fgen'[f] = fgen[f] + 1
             /\ bytes'[f] = 0
             /\ rsvOf'[f] = minted[f] + 1
             /\ minted'[f] = minted[f] + 1
             /\ reservations'[f] =
                  [ReleaseCurrent(f) EXCEPT
                     ![minted[f] + 1] = NewReservation(minted[f] + 1, fgen[f] + 1, b)]
          \/ /\ UNCHANGED <<fstate[f], attempt[f], fgen[f], bytes[f]>>
             /\ UNCHANGED <<rsvOf[f], minted[f], reservations[f]>>
    BY <1>1, <1>2, Zenon
  <1>4. QED
    BY <1>2, <1>3, Zenon DEF R

(* The same for one flow, as far as its mints go.                          *)
LEMMA RegisterFlow ==
  ASSUME NEW w \in Workers, NEW b \in Boots, RegisterWorker(w, b), NEW f \in Flows
  PROVE  \/ /\ fstate[f] = "Running"
            /\ minted[f] + 1 \in RsvNums
            /\ fstate'[f] = "Reserved"
            /\ minted'[f] = minted[f] + 1
            /\ reservations'[f] =
                 [ReleaseCurrent(f) EXCEPT
                    ![minted[f] + 1] = NewReservation(minted[f] + 1, fgen[f] + 1, b)]
         \/ minted'[f] = minted[f] /\ attempt'[f] = attempt[f]
  BY RegisterFlows, ZenonT(60)

(* The initial state is well typed.                                        *)
LEMMA InitTypeOK == Init => TypeOK
  BY ConstantsAssumption
  DEF Init, TypeOK, FlowStates, Reservation, Unminted, ReservationStates, RsvNums

(* Operations on resources, paths and the clock keep the types.            *)
LEMMA CapacityTypeOK == TypeOK /\ CapacityNext => TypeOK'
  <1> SUFFICES ASSUME TypeOK, CapacityNext PROVE TypeOK'
    OBVIOUS
  <1> USE DEF TypeOK, capacityVars, loadVars, topologyVars, flowVars, rsvVars,
              workerVars, tenantVars
  <1>1. ASSUME NEW r \in Resources, AddResource(r) PROVE TypeOK'
    BY <1>1, ConstantsAssumption DEF AddResource
  <1>2. ASSUME NEW r \in Resources, NEW m \in Measured, NEW bump \in BOOLEAN,
               UpdateCapacity(r, m, bump)
        PROVE TypeOK'
    BY <1>2, ConstantsAssumption DEF UpdateCapacity
  <1>3. ASSUME NEW r \in Resources, NEW on \in BOOLEAN, SetResourceEnabled(r, on)
        PROVE TypeOK'
    BY <1>3 DEF SetResourceEnabled
  <1>4. ASSUME NEW r \in Resources, InvalidateResourceCapacity(r) PROVE TypeOK'
    BY <1>4, ConstantsAssumption DEF InvalidateResourceCapacity
  <1>5. ASSUME NEW p \in Paths, AddPath(p) PROVE TypeOK'
    BY <1>5 DEF AddPath
  <1>6. CASE Elapse
    BY <1>6, ConstantsAssumption DEF Elapse, Smaller
  <1>7. QED
    BY <1>1, <1>2, <1>3, <1>4, <1>5, <1>6 DEF CapacityNext

(* Submission keeps the types, whether the flow is parked or admitted.     *)
LEMMA SubmitTypeOK ==
  ASSUME TypeOK, NEW f \in Flows, NEW s \in Specs, SubmitFlow(f, s)
  PROVE  TypeOK'
  <1> USE DEF TypeOK, topologyVars, workerVars, rsvVars
  <1>1. spec' \in [Flows -> Specs \cup {NoSpec}] /\ submitted' \in [Tenants -> Nat]
    BY ConstantsAssumption DEF SubmitFlow, FlowSpec
  <1>2. CASE SubmitDeferred(f, s)
    BY <1>1, <1>2 DEF SubmitDeferred, SubmitFlow, FlowStates
  <1>3. CASE SubmitAdmitted(f, s)
    <2>1. NewReservation(attempt[f], fgen[f], NoBoot) \in Reservation
      BY NewReservationType
    <2>2. minted[f] + 1 \in RsvNums
      BY <1>3 DEF SubmitAdmitted
    <2>3. reservations' \in [Flows -> [RsvNums -> Reservation]]
      BY <1>3, <2>1, <2>2 DEF SubmitAdmitted
    <2>4. /\ fstate' \in [Flows -> FlowStates \cup {"Absent"}]
          /\ rsvOf' \in [Flows -> 0..MaxMint]
          /\ minted' \in [Flows -> 0..MaxMint]
      BY <1>3, <2>2, ConstantsAssumption DEF SubmitAdmitted, FlowStates, RsvNums
    <2>5. QED
      BY <1>1, <2>3, <2>4 DEF SubmitFlow
  <1>4. QED
    BY <1>2, <1>3 DEF SubmitFlow

(* Submitting, cancelling, resuming, releasing and scheduling flows keep   *)
(* the types.                                                              *)
LEMMA FlowTypeOK == TypeOK /\ ReservationHistory /\ FlowNext => TypeOK'
  <1> SUFFICES ASSUME TypeOK, ReservationHistory, FlowNext PROVE TypeOK'
    OBVIOUS
  <1>1. ASSUME NEW f \in Flows, NEW s \in Specs, SubmitFlow(f, s) PROVE TypeOK'
    BY <1>1, SubmitTypeOK
  <1>2. ASSUME NEW f \in Flows, CancelFlow(f) PROVE TypeOK'
    <2>1. reservations' \in [Flows -> [RsvNums -> Reservation]]
      BY <1>2, ReleaseCurrentType DEF CancelFlow, TypeOK
    <2>2. fstate' \in [Flows -> FlowStates \cup {"Absent"}]
      BY <1>2 DEF CancelFlow, TypeOK, FlowStates
    <2>3. QED
      BY <1>2, <2>1, <2>2 DEF CancelFlow, TypeOK, topologyVars, workerVars, tenantVars
  <1>3. ASSUME NEW f \in Flows, ResumeFlow(f) PROVE TypeOK'
    BY <1>3 DEF ResumeFlow, TypeOK, FlowStates, capacityVars, topologyVars, rsvVars,
                workerVars, tenantVars
  <1>4. ASSUME NEW f \in Flows, NEW n \in RsvNums, ReleaseReservation(f, n)
        PROVE TypeOK'
    <2>1. Release(reservations[f][n]) \in Reservation
      BY ReleaseType DEF TypeOK
    <2>2. reservations' \in [Flows -> [RsvNums -> Reservation]]
      BY <1>4, <2>1 DEF ReleaseReservation, TypeOK
    <2>3. QED
      BY <1>4, <2>2 DEF ReleaseReservation, TypeOK, topologyVars, flowVars, workerVars,
                        tenantVars
  <1>5. CASE Tick
    <2>1. ASSUME NEW f \in Flows
          PROVE  /\ fstate'[f] \in FlowStates \cup {"Absent"}
                 /\ rsvOf'[f] \in 0..MaxMint
                 /\ minted'[f] \in 0..MaxMint
      <3>1. fstate[f] \in FlowStates \cup {"Absent"} /\ rsvOf[f] \in 0..MaxMint
            /\ minted[f] \in 0..MaxMint
        BY DEF TypeOK
      <3>2. \/ /\ fstate'[f] = "Running"
               /\ minted[f] + 1 \in RsvNums
               /\ rsvOf'[f] = minted[f] + 1
               /\ minted'[f] = minted[f] + 1
            \/ /\ fstate'[f] \in {"Running", "Throttled", "Preempted", fstate[f]}
               /\ rsvOf'[f] = rsvOf[f]
               /\ minted'[f] = minted[f]
        BY <1>5, TickFlows
      <3>3. QED
        <4>1. fstate'[f] \in FlowStates \cup {"Absent"}
          BY <3>1, <3>2, Zenon DEF FlowStates
        <4>2. QED
          BY <3>1, <3>2, <4>1, NumbersInRange, Zenon
    <2>2. ASSUME NEW f \in Flows
          PROVE  reservations'[f] \in [RsvNums -> Reservation]
      <3>1. NewReservation(attempt[f], fgen[f], NoBoot) \in Reservation
        BY NewReservationType DEF TypeOK
      <3>2. reservations[f] \in [RsvNums -> Reservation]
        BY DEF TypeOK
      <3>3. \/ reservations'[f] =
                 [reservations[f] EXCEPT
                    ![minted[f] + 1] = NewReservation(attempt[f], fgen[f], NoBoot)]
            \/ reservations'[f] = reservations[f]
        BY <1>5, TickFlows, Zenon
      <3>4. QED
        BY <3>1, <3>2, <3>3, Zenon
    <2>3. /\ fstate' \in [Flows -> FlowStates \cup {"Absent"}]
          /\ rsvOf' \in [Flows -> 0..MaxMint]
          /\ minted' \in [Flows -> 0..MaxMint]
          /\ reservations' \in [Flows -> [RsvNums -> Reservation]]
      BY <1>5, <2>1, <2>2, TickFlows
    <2>4. QED
      BY <1>5, <2>3, TickFlows, TickAssigns DEF TypeOK, workerVars, tenantVars
  <1>6. QED
    BY <1>1, <1>2, <1>3, <1>4, <1>5 DEF FlowNext

(* A completion keeps the types: it settles a flow that was submitted.     *)
LEMMA CompletionTypeOK ==
  ASSUME TypeOK, ReservationHistory, NEW f \in Flows, NEW a, NEW g, NEW b,
         NEW done \in 0..MaxBytes, ReportCompletion(f, a, g, b, done)
  PROVE  TypeOK'
  <1>1. /\ fstate[f] = "Running"
        /\ fstate' = [fstate EXCEPT ![f] = "Completed"]
        /\ bytes' = [bytes EXCEPT ![f] = Larger(bytes[f], done)]
        /\ reservations' = [reservations EXCEPT ![f] = ReleaseCurrent(f)]
        /\ completed' = [completed EXCEPT
                           ![spec[f].tenant] = completed[spec[f].tenant] + 1]
    BY Zenon DEF ReportCompletion, Authorised
  <1>2. UNCHANGED <<known, enabled, measured, age, paths, epoch, capGen, spec, attempt,
                    fgen, rsvOf, assigned, assignedBoot, minted, alive, wboot, submitted>>
    BY DEF ReportCompletion, topologyVars, workerVars
  <1>3. /\ fstate \in [Flows -> FlowStates \cup {"Absent"}]
        /\ bytes \in [Flows -> 0..MaxBytes]
        /\ reservations \in [Flows -> [RsvNums -> Reservation]]
        /\ completed \in [Tenants -> Nat]
    BY DEF TypeOK
  <1>4. spec[f].tenant \in Tenants
    <2>1. spec[f] \in Specs
      BY <1>1, Zenon DEF ReservationHistory, FlowHistory
    <2>2. QED
      BY <2>1, ConstantsAssumption DEF FlowSpec
  <1>5. completed' \in [Tenants -> Nat]
    BY <1>1, <1>3, <1>4
  <1>6. fstate' \in [Flows -> FlowStates \cup {"Absent"}]
    BY <1>1, <1>3 DEF FlowStates
  <1>7. bytes' \in [Flows -> 0..MaxBytes]
    BY <1>1, <1>3 DEF Larger
  <1>8. reservations' \in [Flows -> [RsvNums -> Reservation]]
    BY <1>1, <1>3, ReleaseCurrentType
  <1>9. QED
    BY <1>2, <1>5, <1>6, <1>7, <1>8 DEF TypeOK

(* Worker registration, loss and reports keep the types.                   *)
LEMMA WorkerTypeOK == TypeOK /\ ReservationHistory /\ WorkerNext => TypeOK'
  <1> SUFFICES ASSUME TypeOK, ReservationHistory, WorkerNext PROVE TypeOK'
    OBVIOUS
  <1>1. ASSUME NEW w \in Workers, NEW b \in Boots, RegisterWorker(w, b) PROVE TypeOK'
    <2>1. /\ known' \in SUBSET Resources
          /\ enabled' \in [Resources -> BOOLEAN]
          /\ measured' \in [Resources -> Nat]
          /\ age' \in [Resources -> 0..MaxAge]
          /\ alive' \in [Workers -> BOOLEAN]
          /\ wboot' \in [Workers -> Boots \cup {NoBoot}]
      <3>1. /\ known' = known \cup Backs[w]
            /\ measured' = [r \in Resources |-> IF r \in Backs[w] THEN 0 ELSE measured[r]]
            /\ age' = [r \in Resources |-> IF r \in Backs[w] THEN 0 ELSE age[r]]
            /\ alive' = [alive EXCEPT ![w] = TRUE]
            /\ wboot' = [wboot EXCEPT ![w] = b]
            /\ enabled' = enabled
        BY <1>1, Zenon DEF RegisterWorker
      <3>2. known' \in SUBSET Resources
        BY <3>1, ConstantsAssumption, Zenon DEF TypeOK
      <3>3. measured' \in [Resources -> Nat] /\ age' \in [Resources -> 0..MaxAge]
        BY <3>1, ConstantsAssumption DEF TypeOK
      <3>4. alive' \in [Workers -> BOOLEAN]
        BY <3>1 DEF TypeOK
      <3>5. wboot' \in [Workers -> Boots \cup {NoBoot}]
        BY <3>1 DEF TypeOK
      <3>6. QED
        BY <3>1, <3>2, <3>3, <3>4, <3>5 DEF TypeOK
    <2>2. ASSUME NEW f \in Flows
          PROVE  /\ fstate'[f] \in FlowStates \cup {"Absent"}
                 /\ attempt'[f] \in 0..MaxMint
                 /\ fgen'[f] \in Nat
                 /\ bytes'[f] \in 0..MaxBytes
                 /\ rsvOf'[f] \in 0..MaxMint
                 /\ minted'[f] \in 0..MaxMint
                 /\ reservations'[f] \in [RsvNums -> Reservation]
      <3>1. /\ fstate[f] \in FlowStates \cup {"Absent"} /\ attempt[f] \in 0..MaxMint
            /\ fgen[f] \in Nat /\ bytes[f] \in 0..MaxBytes /\ rsvOf[f] \in 0..MaxMint
            /\ minted[f] \in 0..MaxMint
            /\ reservations[f] \in [RsvNums -> Reservation]
        BY DEF TypeOK
      <3>2. CASE UNCHANGED <<fstate[f], attempt[f], fgen[f], bytes[f]>>
                 /\ UNCHANGED <<rsvOf[f], minted[f], reservations[f]>>
        BY <3>1, <3>2, Zenon
      <3>3. CASE /\ minted[f] + 1 \in RsvNums
                 /\ fstate'[f] = "Reserved"
                 /\ attempt'[f] = minted[f] + 1
                 /\ fgen'[f] = fgen[f] + 1
                 /\ bytes'[f] = 0
                 /\ rsvOf'[f] = minted[f] + 1
                 /\ minted'[f] = minted[f] + 1
                 /\ reservations'[f] =
                      [ReleaseCurrent(f) EXCEPT
                         ![minted[f] + 1] = NewReservation(minted[f] + 1, fgen[f] + 1, b)]
        <4>0. fgen[f] + 1 \in Nat
          <5>1. fgen[f] \in Nat
            BY <3>1, Zenon
          <5>2. QED
            BY <5>1
        <4>1. minted[f] + 1 \in RsvNums
          BY <3>3, Zenon
        <4>2. minted[f] + 1 \in 0..MaxMint /\ 0 \in 0..MaxBytes
          BY <4>1, ConstantsAssumption DEF RsvNums
        <4>3. NewReservation(minted[f] + 1, fgen[f] + 1, b) \in Reservation
          BY <4>0, <4>2, NewReservationType, Zenon
        <4>4. reservations'[f] \in [RsvNums -> Reservation]
          <5>1. ReleaseCurrent(f) \in [RsvNums -> Reservation]
            BY ReleaseCurrentType, Zenon
          <5>2. [ReleaseCurrent(f) EXCEPT
                   ![minted[f] + 1] = NewReservation(minted[f] + 1, fgen[f] + 1, b)]
                  \in [RsvNums -> Reservation]
            BY <4>3, <5>1, Zenon
          <5>3. QED
            BY <3>3, <5>2, Zenon
        <4>5. "Reserved" \in FlowStates \cup {"Absent"}
          BY DEF FlowStates
        <4>6. QED
          BY <3>3, <4>0, <4>2, <4>4, <4>5, Zenon
      <3>4. QED
        <4>1. \/ /\ minted[f] + 1 \in RsvNums
                 /\ fstate'[f] = "Reserved"
                 /\ attempt'[f] = minted[f] + 1
                 /\ fgen'[f] = fgen[f] + 1
                 /\ bytes'[f] = 0
                 /\ rsvOf'[f] = minted[f] + 1
                 /\ minted'[f] = minted[f] + 1
                 /\ reservations'[f] =
                      [ReleaseCurrent(f) EXCEPT
                         ![minted[f] + 1] = NewReservation(minted[f] + 1, fgen[f] + 1, b)]
              \/ /\ UNCHANGED <<fstate[f], attempt[f], fgen[f], bytes[f]>>
                 /\ UNCHANGED <<rsvOf[f], minted[f], reservations[f]>>
          BY <1>1, RegisterFlows, ZenonT(60)
        <4>2. QED
          BY <3>2, <3>3, <4>1, Zenon
    <2>3. /\ fstate' \in [Flows -> FlowStates \cup {"Absent"}]
          /\ attempt' \in [Flows -> 0..MaxMint]
          /\ fgen' \in [Flows -> Nat]
          /\ bytes' \in [Flows -> 0..MaxBytes]
          /\ rsvOf' \in [Flows -> 0..MaxMint]
          /\ minted' \in [Flows -> 0..MaxMint]
          /\ reservations' \in [Flows -> [RsvNums -> Reservation]]
      BY <1>1, <2>2, RegisterFlows
    <2>4. /\ UNCHANGED <<paths, epoch, capGen, spec, assigned, submitted, completed>>
          /\ assignedBoot' \in [Flows -> Boots \cup {NoBoot}]
      <3>1. assignedBoot' = [f \in Flows |-> IF f \in RolledBy(w, b) THEN b
                                                                   ELSE assignedBoot[f]]
        BY <1>1, RegisterFlows, Zenon
      <3>2. UNCHANGED <<paths, epoch, capGen, spec, assigned, submitted, completed>>
        BY <1>1, RegisterFlows DEF tenantVars
      <3>3. QED
        BY <3>1, <3>2 DEF TypeOK
    <2>5. QED
      BY <2>1, <2>3, <2>4 DEF TypeOK
  <1>2. ASSUME NEW w \in Workers, DeregisterWorker(w) PROVE TypeOK'
    BY <1>2 DEF DeregisterWorker, TypeOK, capacityVars, topologyVars, rsvVars, tenantVars
  <1>3. ASSUME NEW f \in Flows, NEW a, NEW g, NEW b, NEW done \in 0..MaxBytes,
               ReportProgress(f, a, g, b, done)
        PROVE TypeOK'
    <2>1. bytes' \in [Flows -> 0..MaxBytes]
      BY <1>3 DEF ReportProgress, TypeOK, Larger
    <2>2. QED
      BY <1>3, <2>1 DEF ReportProgress, TypeOK, capacityVars, topologyVars, rsvVars,
                        workerVars, tenantVars
  <1>4. ASSUME NEW f \in Flows, NEW a, NEW g, NEW b, NEW done \in 0..MaxBytes,
               ReportCompletion(f, a, g, b, done)
        PROVE TypeOK'
    BY <1>4, CompletionTypeOK
  <1>5. QED
    BY <1>1, <1>2, <1>3, <1>4 DEF WorkerNext

-------------------------------------------------------------------------------
(* Capacity operations do not touch any flow's authority.                  *)
LEMMA CapacityHistory ==
  TypeOK /\ ReservationHistory /\ CapacityNext => ReservationHistory'
  <1> SUFFICES ASSUME ReservationHistory, CapacityNext, NEW f \in Flows
               PROVE  FlowHistory(f)'
    BY DEF ReservationHistory
  <1>1. UNCHANGED <<fstate, spec, attempt, fgen, rsvOf, minted, reservations>>
        /\ paths \subseteq paths'
    BY DEF CapacityNext, AddResource, UpdateCapacity, SetResourceEnabled,
           InvalidateResourceCapacity, AddPath, Elapse, topologyVars, flowVars, rsvVars
  <1>2. QED
    BY <1>1, HistoryFrame DEF ReservationHistory

(* Submission, cancellation, resumption, release and scheduling keep every *)
(* flow's history in order.                                                *)
LEMMA FlowHistoryStep ==
  TypeOK /\ ReservationHistory /\ FlowNext => ReservationHistory'
  <1> SUFFICES ASSUME TypeOK, ReservationHistory, FlowNext, NEW e \in Flows
               PROVE  FlowHistory(e)'
    BY DEF ReservationHistory
  <1>0. FlowHistory(e)
    BY DEF ReservationHistory
  <1>1. ASSUME NEW f \in Flows, NEW s \in Specs, SubmitFlow(f, s) PROVE FlowHistory(e)'
    <2>1. /\ UNCHANGED <<paths, attempt, fgen>>
          /\ spec' = [spec EXCEPT ![f] = s]
          /\ fstate[f] = "Absent" /\ s.path \in paths
      BY <1>1 DEF SubmitFlow, topologyVars
    <2>2. CASE SubmitDeferred(f, s)
      <3>1. UNCHANGED <<rsvOf, minted, reservations>>
            /\ fstate' = [fstate EXCEPT ![f] = "Queued"]
        BY <2>2 DEF SubmitDeferred, rsvVars
      <3>2. CASE e = f
        BY <1>0, <2>1, <3>1, <3>2
        DEF FlowHistory, TypeOK, Scheduled, TerminalFlow
      <3>3. CASE e # f
        BY <1>0, <2>1, <3>1, <3>3, HistoryFrame DEF TypeOK
      <3>4. QED
        BY <3>2, <3>3
    <2>3. CASE SubmitAdmitted(f, s)
      <3>1. /\ minted[f] + 1 \in RsvNums
            /\ fstate' = [fstate EXCEPT ![f] = "Reserved"]
            /\ rsvOf' = [rsvOf EXCEPT ![f] = minted[f] + 1]
            /\ minted' = [minted EXCEPT ![f] = minted[f] + 1]
            /\ reservations' =
                 [reservations EXCEPT
                    ![f][minted[f] + 1] = NewReservation(attempt[f], fgen[f], NoBoot)]
        BY <2>3 DEF SubmitAdmitted
      <3>2. CASE e = f
        <4>1. /\ reservations[f] \in [RsvNums -> Reservation]
              /\ minted[f] = 0
          BY <1>0, <2>1, <3>2 DEF TypeOK, FlowHistory
        <4>2. /\ NewReservation(attempt[f], fgen[f], NoBoot) \in Reservation
              /\ NewReservation(attempt[f], fgen[f], NoBoot).state = "Active"
              /\ NewReservation(attempt[f], fgen[f], NoBoot).attempt = attempt[f]
              /\ NewReservation(attempt[f], fgen[f], NoBoot).fgen = fgen[f]
          BY NewReservationType DEF TypeOK
        <4>3. /\ rsvOf'[f] = minted[f] + 1 /\ minted'[f] = minted[f] + 1
              /\ fstate'[f] = "Reserved" /\ spec'[f] = s
              /\ reservations'[f] =
                   [reservations[f] EXCEPT
                      ![minted[f] + 1] = NewReservation(attempt[f], fgen[f], NoBoot)]
          BY <2>1, <3>1 DEF TypeOK
        <4>4. \A n \in RsvNums : n # 0
          BY DEF RsvNums
        <4>5. attempt'[f] <= minted[f] + 1 /\ fgen'[f] <= minted[f] + 1
          BY <1>0, <2>1, <3>2 DEF TypeOK, FlowHistory
        <4>6. QED
          BY <1>0, <2>1, <3>1, <3>2, <4>1, <4>2, <4>3, <4>4, <4>5, HistoryMint
      <3>3. CASE e # f
        BY <1>0, <2>1, <3>1, <3>3, HistoryFrame DEF TypeOK
      <3>4. QED
        BY <3>2, <3>3
    <2>4. QED
      BY <1>1, <2>2, <2>3 DEF SubmitFlow
  <1>2. ASSUME NEW f \in Flows, CancelFlow(f) PROVE FlowHistory(e)'
    <2>1. /\ UNCHANGED <<paths, spec, attempt, fgen, rsvOf, minted>>
          /\ fstate' = [fstate EXCEPT ![f] = "Cancelled"]
          /\ reservations' = [reservations EXCEPT ![f] = ReleaseCurrent(f)]
          /\ fstate[f] # "Absent"
      BY <1>2 DEF CancelFlow, topologyVars, FlowStates
    <2>2. CASE e = f
      BY <1>0, <2>1, <2>2, HistoryRelease DEF TypeOK
    <2>3. CASE e # f
      BY <1>0, <2>1, <2>3, HistoryFrame DEF TypeOK
    <2>4. QED
      BY <2>2, <2>3
  <1>3. ASSUME NEW f \in Flows, ResumeFlow(f) PROVE FlowHistory(e)'
    <2>1. /\ UNCHANGED <<paths, spec, attempt, fgen, rsvOf, minted, reservations>>
          /\ fstate' = [fstate EXCEPT ![f] = "Reserved"]
          /\ fstate[f] \in {"Preempted", "Throttled"}
      BY <1>3, Zenon DEF ResumeFlow, topologyVars, rsvVars
    <2>2. CASE e = f
      BY <1>0, <2>1, <2>2 DEF TypeOK, FlowHistory, Scheduled, TerminalFlow
    <2>3. CASE e # f
      BY <1>0, <2>1, <2>3, HistoryFrame DEF TypeOK
    <2>4. QED
      BY <2>2, <2>3
  <1>4. ASSUME NEW f \in Flows, NEW n \in RsvNums, ReleaseReservation(f, n)
        PROVE FlowHistory(e)'
    <2>1. /\ UNCHANGED <<paths, fstate, spec, attempt, fgen, rsvOf, minted>>
          /\ reservations' =
               [reservations EXCEPT ![f][n] = Release(reservations[f][n])]
          /\ reservations[f][n].state \in {"Pending", "Active"}
      BY <1>4 DEF ReleaseReservation, topologyVars, flowVars, ReservationStates,
                  TerminalReservation
    <2>2. CASE e = f
      <3>1. n = minted[f] /\ rsvOf[f] = minted[f]
        <4>1. minted[f] \in Int /\ n \in Int
          BY DEF TypeOK, RsvNums
        <4>2. reservations[f][n].state \notin {"Unminted", "Released"}
          BY <2>1
        <4>3. ~ (n > minted[f]) /\ ~ (n < minted[f]) /\ rsvOf[f] = minted[f]
          BY <1>0, <2>2, <4>2 DEF FlowHistory
        <4>4. QED
          BY <4>1, <4>3
      <3>2. reservations'[f] = ReleaseCurrent(f)
        BY <2>1, <3>1, Zenon DEF ReleaseCurrent, TypeOK
      <3>3. fstate[f] # "Absent" /\ minted[f] # 0
        BY <1>0, <2>2, <3>1 DEF FlowHistory, RsvNums
      <3>4. QED
        BY <1>0, <2>1, <2>2, <3>2, <3>3, HistoryRelease
    <2>3. CASE e # f
      BY <1>0, <2>1, <2>3, HistoryFrame DEF TypeOK
    <2>4. QED
      BY <2>2, <2>3
  <1>5. CASE Tick
    <2>1. UNCHANGED <<paths, spec, attempt, fgen>>
      BY <1>5, TickFlows
    <2>2. CASE /\ fstate[e] = "Queued"
               /\ fstate'[e] = "Running"
               /\ minted[e] + 1 \in RsvNums
               /\ rsvOf'[e] = minted[e] + 1
               /\ minted'[e] = minted[e] + 1
               /\ reservations'[e] =
                    [reservations[e] EXCEPT
                       ![minted[e] + 1] = NewReservation(attempt[e], fgen[e], NoBoot)]
      <3>1. /\ reservations[e] \in [RsvNums -> Reservation]
            /\ minted[e] = 0
            /\ spec[e] \in Specs /\ spec[e].path \in paths
        BY <1>0, <2>2, Zenon DEF TypeOK, FlowHistory
      <3>2. /\ NewReservation(attempt[e], fgen[e], NoBoot) \in Reservation
            /\ NewReservation(attempt[e], fgen[e], NoBoot).state = "Active"
            /\ NewReservation(attempt[e], fgen[e], NoBoot).attempt = attempt[e]
            /\ NewReservation(attempt[e], fgen[e], NoBoot).fgen = fgen[e]
        BY NewReservationType DEF TypeOK
      <3>3. \A n \in RsvNums : n # 0
        BY DEF RsvNums
      <3>4. attempt'[e] <= minted[e] + 1 /\ fgen'[e] <= minted[e] + 1
        BY <1>0, <2>1 DEF TypeOK, FlowHistory
      <3>5. QED
        BY <1>0, <2>1, <2>2, <3>1, <3>2, <3>3, <3>4, HistoryMint, Zenon
    <2>3. CASE /\ IF fstate[e] \in Scheduled
                  THEN fstate'[e] \in {"Running", "Throttled", "Preempted"}
                  ELSE fstate'[e] = fstate[e]
               /\ rsvOf'[e] = rsvOf[e]
               /\ minted'[e] = minted[e]
               /\ reservations'[e] = reservations[e]
      BY <1>0, <2>1, <2>3, Zenon DEF FlowHistory, Scheduled, TerminalFlow
    <2>4. QED
      BY <1>5, <2>2, <2>3, TickFlows
  <1>6. QED
    BY <1>1, <1>2, <1>3, <1>4, <1>5 DEF FlowNext

(* Registration, loss and reports keep every flow's history in order: a    *)
(* roll releases before it mints, a completion releases as it settles.     *)
LEMMA WorkerHistoryStep ==
  TypeOK /\ ReservationHistory /\ WorkerNext => ReservationHistory'
  <1> SUFFICES ASSUME TypeOK, ReservationHistory, WorkerNext, NEW e \in Flows
               PROVE  FlowHistory(e)'
    BY DEF ReservationHistory
  <1>0. FlowHistory(e)
    BY DEF ReservationHistory
  <1>1. ASSUME NEW w \in Workers, NEW b \in Boots, RegisterWorker(w, b)
        PROVE  FlowHistory(e)'
    <2>1. UNCHANGED <<paths, spec>>
      BY <1>1, RegisterFlows
    <2>2. CASE UNCHANGED <<fstate[e], attempt[e], fgen[e], bytes[e]>>
               /\ UNCHANGED <<rsvOf[e], minted[e], reservations[e]>>
      BY <1>0, <2>1, <2>2, HistoryFrame, Zenon
    <2>3. CASE /\ fstate[e] = "Running"
               /\ minted[e] + 1 \in RsvNums
               /\ fstate'[e] = "Reserved"
               /\ attempt'[e] = minted[e] + 1
               /\ fgen'[e] = fgen[e] + 1
               /\ rsvOf'[e] = minted[e] + 1
               /\ minted'[e] = minted[e] + 1
               /\ reservations'[e] =
                    [ReleaseCurrent(e) EXCEPT
                       ![minted[e] + 1] = NewReservation(minted[e] + 1, fgen[e] + 1, b)]
      <3>1. /\ minted[e] + 1 \in 0..MaxMint
            /\ fgen[e] + 1 \in Nat
        <4>1. minted[e] + 1 \in RsvNums
          BY <2>3, Zenon
        <4>2. fgen[e] \in Nat
          BY DEF TypeOK
        <4>3. QED
          BY <4>1, <4>2, NumbersInRange
      <3>2. /\ NewReservation(minted[e] + 1, fgen[e] + 1, b) \in Reservation
            /\ NewReservation(minted[e] + 1, fgen[e] + 1, b).state = "Active"
            /\ NewReservation(minted[e] + 1, fgen[e] + 1, b).attempt = minted[e] + 1
            /\ NewReservation(minted[e] + 1, fgen[e] + 1, b).fgen = fgen[e] + 1
        BY <3>1, NewReservationType
      <3>3. /\ rsvOf[e] = minted[e]
            /\ spec[e] \in Specs /\ spec[e].path \in paths
        BY <1>0, <2>3 DEF FlowHistory
      <3>4. \A n \in RsvNums : n # minted[e] => ReleaseCurrent(e)[n] = reservations[e][n]
        BY <3>3, ReleaseCurrentType
      <3>5. \A n \in RsvNums : n = minted[e] => ReleaseCurrent(e)[n].state = "Released"
        <4> TAKE n \in RsvNums
        <4> HAVE n = minted[e]
        <4>1. reservations[e][n] \in Reservation
          BY DEF TypeOK
        <4>2. reservations[e][n].state \in {"Active", "Released"}
          BY <1>0 DEF FlowHistory
        <4>3. QED
          BY <3>3, <4>1, <4>2, ReleaseCurrentType, ReleaseType
      <3>6. ReleaseCurrent(e) \in [RsvNums -> Reservation]
        BY ReleaseCurrentType
      <3> DEFINE old == ReleaseCurrent(e)
                 rsv == NewReservation(minted[e] + 1, fgen[e] + 1, b)
      <3>7. /\ reservations'[e] = [old EXCEPT ![minted[e] + 1] = rsv]
            /\ rsv \in Reservation /\ rsv.state = "Active"
            /\ rsv.attempt = attempt'[e] /\ rsv.fgen = fgen'[e]
            /\ old \in [RsvNums -> Reservation]
            /\ \A n \in RsvNums : n # minted[e] => old[n] = reservations[e][n]
            /\ \A n \in RsvNums : n = minted[e] => old[n].state = "Released"
            /\ spec'[e] \in Specs /\ spec'[e].path \in paths' /\ paths \subseteq paths'
        BY <2>1, <2>3, <3>2, <3>3, <3>4, <3>5, <3>6
      <3>8. attempt'[e] <= minted[e] + 1 /\ fgen'[e] <= minted[e] + 1
        <4>1. attempt'[e] = minted[e] + 1 /\ fgen'[e] = fgen[e] + 1
          BY <2>3, Zenon
        <4>2. fgen[e] <= minted[e] /\ fgen[e] \in Nat /\ minted[e] \in Nat
          BY <1>0 DEF FlowHistory, TypeOK
        <4>3. QED
          BY <3>1, <4>1, <4>2
      <3> HIDE DEF old, rsv
      <3>9. QED
        BY <1>0, <2>3, <3>7, <3>8, HistoryMint, Zenon
    <2>4. QED
      BY <1>1, <2>2, <2>3, RegisterFlows
  <1>2. ASSUME NEW w \in Workers, DeregisterWorker(w) PROVE FlowHistory(e)'
    BY <1>0, <1>2, HistoryFrame DEF DeregisterWorker, topologyVars, rsvVars
  <1>3. ASSUME NEW f \in Flows, NEW a, NEW g, NEW b, NEW done,
               ReportProgress(f, a, g, b, done)
        PROVE FlowHistory(e)'
    BY <1>0, <1>3, HistoryFrame DEF ReportProgress, topologyVars, rsvVars
  <1>4. ASSUME NEW f \in Flows, NEW a, NEW g, NEW b, NEW done,
               ReportCompletion(f, a, g, b, done)
        PROVE FlowHistory(e)'
    <2>1. /\ UNCHANGED <<paths, spec, attempt, fgen, rsvOf, minted>>
          /\ fstate' = [fstate EXCEPT ![f] = "Completed"]
          /\ reservations' = [reservations EXCEPT ![f] = ReleaseCurrent(f)]
          /\ fstate[f] = "Running"
      BY <1>4 DEF ReportCompletion, Authorised, topologyVars
    <2>2. CASE e = f
      <3>1. minted[f] # 0
        BY <1>0, <2>1, <2>2, Zenon DEF FlowHistory, Scheduled
      <3>2. QED
        BY <1>0, <2>1, <2>2, <3>1, HistoryRelease DEF TypeOK
    <2>3. CASE e # f
      BY <1>0, <2>1, <2>3, HistoryFrame DEF TypeOK
    <2>4. QED
      BY <2>2, <2>3
  <1>5. QED
    BY <1>1, <1>2, <1>3, <1>4 DEF WorkerNext
===============================================================================
