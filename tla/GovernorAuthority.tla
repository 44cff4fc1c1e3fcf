-------------------------- MODULE GovernorAuthority ---------------------------
(***************************************************************************)
(* The inductive invariant of the governor, TypeOK /\ ReservationHistory,  *)
(* the safety invariants that follow from it, and what steps may do to a   *)
(* flow and its authority: follow the lifecycle tables, complete it,       *)
(* replace it, report its progress, and implement ReservationAuthority.    *)
(***************************************************************************)
EXTENDS GovernorSteps

(* No flow has a history before it is submitted.                           *)
LEMMA InitHistory == Init => ReservationHistory
  BY ConstantsAssumption
  DEF Init, ReservationHistory, FlowHistory, Scheduled, TerminalFlow, RsvNums, Unminted

(* Every step keeps the inductive invariant.                               *)
LEMMA StepInvariant ==
  TypeOK /\ ReservationHistory /\ [Next]_vars => (TypeOK /\ ReservationHistory)'
  <1> SUFFICES ASSUME TypeOK, ReservationHistory, [Next]_vars
               PROVE  (TypeOK /\ ReservationHistory)'
    OBVIOUS
  <1>1. CASE CapacityNext
    BY <1>1, CapacityTypeOK, CapacityHistory
  <1>2. CASE FlowNext
    BY <1>2, FlowTypeOK, FlowHistoryStep
  <1>3. CASE WorkerNext
    BY <1>3, WorkerTypeOK, WorkerHistoryStep
  <1>4. CASE UNCHANGED vars
    <2>1. TypeOK'
      BY <1>4 DEF vars, capacityVars, loadVars, topologyVars, flowVars, rsvVars,
                  workerVars, tenantVars, TypeOK
    <2>2. ReservationHistory'
      BY <1>4 DEF vars, topologyVars, flowVars, rsvVars, ReservationHistory, FlowHistory
    <2>3. QED
      BY <2>1, <2>2
  <1>5. QED
    BY <1>1, <1>2, <1>3, <1>4 DEF Next

(* Every reachable state is well typed, and in it every flow's reservation *)
(* history is in order: all but the last reservation released, the last    *)
(* one carrying the flow's attempt and generation, none held after the     *)
(* flow settled.                                                           *)
THEOREM HistoryInvariant == Spec => [](TypeOK /\ ReservationHistory)
  <1>1. Init => TypeOK /\ ReservationHistory
    BY InitTypeOK, InitHistory
  <1>2. QED
    BY <1>1, StepInvariant, PTL DEF Spec

(* Type correctness of the governor's control state.                       *)
THEOREM TypeCorrect == Spec => []TypeOK
  BY HistoryInvariant, PTL

(* At any time a flow holds at most one live reservation, the one it       *)
(* names, and it carries the flow's current attempt and generation,        *)
(* whatever worker restarts, retries and client releases came before.      *)
THEOREM AtMostOneAuthority == Spec => []SingleAuthority
  <1>1. TypeOK /\ ReservationHistory => SingleAuthority
    <2> SUFFICES ASSUME TypeOK, ReservationHistory, NEW f \in Flows, NEW n \in RsvNums,
                        reservations[f][n].state = "Active"
                 PROVE  /\ n = rsvOf[f]
                        /\ reservations[f][n].attempt = attempt[f]
                        /\ reservations[f][n].fgen = fgen[f]
      BY DEF SingleAuthority
    <2>1. minted[f] \in Int /\ n \in Int
      BY DEF TypeOK, RsvNums
    <2>2. ~ (n > minted[f]) /\ ~ (n < minted[f])
      BY DEF ReservationHistory, FlowHistory
    <2>3. n = minted[f]
      BY <2>1, <2>2
    <2>4. QED
      BY <2>3, Zenon DEF ReservationHistory, FlowHistory
  <1>2. QED
    BY <1>1, HistoryInvariant, PTL

(* Capacity held by a flow is given back exactly when it settles: no flow  *)
(* that is not admitted, or is over, has a live reservation.               *)
THEOREM NothingLeaks == Spec => []NoLeakedReservation
  <1>1. TypeOK /\ ReservationHistory => NoLeakedReservation
    <2> SUFFICES ASSUME TypeOK, ReservationHistory, NEW f \in Flows, NEW n \in RsvNums,
                        fstate[f] \in TerminalFlow \cup {"Absent", "Created", "Queued"}
                 PROVE  reservations[f][n].state \notin {"Active", "Pending"}
      BY DEF NoLeakedReservation
    <2>1. minted[f] \in Int /\ n \in Int /\ n # 0
      BY DEF TypeOK, RsvNums
    <2>2. n > minted[f] \/ n < minted[f] \/ n = minted[f]
      BY <2>1
    <2>3. QED
      BY <2>1, <2>2 DEF ReservationHistory, FlowHistory, TerminalFlow
  <1>2. QED
    BY <1>1, HistoryInvariant, PTL

-------------------------------------------------------------------------------
(* A step that does not concern a flow leaves its control state alone; the *)
(* steps that do are named here, one disjunct each.                        *)
LEMMA StepCases ==
  ASSUME TypeOK, ReservationHistory, [Next]_vars, NEW f \in Flows
  PROVE  \/ /\ UNCHANGED <<fstate[f], attempt[f], bytes[f], reservations[f]>>
         \/ \E s \in Specs : SubmitFlow(f, s)
         \/ CancelFlow(f)
         \/ ResumeFlow(f)
         \/ \E n \in RsvNums : ReleaseReservation(f, n)
         \/ Tick
         \/ \E w \in Workers, b \in Boots : RegisterWorker(w, b)
         \/ \E a \in 0..MaxMint, g \in 0..MaxMint, b \in Boots \cup {NoBoot},
               done \in 0..MaxBytes :
              ReportProgress(f, a, g, b, done) \/ ReportCompletion(f, a, g, b, done)
  <1> DEFINE Quiet == UNCHANGED <<fstate[f], attempt[f], bytes[f], reservations[f]>>
  <1>1. CASE UNCHANGED vars
    BY <1>1 DEF vars, flowVars, rsvVars
  <1>2. CASE CapacityNext
    <2>1. UNCHANGED <<fstate, attempt, bytes, reservations>>
      BY <1>2 DEF CapacityNext, AddResource, UpdateCapacity, SetResourceEnabled,
                  InvalidateResourceCapacity, AddPath, Elapse, flowVars, rsvVars
    <2>2. QED
      BY <2>1
  <1>3. CASE FlowNext
    <2>1. ASSUME NEW e \in Flows, e # f, NEW s \in Specs, SubmitFlow(e, s)
          PROVE  Quiet
      <3>1. UNCHANGED <<attempt, bytes>>
        BY <2>1 DEF SubmitFlow
      <3>2. UNCHANGED <<fstate[f], reservations[f]>>
        BY <2>1 DEF SubmitFlow, SubmitDeferred, SubmitAdmitted, rsvVars, TypeOK
      <3>3. QED
        BY <3>1, <3>2
    <2>2. ASSUME NEW e \in Flows, e # f, CancelFlow(e) PROVE Quiet
      BY <2>2 DEF CancelFlow, TypeOK
    <2>3. ASSUME NEW e \in Flows, e # f, ResumeFlow(e) PROVE Quiet
      BY <2>3 DEF ResumeFlow, rsvVars, TypeOK
    <2>4. ASSUME NEW e \in Flows, e # f, NEW n \in RsvNums, ReleaseReservation(e, n)
          PROVE  Quiet
      BY <2>4 DEF ReleaseReservation, flowVars, TypeOK
    <2>5. QED
      BY <1>3, <2>1, <2>2, <2>3, <2>4 DEF FlowNext
  <1>4. CASE WorkerNext
    <2>1. ASSUME NEW w \in Workers, DeregisterWorker(w) PROVE Quiet
      BY <2>1 DEF DeregisterWorker, rsvVars
    <2>2. ASSUME NEW e \in Flows, e # f, NEW a, NEW g, NEW b, NEW done,
                 ReportProgress(e, a, g, b, done) \/ ReportCompletion(e, a, g, b, done)
          PROVE  Quiet
      BY <2>2 DEF ReportProgress, ReportCompletion, rsvVars, TypeOK
    <2>3. QED
      BY <1>4, <2>1, <2>2 DEF WorkerNext
  <1>5. QED
    BY <1>1, <1>2, <1>3, <1>4 DEF Next

(* The edges of the flow lifecycle that tick(), a worker's registration    *)
(* and a completion take.                                                  *)
LEMMA EdgesTaken ==
  /\ FlowTransition("Queued", "Running")
  /\ FlowTransition("Reserved", "Running")
  /\ FlowTransition("Running", "Reserved")
  /\ FlowTransition("Running", "Completed")
  /\ \A from \in {"Running", "Throttled"}, to \in {"Running", "Throttled", "Preempted"} :
       FlowTransition(from, to)
  BY DEF FlowTransition, FlowEdges

(* Releasing a flow's current reservation is a step of the reservation     *)
(* lifecycle for each of its reservations.                                 *)
LEMMA ReleaseLifecycle ==
  ASSUME TypeOK, NEW f \in Flows, FlowHistory(f), NEW n \in RsvNums
  PROVE  ReservationTransition(reservations[f][n].state, ReleaseCurrent(f)[n].state)
  <1>1. CASE n = rsvOf[f]
    <2>1. reservations[f][n] \in Reservation
      BY DEF TypeOK
    <2>2. reservations[f][n].state \in {"Active", "Released"}
      BY <1>1 DEF FlowHistory
    <2>3. ReleaseCurrent(f)[n].state = "Released"
      BY <1>1, <2>1, <2>2, ReleaseCurrentType, ReleaseType
    <2>4. QED
      BY <2>2, <2>3 DEF ReservationTransition, ReservationEdges
  <1>2. CASE n # rsvOf[f]
    BY <1>2, ReleaseCurrentType DEF ReservationTransition
  <1>3. QED
    BY <1>1, <1>2

(* Every step of every handler is an edge of the two lifecycle tables, so  *)
(* set_flow_state() never throws and no settled flow or terminal           *)
(* reservation ever changes state again.                                   *)
THEOREM LifecyclesHold == Spec => LifecycleRespected
  <1> DEFINE Good == \A f \in Flows : LifecycleStep(f)
  <1>1. ASSUME TypeOK, ReservationHistory, [Next]_vars, NEW f \in Flows
        PROVE  LifecycleStep(f)
    <2>0. /\ FlowHistory(f)
          /\ reservations[f] \in [RsvNums -> Reservation]
          /\ minted[f] \in 0..MaxMint
      BY <1>1 DEF TypeOK, ReservationHistory
    <2>1. CASE UNCHANGED <<fstate[f], attempt[f], bytes[f], reservations[f]>>
      BY <2>1 DEF LifecycleStep, FlowTransition, ReservationTransition
    <2>2. ASSUME NEW s \in Specs, SubmitFlow(f, s) PROVE LifecycleStep(f)
      <3>1. fstate[f] = "Absent" /\ minted[f] = 0
        BY <2>0, <2>2 DEF SubmitFlow, FlowHistory
      <3>2. \A n \in RsvNums : n > minted[f]
        BY <3>1 DEF RsvNums
      <3>3. \A n \in RsvNums : reservations[f][n].state = "Unminted"
        BY <2>0, <3>2 DEF FlowHistory
      <3>4. QED
        BY <3>1, <3>3 DEF LifecycleStep
    <2>3. CASE CancelFlow(f)
      <3>1. /\ fstate[f] \in FlowStates \ TerminalFlow
            /\ fstate'[f] = "Cancelled"
            /\ reservations'[f] = ReleaseCurrent(f)
        BY <1>1, <2>3 DEF CancelFlow, TypeOK
      <3>2. FlowTransition(fstate[f], fstate'[f])
        BY <3>1 DEF FlowTransition, FlowEdges, FlowStates, TerminalFlow
      <3>3. QED
        BY <1>1, <2>0, <3>1, <3>2, ReleaseLifecycle DEF LifecycleStep
    <2>4. CASE ResumeFlow(f)
      <3>1. /\ fstate[f] \in {"Preempted", "Throttled"}
            /\ fstate'[f] = "Reserved"
            /\ reservations' = reservations
        BY <1>1, <2>4 DEF ResumeFlow, rsvVars, TypeOK
      <3>2. QED
        BY <3>1 DEF LifecycleStep, FlowTransition, FlowEdges, ReservationTransition
    <2>5. ASSUME NEW m \in RsvNums, ReleaseReservation(f, m) PROVE LifecycleStep(f)
      <3>1. /\ fstate' = fstate
            /\ reservations'[f] = [reservations[f] EXCEPT ![m] = Release(reservations[f][m])]
            /\ reservations[f][m].state \in {"Pending", "Active"}
        BY <1>1, <2>5 DEF ReleaseReservation, flowVars, TypeOK, ReservationStates,
                         TerminalReservation
      <3>2. ASSUME NEW n \in RsvNums
            PROVE  ReservationTransition(reservations[f][n].state, reservations'[f][n].state)
        <4>1. CASE n = m
          <5>1. reservations'[f][n].state \in {"Released", reservations[f][n].state}
            BY <2>0, <3>1, <4>1 DEF Release, Reservation
          <5>2. reservations'[f][n].state # reservations[f][n].state =>
                  ReservationTransition(reservations[f][n].state, "Released")
            BY <2>0, <3>1, <4>1 DEF Release, Reservation
          <5>3. QED
            BY <5>1, <5>2 DEF ReservationTransition
        <4>2. CASE n # m
          BY <2>0, <3>1, <4>2 DEF ReservationTransition
        <4>3. QED
          BY <4>1, <4>2
      <3>3. QED
        BY <3>1, <3>2 DEF LifecycleStep, FlowTransition
    <2>6. CASE Tick
      <3>1. CASE /\ fstate[f] = "Queued"
                 /\ fstate'[f] = "Running"
                 /\ minted[f] + 1 \in RsvNums
                 /\ reservations'[f] =
                      [reservations[f] EXCEPT
                         ![minted[f] + 1] = NewReservation(attempt[f], fgen[f], NoBoot)]
        <4>1. minted[f] = 0
          BY <2>0, <3>1 DEF FlowHistory
        <4>2. \A n \in RsvNums : n > minted[f]
          BY <4>1 DEF RsvNums
        <4>3. \A n \in RsvNums : reservations[f][n].state = "Unminted"
          BY <2>0, <4>2 DEF FlowHistory
        <4>4. QED
          BY <3>1, <4>3, EdgesTaken, Zenon DEF LifecycleStep
      <3>2. CASE /\ IF fstate[f] \in Scheduled
                    THEN fstate'[f] \in {"Running", "Throttled", "Preempted"}
                    ELSE fstate'[f] = fstate[f]
                 /\ fstate[f] = "Reserved" => fstate'[f] = "Running"
                 /\ reservations'[f] = reservations[f]
        <4>1. CASE fstate[f] \in Scheduled
          <5>1. fstate[f] \in {"Reserved", "Running", "Throttled"}
            BY <4>1 DEF Scheduled
          <5>2. /\ fstate'[f] \in {"Running", "Throttled", "Preempted"}
                /\ fstate[f] = "Reserved" => fstate'[f] = "Running"
                /\ reservations'[f] = reservations[f]
            BY <3>2, <4>1, Zenon
          <5>3. FlowTransition(fstate[f], fstate'[f])
            BY <5>1, <5>2, EdgesTaken, Zenon
          <5>4. QED
            BY <5>2, <5>3, Zenon DEF LifecycleStep, ReservationTransition
        <4>2. CASE fstate[f] \notin Scheduled
          BY <3>2, <4>2 DEF LifecycleStep, FlowTransition, ReservationTransition
        <4>3. QED
          BY <4>1, <4>2
      <3>3. QED
        BY <1>1, <2>6, <3>1, <3>2, TickFlows
    <2>7. ASSUME NEW w \in Workers, NEW b \in Boots, RegisterWorker(w, b)
          PROVE  LifecycleStep(f)
      <3>1. CASE UNCHANGED <<fstate[f], attempt[f], fgen[f], bytes[f]>>
                 /\ UNCHANGED <<rsvOf[f], minted[f], reservations[f]>>
        BY <3>1 DEF LifecycleStep, FlowTransition, ReservationTransition
      <3>2. CASE /\ fstate[f] = "Running"
                 /\ minted[f] + 1 \in RsvNums
                 /\ fstate'[f] = "Reserved"
                 /\ reservations'[f] =
                      [ReleaseCurrent(f) EXCEPT
                         ![minted[f] + 1] = NewReservation(minted[f] + 1, fgen[f] + 1, b)]
        <4>1. reservations[f][minted[f] + 1].state = "Unminted"
          BY <2>0, <3>2 DEF FlowHistory, RsvNums
        <4>2. \A n \in RsvNums :
                n # minted[f] + 1 => reservations'[f][n] = ReleaseCurrent(f)[n]
          BY <1>1, <3>2, ReleaseCurrentType
        <4>3. FlowTransition(fstate[f], fstate'[f])
          BY <3>2, EdgesTaken, Zenon
        <4>4. ASSUME NEW n \in RsvNums, reservations[f][n].state # "Unminted"
              PROVE  ReservationTransition(reservations[f][n].state,
                                           reservations'[f][n].state)
          <5>1. reservations'[f][n] = ReleaseCurrent(f)[n]
            BY <4>1, <4>2, <4>4
          <5>2. QED
            BY <1>1, <2>0, <5>1, ReleaseLifecycle
        <4>5. QED
          BY <4>3, <4>4 DEF LifecycleStep
      <3>3. QED
        BY <1>1, <2>7, <3>1, <3>2, RegisterFlows
    <2>8. ASSUME NEW a, NEW g, NEW b, NEW done, ReportProgress(f, a, g, b, done)
          PROVE  LifecycleStep(f)
      BY <2>8
      DEF ReportProgress, rsvVars, LifecycleStep, FlowTransition, ReservationTransition
    <2>9. ASSUME NEW a, NEW g, NEW b, NEW done, ReportCompletion(f, a, g, b, done)
          PROVE  LifecycleStep(f)
      <3>1. /\ fstate[f] = "Running"
            /\ fstate'[f] = "Completed"
            /\ reservations'[f] = ReleaseCurrent(f)
        BY <1>1, <2>9 DEF ReportCompletion, Authorised, TypeOK
      <3>2. FlowTransition(fstate[f], fstate'[f])
        BY <3>1, EdgesTaken, Zenon
      <3>3. QED
        BY <1>1, <2>0, <3>1, <3>2, ReleaseLifecycle DEF LifecycleStep
    <2>10. QED
      BY <1>1, <2>1, <2>2, <2>3, <2>4, <2>5, <2>6, <2>7, <2>8, <2>9, StepCases
  <1>2. TypeOK /\ ReservationHistory /\ [Next]_vars => [Good]_vars
    BY <1>1
  <1>3. QED
    BY <1>2, HistoryInvariant, PTL DEF Spec, LifecycleRespected

-------------------------------------------------------------------------------
(* A flow completes only by a report that passed the fences, on a          *)
(* reservation of its current attempt and generation minted under the      *)
(* current epoch and capacity generation.                                  *)
THEOREM CompletionsAreFenced == Spec => CompletionFenced
  <1> DEFINE Good == \A f \in Flows : CompletesUnderAuthority(f)
  <1>1. ASSUME TypeOK, ReservationHistory, [Next]_vars, NEW f \in Flows,
               fstate[f] # "Completed", fstate'[f] = "Completed"
        PROVE  \E a, g, b : Authorised(f, a, g, b)
    <2>1. ~ UNCHANGED <<fstate[f], attempt[f], bytes[f], reservations[f]>>
      BY <1>1
    <2>2. ASSUME NEW s \in Specs, SubmitFlow(f, s) PROVE FALSE
      BY <1>1, <2>2 DEF SubmitFlow, SubmitDeferred, SubmitAdmitted, TypeOK
    <2>3. ~ CancelFlow(f) /\ ~ ResumeFlow(f)
      BY <1>1 DEF CancelFlow, ResumeFlow, TypeOK
    <2>4. ASSUME NEW n \in RsvNums, ReleaseReservation(f, n) PROVE FALSE
      BY <1>1, <2>4 DEF ReleaseReservation, flowVars
    <2>5. ~ Tick
      BY <1>1, TickFlows, Zenon
    <2>6. ASSUME NEW w \in Workers, NEW b \in Boots, RegisterWorker(w, b) PROVE FALSE
      BY <1>1, <2>6, RegisterFlows, Zenon
    <2>7. ASSUME NEW a, NEW g, NEW b, NEW done, ReportProgress(f, a, g, b, done)
          PROVE  FALSE
      BY <1>1, <2>7 DEF ReportProgress
    <2>8. PICK a \in 0..MaxMint, g \in 0..MaxMint, b \in Boots \cup {NoBoot},
               done \in 0..MaxBytes : ReportCompletion(f, a, g, b, done)
      BY <1>1, <2>1, <2>2, <2>3, <2>4, <2>5, <2>6, <2>7, StepCases
    <2>9. QED
      BY <2>8 DEF ReportCompletion
  <1>2. ASSUME TypeOK, ReservationHistory, [Next]_vars, NEW f \in Flows
        PROVE  CompletesUnderAuthority(f)
    <2> SUFFICES ASSUME fstate[f] # "Completed", fstate'[f] = "Completed"
                 PROVE  /\ rsvOf[f] # 0
                        /\ reservations[f][rsvOf[f]].attempt = attempt[f]
                        /\ reservations[f][rsvOf[f]].fgen = fgen[f]
                        /\ reservations[f][rsvOf[f]].epoch = epoch
                        /\ reservations[f][rsvOf[f]].capGen = capGen
                        /\ assigned[f] # NoWorker => alive[assigned[f]]
      BY DEF CompletesUnderAuthority
    <2>1. PICK a, g, b : Authorised(f, a, g, b)
      BY <1>1, <1>2
    <2>2. fstate[f] = "Running" /\ FlowHistory(f)
      BY <1>2, <2>1 DEF Authorised, ReservationHistory
    <2>3. rsvOf[f] = minted[f] /\ minted[f] # 0
      BY <2>2 DEF FlowHistory, Scheduled
    <2>4. rsvOf[f] \in RsvNums
      BY <1>2, <2>3 DEF TypeOK, RsvNums
    <2>5. QED
      BY <2>1, <2>2, <2>3, <2>4 DEF Authorised, FlowHistory
  <1>3. TypeOK /\ ReservationHistory /\ [Next]_vars => [Good]_vars
    BY <1>2
  <1>4. QED
    BY <1>3, HistoryInvariant, PTL DEF Spec, CompletionFenced

(* Only the restart of a flow's worker changes the flow's attempt.         *)
LEMMA RetryIsRoll ==
  ASSUME TypeOK, ReservationHistory, [Next]_vars, NEW f \in Flows,
         attempt'[f] # attempt[f]
  PROVE  \E w \in Workers, b \in Boots : RegisterWorker(w, b)
  <1>1. ASSUME NEW s, SubmitFlow(f, s) PROVE FALSE
    BY <1>1 DEF SubmitFlow
  <1>2. ~ CancelFlow(f) /\ ~ ResumeFlow(f)
    BY DEF CancelFlow, ResumeFlow
  <1>3. ASSUME NEW n, ReleaseReservation(f, n) PROVE FALSE
    BY <1>3 DEF ReleaseReservation, flowVars
  <1>4. ~ Tick
    BY TickFlows
  <1>5. ASSUME NEW a, NEW g, NEW b, NEW done,
               ReportProgress(f, a, g, b, done) \/ ReportCompletion(f, a, g, b, done)
        PROVE  FALSE
    BY <1>5 DEF ReportProgress, ReportCompletion
  <1>6. QED
    BY <1>1, <1>2, <1>3, <1>4, <1>5, StepCases

(* A retry moves a flow's authority in one step: the old reservation dead, *)
(* a live one bound to the worker's new boot, the generation advanced and  *)
(* the progress of the old attempt forgotten.                              *)
THEOREM RetriesReplace == Spec => RetryReplacesAuthority
  <1> DEFINE Good == \A f \in Flows : ReplacesAuthority(f)
  <1>1. ASSUME TypeOK, ReservationHistory, [Next]_vars, NEW f \in Flows,
               attempt'[f] # attempt[f]
        PROVE  /\ fgen'[f] = fgen[f] + 1
               /\ bytes'[f] = 0
               /\ rsvOf'[f] # rsvOf[f]
               /\ reservations'[f][rsvOf[f]].state \in TerminalReservation
               /\ reservations'[f][rsvOf'[f]].state = "Active"
               /\ reservations'[f][rsvOf'[f]].boot = wboot'[assigned'[f]]
    <2>1. PICK w \in Workers, b \in Boots : RegisterWorker(w, b)
      BY <1>1, RetryIsRoll
    <2>2. /\ fstate[f] = "Running" /\ assigned[f] = w
          /\ minted[f] + 1 \in RsvNums
          /\ fgen'[f] = fgen[f] + 1
          /\ bytes'[f] = 0
          /\ rsvOf'[f] = minted[f] + 1
          /\ reservations'[f] =
               [ReleaseCurrent(f) EXCEPT
                  ![minted[f] + 1] = NewReservation(minted[f] + 1, fgen[f] + 1, b)]
          /\ wboot' = [wboot EXCEPT ![w] = b]
          /\ assigned' = assigned
      <3>1. wboot' = [wboot EXCEPT ![w] = b] /\ assigned' = assigned
        BY <2>1, RegisterFlows, Zenon
      <3>2. \/ /\ fstate[f] = "Running" /\ assigned[f] = w
               /\ minted[f] + 1 \in RsvNums
               /\ fgen'[f] = fgen[f] + 1
               /\ bytes'[f] = 0
               /\ rsvOf'[f] = minted[f] + 1
               /\ reservations'[f] =
                    [ReleaseCurrent(f) EXCEPT
                       ![minted[f] + 1] = NewReservation(minted[f] + 1, fgen[f] + 1, b)]
            \/ attempt'[f] = attempt[f]
        BY <2>1, RegisterFlows, ZenonT(60)
      <3>3. QED
        BY <1>1, <3>1, <3>2, Zenon
    <2>3. /\ minted[f] \in 0..MaxMint /\ fgen[f] \in Nat
          /\ wboot \in [Workers -> Boots \cup {NoBoot}]
          /\ reservations[f] \in [RsvNums -> Reservation]
      BY <1>1 DEF TypeOK
    <2>4. rsvOf[f] = minted[f] /\ minted[f] # 0
      BY <1>1, <2>2 DEF ReservationHistory, FlowHistory, Scheduled
    <2>5. rsvOf[f] \in RsvNums /\ rsvOf[f] # minted[f] + 1
      BY <2>3, <2>4 DEF RsvNums
    <2>6. reservations'[f][rsvOf[f]] = Release(reservations[f][rsvOf[f]])
      BY <1>1, <2>2, <2>5, ReleaseCurrentType
    <2>7. reservations[f][rsvOf[f]].state \in {"Active", "Released"}
      BY <1>1, <2>4, <2>5 DEF ReservationHistory, FlowHistory
    <2>8. reservations'[f][rsvOf[f]].state = "Released"
      BY <2>3, <2>5, <2>6, <2>7, ReleaseType
    <2>9. reservations'[f][rsvOf'[f]] = NewReservation(minted[f] + 1, fgen[f] + 1, b)
      BY <1>1, <2>2, ReleaseCurrentType
    <2>10. QED
      BY <2>2, <2>3, <2>5, <2>8, <2>9 DEF NewReservation, TerminalReservation
  <1>2. TypeOK /\ ReservationHistory /\ [Next]_vars => [Good]_vars
    BY <1>1 DEF ReplacesAuthority
  <1>3. QED
    BY <1>2, HistoryInvariant, PTL DEF Spec, RetryReplacesAuthority

(* Within an attempt progress never runs backwards, in whatever order and  *)
(* however often reports are delivered.                                    *)
THEOREM ProgressIsMonotone == Spec => ProgressMonotone
  <1> DEFINE Good == \A f \in Flows : attempt'[f] = attempt[f] => bytes'[f] >= bytes[f]
  <1>1. ASSUME TypeOK, ReservationHistory, [Next]_vars, NEW f \in Flows,
               attempt'[f] = attempt[f]
        PROVE  bytes'[f] >= bytes[f]
    <2>0. bytes[f] \in Nat /\ bytes \in [Flows -> 0..MaxBytes]
      BY <1>1, ConstantsAssumption DEF TypeOK
    <2>1. CASE bytes'[f] = bytes[f]
      BY <2>0, <2>1
    <2>2. ASSUME NEW s, SubmitFlow(f, s) PROVE bytes'[f] = bytes[f]
      BY <2>2 DEF SubmitFlow
    <2>3. CASE CancelFlow(f) \/ ResumeFlow(f)
      BY <2>1, <2>3 DEF CancelFlow, ResumeFlow
    <2>4. ASSUME NEW n, ReleaseReservation(f, n) PROVE bytes'[f] = bytes[f]
      BY <2>4 DEF ReleaseReservation, flowVars
    <2>5. CASE Tick
      BY <1>1, <2>1, <2>5, TickFlows
    <2>6. ASSUME NEW w \in Workers, NEW b \in Boots, RegisterWorker(w, b)
          PROVE  bytes'[f] = bytes[f]
      <3>1. attempt[f] # minted[f] + 1
        <4>1. attempt[f] \in Int /\ minted[f] \in Int
          BY <1>1 DEF TypeOK
        <4>2. attempt[f] <= minted[f]
          BY <1>1 DEF ReservationHistory, FlowHistory
        <4>3. QED
          BY <4>1, <4>2
      <3>2. QED
        BY <1>1, <2>6, <3>1, RegisterFlows, Zenon
    <2>7. ASSUME NEW a, NEW g, NEW b, NEW done \in 0..MaxBytes,
                 ReportProgress(f, a, g, b, done) \/ ReportCompletion(f, a, g, b, done)
          PROVE  bytes'[f] >= bytes[f]
      <3>1. bytes'[f] = Larger(bytes[f], done)
        BY <2>0, <2>7 DEF ReportProgress, ReportCompletion
      <3>2. QED
        BY <2>0, <3>1, ConstantsAssumption DEF Larger
    <2>8. QED
      BY <1>1, <2>1, <2>2, <2>3, <2>4, <2>5, <2>6, <2>7, StepCases, Zenon
  <1>2. TypeOK /\ ReservationHistory /\ [Next]_vars => [Good]_vars
    BY <1>1, Zenon
  <1>3. QED
    BY <1>2, HistoryInvariant, PTL DEF Spec, ProgressMonotone

-------------------------------------------------------------------------------
(* A new reservation is live.                                              *)
LEMMA NewIsLive == \A a, g, b : NewReservation(a, g, b).state = "Active"
  BY DEF NewReservation

(* Of two counters one is the smaller, and then the other is the number of *)
(* a reservation, or they are the same.                                    *)
LEMMA NeitherLess ==
  \A m, n \in 0..MaxMint :
    /\ ~ (m < n) /\ ~ (n < m) => m = n
    /\ m < n => n \in RsvNums /\ n > m
  BY ConstantsAssumption DEF RsvNums

(* A step mints nothing for a flow, or one reservation, which is live, for *)
(* a flow that has not settled and does not settle by that step.           *)
LEMMA MintStep ==
  ASSUME TypeOK, ReservationHistory, TypeOK', ReservationHistory', [Next]_vars,
         NEW f \in Flows
  PROVE  \/ minted'[f] = minted[f]
         \/ /\ minted'[f] = minted[f] + 1
            /\ minted[f] + 1 \in RsvNums
            /\ reservations'[f][minted[f] + 1].state = "Active"
            /\ {fstate[f], fstate'[f]} \cap TerminalFlow = {}
  <1>0. /\ minted[f] \in 0..MaxMint /\ minted'[f] \in 0..MaxMint
        /\ attempt[f] \in 0..MaxMint /\ fgen[f] \in Nat
        /\ reservations[f] \in [RsvNums -> Reservation]
        /\ FlowHistory(f) /\ FlowHistory(f)'
    BY DEF TypeOK, ReservationHistory
  <1>1. CASE UNCHANGED <<fstate[f], attempt[f], bytes[f], reservations[f]>>
    <2>1. ~ (minted'[f] < minted[f])
      <3>1. SUFFICES ASSUME minted'[f] < minted[f] PROVE FALSE
        BY Zenon
      <3>2. minted[f] \in RsvNums
        BY <1>0, <3>1, NeitherLess, Zenon
      <3>3. QED
        BY <1>0, <1>1, <3>1, <3>2, Zenon DEF FlowHistory
    <2>2. ~ (minted[f] < minted'[f])
      <3>1. SUFFICES ASSUME minted[f] < minted'[f] PROVE FALSE
        BY Zenon
      <3>2. minted'[f] \in RsvNums
        BY <1>0, <3>1, NeitherLess, Zenon
      <3>3. minted'[f] > minted[f]
        BY <1>0, <3>1, NeitherLess, Zenon
      <3>4. QED
        BY <1>0, <1>1, <3>2, <3>3, Zenon DEF FlowHistory
    <2>3. QED
      BY <1>0, <2>1, <2>2, NeitherLess, Zenon
  <1>2. ASSUME NEW s \in Specs, SubmitFlow(f, s)
        PROVE  \/ minted'[f] = minted[f]
               \/ /\ minted'[f] = minted[f] + 1
                  /\ minted[f] + 1 \in RsvNums
                  /\ reservations'[f][minted[f] + 1].state = "Active"
                  /\ {fstate[f], fstate'[f]} \cap TerminalFlow = {}
    <2>1. CASE SubmitDeferred(f, s)
      BY <2>1, Zenon DEF SubmitDeferred, rsvVars
    <2>2. CASE SubmitAdmitted(f, s)
      <3>1. /\ minted[f] + 1 \in RsvNums
            /\ minted' = [minted EXCEPT ![f] = minted[f] + 1]
            /\ fstate' = [fstate EXCEPT ![f] = "Reserved"]
            /\ reservations' =
                 [reservations EXCEPT
                    ![f][minted[f] + 1] = NewReservation(attempt[f], fgen[f], NoBoot)]
        BY <2>2 DEF SubmitAdmitted
      <3>2. reservations'[f][minted[f] + 1] = NewReservation(attempt[f], fgen[f], NoBoot)
        <4>1. reservations \in [Flows -> [RsvNums -> Reservation]]
          BY Zenon DEF TypeOK
        <4>2. QED
          BY <3>1, <4>1, Zenon
      <3>3. fstate[f] = "Absent" /\ fstate'[f] = "Reserved" /\ minted'[f] = minted[f] + 1
        BY <1>2, <3>1, Zenon DEF SubmitFlow, TypeOK
      <3>4. {fstate[f], fstate'[f]} \cap TerminalFlow = {}
        <4>1. fstate[f] = "Absent" /\ fstate'[f] = "Reserved"
          BY <3>3, Zenon
        <4>2. QED
          BY <4>1 DEF TerminalFlow
      <3>5. reservations'[f][minted[f] + 1].state = "Active"
        BY <3>2, NewIsLive
      <3>6. QED
        BY <3>1, <3>3, <3>4, <3>5, Zenon
    <2>3. QED
      BY <1>2, <2>1, <2>2, Zenon DEF SubmitFlow
  <1>3. CASE CancelFlow(f) \/ ResumeFlow(f)
    BY <1>3, Zenon DEF CancelFlow, ResumeFlow, rsvVars
  <1>4. ASSUME NEW n \in RsvNums, ReleaseReservation(f, n) PROVE minted'[f] = minted[f]
    BY <1>4 DEF ReleaseReservation
  <1>5. CASE Tick
    <2>1. CASE /\ fstate[f] = "Queued"
               /\ fstate'[f] = "Running"
               /\ minted[f] + 1 \in RsvNums
               /\ minted'[f] = minted[f] + 1
               /\ reservations'[f] =
                    [reservations[f] EXCEPT
                       ![minted[f] + 1] = NewReservation(attempt[f], fgen[f], NoBoot)]
      <3>1. reservations'[f][minted[f] + 1] = NewReservation(attempt[f], fgen[f], NoBoot)
        BY <1>0, <2>1, Zenon
      <3>2. {fstate[f], fstate'[f]} \cap TerminalFlow = {}
        <4>1. fstate[f] = "Queued" /\ fstate'[f] = "Running"
          BY <2>1, Zenon
        <4>2. QED
          BY <4>1 DEF TerminalFlow
      <3>3. reservations'[f][minted[f] + 1].state = "Active"
        BY <3>1, NewIsLive
      <3>4. QED
        BY <2>1, <3>2, <3>3, Zenon
    <2>2. QED
      BY <1>5, <2>1, TickFlows, Zenon
  <1>6. ASSUME NEW w \in Workers, NEW b \in Boots, RegisterWorker(w, b)
        PROVE  \/ minted'[f] = minted[f]
               \/ /\ minted'[f] = minted[f] + 1
                  /\ minted[f] + 1 \in RsvNums
                  /\ reservations'[f][minted[f] + 1].state = "Active"
                  /\ {fstate[f], fstate'[f]} \cap TerminalFlow = {}
    <2>1. CASE /\ fstate[f] = "Running"
               /\ fstate'[f] = "Reserved"
               /\ minted[f] + 1 \in RsvNums
               /\ minted'[f] = minted[f] + 1
               /\ reservations'[f] =
                    [ReleaseCurrent(f) EXCEPT
                       ![minted[f] + 1] = NewReservation(minted[f] + 1, fgen[f] + 1, b)]
      <3>1. ReleaseCurrent(f) \in [RsvNums -> Reservation]
        BY ReleaseCurrentType, Zenon
      <3>2. reservations'[f][minted[f] + 1] = NewReservation(minted[f] + 1, fgen[f] + 1, b)
        BY <2>1, <3>1, Zenon
      <3>3. {fstate[f], fstate'[f]} \cap TerminalFlow = {}
        <4>1. fstate[f] = "Running" /\ fstate'[f] = "Reserved"
          BY <2>1, Zenon
        <4>2. QED
          BY <4>1 DEF TerminalFlow
      <3>4. reservations'[f][minted[f] + 1].state = "Active"
        BY <3>2, NewIsLive
      <3>5. QED
        BY <2>1, <3>3, <3>4, Zenon
    <2>2. QED
      BY <1>6, <2>1, RegisterFlow, Zenon
  <1>7. ASSUME NEW a, NEW g, NEW b, NEW done,
               ReportProgress(f, a, g, b, done) \/ ReportCompletion(f, a, g, b, done)
        PROVE  minted'[f] = minted[f]
    BY <1>7, Zenon DEF ReportProgress, ReportCompletion, rsvVars
  <1>8. QED
    BY <1>1, <1>2, <1>3, <1>4, <1>5, <1>6, <1>7, StepCases, Zenon

(* The reservation that may be live is the newest one, and only while the  *)
(* flow is not settled.                                                    *)
NewestLives(f) ==
  /\ LiveReservations[f] \in {{}, {minted[f]}}
  /\ fstate[f] \in TerminalFlow => LiveReservations[f] = {}
  /\ \A n \in RsvNums :
       n \in LiveReservations[f] <=> n = minted[f] /\ reservations[f][n].state = "Active"

(* A history in order leaves one reservation that may be live: the newest. *)
LEMMA LiveIsNewest == TypeOK /\ ReservationHistory => \A f \in Flows : NewestLives(f)
  <1> SUFFICES ASSUME TypeOK, NEW f \in Flows, FlowHistory(f) PROVE NewestLives(f)
    BY DEF ReservationHistory
  <1>1. minted[f] \in 0..MaxMint /\ \A n \in RsvNums : n \in Nat /\ n # 0
    BY DEF TypeOK, RsvNums
  <1>2. LiveReservations[f] =
          { n \in RsvNums : reservations[f][n].state \in {"Active", "Pending"} }
    BY DEF LiveReservations
  <1>3. \A n \in RsvNums : reservations[f][n].state \in {"Active", "Pending"} =>
          n = minted[f] /\ reservations[f][n].state = "Active" /\ fstate[f] \notin TerminalFlow
    BY <1>1 DEF FlowHistory
  <1>4. QED
    BY <1>2, <1>3 DEF NewestLives

(* No edge leaves a settled state.                                         *)
LEMMA SettledForGood ==
  \A st \in {"Completed", "Cancelled"} : \A next : FlowTransition(st, next) => next = st
  BY DEF FlowTransition, FlowEdges

(* The governor implements the abstract ReservationAuthority, for any      *)
(* number of flows, workers, boots and reservations: authority is issued   *)
(* under fresh numbers, one at a time, and never comes back.               *)
THEOREM AuthorityRefined == Spec => AuthorityImplemented
  <1> DEFINE Inv == TypeOK /\ ReservationHistory
             Newest == \A f \in Flows : NewestLives(f)
             Legal == \A f \in Flows : LifecycleStep(f)
  <1>1. Init => Authority!Init
    <2> SUFFICES ASSUME Init PROVE Authority!Init
      OBVIOUS
    <2>1. LiveReservations = [f \in Flows |-> {}]
      BY DEF Init, LiveReservations, Unminted
    <2>2. Outcomes = [f \in Flows |-> "open"]
      BY DEF Init, Outcomes
    <2>3. QED
      BY <2>1, <2>2 DEF Init, Authority!Init
  <1>2. ASSUME Inv, Inv', Newest, Newest', [Next]_vars, [Legal]_vars, NEW f \in Flows
        PROVE  Authority!FlowStep(f)
    <2>0. /\ NewestLives(f) /\ NewestLives(f)' /\ FlowHistory(f) /\ FlowHistory(f)'
          /\ minted[f] \in 0..MaxMint /\ minted'[f] \in 0..MaxMint
          /\ fstate[f] \in FlowStates \cup {"Absent"}
          /\ Outcomes[f] = IF fstate[f] = "Completed" THEN "completed"
                           ELSE IF fstate[f] = "Cancelled" THEN "cancelled" ELSE "open"
          /\ Outcomes'[f] = IF fstate'[f] = "Completed" THEN "completed"
                            ELSE IF fstate'[f] = "Cancelled" THEN "cancelled" ELSE "open"
      BY <1>2 DEF ReservationHistory, TypeOK, Outcomes
    <2>1. CASE minted'[f] = minted[f] + 1 /\ minted[f] + 1 \in RsvNums
               /\ reservations'[f][minted[f] + 1].state = "Active"
               /\ {fstate[f], fstate'[f]} \cap TerminalFlow = {}
      <3>1. LiveReservations'[f] = {minted[f] + 1}
        BY <2>0, <2>1 DEF NewestLives
      <3>2. Outcomes[f] = "open" /\ Outcomes'[f] = "open"
        BY <2>0, <2>1, Zenon DEF TerminalFlow
      <3>3. QED
        BY <2>1, <3>1, <3>2, Zenon DEF Authority!FlowStep, Authority!Issue
    <2>2. CASE minted'[f] = minted[f]
      <3>1. LiveReservations'[f] \in {{}, LiveReservations[f]}
        <4>1. SUFFICES ASSUME LiveReservations'[f] # {}
                       PROVE  LiveReservations'[f] = LiveReservations[f]
          OBVIOUS
        <4>2. minted[f] \in RsvNums /\ LiveReservations'[f] = {minted[f]}
              /\ reservations'[f][minted[f]].state = "Active"
          <5>1. LiveReservations'[f] = {minted[f]}
            BY <2>0, <2>2, <4>1 DEF NewestLives
          <5>2. minted[f] \in RsvNums
            BY <5>1 DEF LiveReservations
          <5>3. QED
            BY <2>0, <5>1, <5>2 DEF NewestLives
        <4>3. reservations[f][minted[f]].state = "Active"
          <5>1. reservations[f][minted[f]].state \in {"Active", "Released"}
            BY <2>0, <4>2 DEF FlowHistory
          <5>2. CASE UNCHANGED vars
            BY <4>2, <5>2 DEF vars, rsvVars
          <5>3. CASE Legal
            <6>1. LifecycleStep(f)
              BY <5>3, Zenon
            <6>2. ReservationTransition(reservations[f][minted[f]].state, "Active")
              BY <4>2, <5>1, <6>1, Zenon DEF LifecycleStep
            <6>3. ~ ReservationTransition("Released", "Active")
              BY Zenon DEF ReservationTransition, ReservationEdges
            <6>4. QED
              BY <5>1, <6>2, <6>3
          <5>4. QED
            BY <1>2, <5>2, <5>3, Zenon
        <4>4. QED
          BY <2>0, <4>2, <4>3 DEF NewestLives
      <3>2. \/ Outcomes'[f] = Outcomes[f]
            \/ Outcomes[f] = "open" /\ fstate'[f] \in {"Completed", "Cancelled"}
        <4>1. CASE UNCHANGED vars
          BY <2>0, <4>1, Zenon DEF vars, flowVars
        <4>2. CASE Legal
          <5>1. fstate[f] # "Absent" => FlowTransition(fstate[f], fstate'[f])
            BY <4>2 DEF LifecycleStep
          <5>2. QED
            <6>1. fstate[f] \in {"Completed", "Cancelled"} => fstate'[f] = fstate[f]
              BY <5>1, SettledForGood, Zenon
            <6>2. QED
              BY <2>0, <6>1, Zenon
        <4>3. QED
          BY <1>2, <4>1, <4>2, Zenon
      <3>3. CASE Outcomes'[f] = Outcomes[f]
        BY <2>2, <3>1, <3>3, Zenon DEF Authority!FlowStep, Authority!Keep, Authority!Revoke
      <3>4. CASE Outcomes[f] = "open" /\ fstate'[f] = "Cancelled"
        <4>1. LiveReservations'[f] = {} /\ Outcomes'[f] = "cancelled"
          BY <2>0, <3>4, Zenon DEF NewestLives, TerminalFlow
        <4>2. QED
          BY <2>2, <3>4, <4>1, Zenon DEF Authority!FlowStep, Authority!Cancel
      <3>5. CASE Outcomes[f] = "open" /\ fstate'[f] = "Completed"
        <4>1. LiveReservations'[f] = {} /\ Outcomes'[f] = "completed" /\ minted'[f] # 0
          BY <2>0, <3>5, Zenon DEF NewestLives, TerminalFlow, FlowHistory
        <4>2. QED
          BY <2>2, <3>5, <4>1, Zenon DEF Authority!FlowStep, Authority!Complete
      <3>6. QED
        BY <3>2, <3>3, <3>4, <3>5
    <2>3. QED
      BY <1>2, <2>1, <2>2, MintStep
  <1>3. Inv /\ Inv' /\ Newest /\ Newest' /\ [Next]_vars /\ [Legal]_vars => Authority!Next
    BY <1>2 DEF Authority!Next
  <1>4. Inv => Newest
    BY LiveIsNewest
  <1> HIDE DEF Inv, Newest, Legal
  <1>5. Spec => []Inv
    BY HistoryInvariant DEF Inv
  <1>6. Spec => [][Legal]_vars
    BY LifecyclesHold DEF LifecycleRespected, Legal
  <1>7. QED
    BY <1>1, <1>3, <1>4, <1>5, <1>6, PTL DEF Spec, AuthorityImplemented, Authority!Spec
===============================================================================
