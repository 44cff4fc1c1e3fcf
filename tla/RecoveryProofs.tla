---------------------------- MODULE RecoveryProofs ----------------------------
(***************************************************************************)
(* The governor's books, what the cached loads and the tenants' counters   *)
(* say of the flow table; and what saves, restarts and restores preserve:  *)
(* every minted reservation carries the coordinator's present epoch, no    *)
(* flow has two live ones, and the books stay balanced.                    *)
(***************************************************************************)
EXTENDS Recovery, GovernorAuthority, TotalProofs

-------------------------------------------------------------------------------
(* Within one process                                                      *)

(* With no live reservation recompute_reserved leaves every resource at    *)
(* zero.                                                                   *)
LEMMA NothingReserved ==
  ASSUME NEW st, NEW sp, NEW rs, NEW rate,
         \A f \in Flows, n \in RsvNums : rs[f][n].state \notin {"Active", "Pending"}
  PROVE  \A r \in Resources : ReservedOf(st, sp, rs, rate)[r] = 0
  <1> SUFFICES ASSUME NEW r \in Resources PROVE ReservedOf(st, sp, rs, rate)[r] = 0
    OBVIOUS
  <1>1. { x \in Flows \X RsvNums : /\ rs[x[1]][x[2]].state \in {"Active", "Pending"}
                                   /\ st[x[1]] \notin Scheduled
                                   /\ r \in HopsOf(x[1], sp) } = {}
    OBVIOUS
  <1>2. \A g : Total(g, {}) = 0
    BY TotalStep, FS_EmptySet
  <1>3. QED
    BY <1>1, <1>2, Zenon DEF ReservedOf

(* With no flow being served recompute_allocated leaves every resource at  *)
(* zero.                                                                   *)
LEMMA NothingAllocated ==
  ASSUME NEW st, NEW sp, NEW gr, \A f \in Flows : st[f] \notin Served
  PROVE  \A r \in Resources : AllocatedOf(st, sp, gr)[r] = 0
  <1> SUFFICES ASSUME NEW r \in Resources PROVE AllocatedOf(st, sp, gr)[r] = 0
    OBVIOUS
  <1>1. { f \in Flows : st[f] \in Served /\ r \in HopsOf(f, sp) } = {}
    OBVIOUS
  <1>2. Total(gr, {}) = 0
    BY TotalStep, FS_EmptySet
  <1>3. QED
    BY <1>1, <1>2, Zenon DEF AllocatedOf

(* Every flow has come to its end, or never began.                         *)
Settled == \A f \in Flows : fstate[f] \in TerminalFlow \cup {"Absent"}

(* No reservation counts against a resource.                               *)
HoldsNothing ==
  \A f \in Flows, n \in RsvNums :
    reservations[f][n].state \notin {"Active", "Pending"}

(* Once every flow has settled no reservation is live.                     *)
LEMMA SettledHoldsNothing ==
  TypeOK /\ ReservationHistory /\ Settled => HoldsNothing
  <1> SUFFICES ASSUME TypeOK, ReservationHistory, Settled,
                      NEW f \in Flows, NEW n \in RsvNums
               PROVE  reservations[f][n].state \notin {"Active", "Pending"}
    BY DEF HoldsNothing
  <1>1. FlowHistory(f) /\ fstate[f] \in TerminalFlow \cup {"Absent"}
        /\ minted[f] \in 0..MaxMint
    BY DEF ReservationHistory, Settled, TypeOK
  <1>2. CASE fstate[f] = "Absent"
    BY <1>1, <1>2 DEF FlowHistory, RsvNums
  <1>3. CASE fstate[f] \in TerminalFlow
    BY <1>1, <1>3 DEF FlowHistory, RsvNums
  <1>4. QED
    BY <1>1, <1>2, <1>3

(* Whichever handler settles the last flow recomputes both loads, and      *)
(* nothing that happens afterwards disturbs them (cancel_flow,             *)
(* report_completion, tick, release_reservation).                          *)
LEMMA SettledStep ==
  ASSUME fstate = [f \in Flows |-> fstate[f]],
         Settled => HoldsNothing, Settled' => HoldsNothing',
         SettledAccountsAreZero, [Next]_vars
  PROVE  SettledAccountsAreZero'
  <1> DEFINE Zero(rsvd, allc) == \A r \in Resources : allc[r] = 0 /\ rsvd[r] = 0
  <1> SUFFICES ASSUME Settled' PROVE AccountingAtZero'
    BY DEF SettledAccountsAreZero, Settled
  <1>1. HoldsNothing'
    OBVIOUS
  <1>2. \A f \in Flows : fstate'[f] \notin Scheduled /\ fstate'[f] \notin Served
    BY DEF Scheduled, Served, TerminalFlow, Settled
  <1> SUFFICES Zero(reserved', allocated')
    BY <1>1, <1>2 DEF AccountingAtZero, HoldsNothing
  <1>3. ASSUME \A f \in Flows : fstate[f] = fstate'[f], UNCHANGED loadVars
        PROVE  Zero(reserved', allocated')
    BY <1>3 DEF SettledAccountsAreZero, AccountingAtZero, loadVars, Settled
  <1>4. ASSUME RecomputeLoad PROVE Zero(reserved', allocated')
    BY <1>1, <1>2, <1>4, NothingReserved, NothingAllocated DEF RecomputeLoad, HoldsNothing
  <1>5. CASE UNCHANGED vars
    BY <1>3, <1>5 DEF vars, flowVars
  <1>6. CASE CapacityNext
    BY <1>3, <1>6 DEF CapacityNext, AddResource, UpdateCapacity, SetResourceEnabled,
                      InvalidateResourceCapacity, AddPath, Elapse, flowVars
  <1>7. CASE FlowNext
    <2>1. ASSUME NEW f \in Flows, NEW s \in Specs, SubmitFlow(f, s) PROVE FALSE
      BY <2>1 DEF SubmitFlow, SubmitDeferred, SubmitAdmitted, Settled, TerminalFlow
    <2>2. ASSUME NEW f \in Flows, ResumeFlow(f) PROVE FALSE
      BY <2>2 DEF ResumeFlow, Settled, TerminalFlow
    <2>3. ASSUME NEW f \in Flows, NEW n \in RsvNums, ReleaseReservation(f, n)
          PROVE  FALSE
      <3>1. Settled
        BY <2>3 DEF ReleaseReservation, flowVars, Settled
      <3>2. reservations[f][n].state \in {"Active", "Pending"}
        BY <2>3 DEF ReleaseReservation, ReservationStates, TerminalReservation
      <3>3. QED
        BY <3>1, <3>2 DEF HoldsNothing
    <2>4. QED
      BY <1>4, <1>7, <2>1, <2>2, <2>3 DEF FlowNext, CancelFlow, Tick
  <1>8. CASE WorkerNext
    <2>1. ASSUME NEW w \in Workers, NEW b \in Boots, RegisterWorker(w, b)
          PROVE  Zero(reserved', allocated')
      <3>1. \A f \in Flows : fstate'[f] # "Reserved"
        BY <1>2 DEF Scheduled
      <3>2. \A f \in Flows : fstate[f] = fstate'[f]
        BY <2>1, <3>1, RegisterFlows, Zenon
      <3>3. QED
        BY <1>3, <2>1, <3>2 DEF RegisterWorker
    <2>2. ASSUME NEW w \in Workers, DeregisterWorker(w) PROVE Zero(reserved', allocated')
      BY <1>3, <2>2 DEF DeregisterWorker
    <2>3. ASSUME NEW f, NEW a, NEW g, NEW b, NEW done, ReportProgress(f, a, g, b, done)
          PROVE  Zero(reserved', allocated')
      BY <1>3, <2>3 DEF ReportProgress
    <2>4. ASSUME NEW f, NEW a, NEW g, NEW b, NEW done, ReportCompletion(f, a, g, b, done)
          PROVE  Zero(reserved', allocated')
      BY <1>4, <2>4 DEF ReportCompletion
    <2>5. QED
      BY <1>8, <2>1, <2>2, <2>3, <2>4 DEF WorkerNext
  <1>9. QED
    BY <1>5, <1>6, <1>7, <1>8 DEF Next

(* Accounting returns to zero whenever every flow has settled, for any     *)
(* number of flows and resources and whatever handlers ran in between      *)
(* (accounting_at_zero over the caches of recompute_reserved and           *)
(* recompute_allocated).                                                   *)
THEOREM AccountsReturnToZero == Spec => []SettledAccountsAreZero
  <1>1. Init => SettledAccountsAreZero
    BY DEF Init, SettledAccountsAreZero, AccountingAtZero, Scheduled, Unminted
  <1>2. TypeOK /\ ReservationHistory /\ TypeOK' /\ ReservationHistory'
        /\ SettledAccountsAreZero /\ [Next]_vars => SettledAccountsAreZero'
    <2>1. TypeOK' /\ ReservationHistory' => (Settled' => HoldsNothing')
      BY SettledHoldsNothing, PTL
    <2>2. TypeOK => fstate = [f \in Flows |-> fstate[f]]
      BY DEF TypeOK
    <2>3. QED
      BY <2>1, <2>2, SettledHoldsNothing, SettledStep
  <1>3. QED
    BY <1>1, <1>2, HistoryInvariant, PTL DEF Spec

(* The flows a tenant submitted, and those of them that completed.         *)
Mine(st, sp, t) == { f \in Flows : st[f] # "Absent" /\ sp[f].tenant = t }

Done(st, sp, t) == { f \in Mine(st, sp, t) : st[f] = "Completed" }

(* The counters of a tenant agree with the flow table.                     *)
Balanced(sub, com, st, sp, t) ==
  sub[t] = Cardinality(Mine(st, sp, t)) /\ com[t] = Cardinality(Done(st, sp, t))

(* The invariant says that the books of every tenant are balanced.         *)
LEMMA BalancedAccounts ==
  AccountsMatchFlows <=> \A t \in Tenants : Balanced(submitted, completed, fstate, spec, t)
  BY DEF AccountsMatchFlows, Balanced, Mine, Done

(* A tenant's flows are finitely many, so that they can be counted.        *)
LEMMA CountedFlows ==
  ASSUME NEW st, NEW sp, NEW t
  PROVE  IsFiniteSet(Mine(st, sp, t)) /\ IsFiniteSet(Done(st, sp, t))
  <1>1. Mine(st, sp, t) \in SUBSET Flows /\ Done(st, sp, t) \in SUBSET Flows
    BY DEF Mine, Done
  <1>2. QED
    BY <1>1, FlowsAssumption, FS_Subset

(* What the books rest on: the tables cover every flow and every tenant,   *)
(* and a flow in the table has a specification.                            *)
BooksTyped(st, sp, sub, com) ==
  /\ st = [f \in Flows |-> st[f]]
  /\ sp = [f \in Flows |-> sp[f]]
  /\ sub \in [Tenants -> Nat]
  /\ com \in [Tenants -> Nat]
  /\ \A f \in Flows : st[f] # "Absent" => sp[f] \in Specs

Books == BooksTyped(fstate, spec, submitted, completed)

(* Every step that neither submits nor completes a flow leaves both the    *)
(* counters and the flows they count alone.                                *)
LEMMA QuietAccounts ==
  ASSUME Books, AccountsMatchFlows, UNCHANGED tenantVars,
         fstate' = [f \in Flows |-> fstate'[f]], spec' = [f \in Flows |-> spec'[f]],
         \A f \in Flows : /\ fstate'[f] = "Absent" <=> fstate[f] = "Absent"
                          /\ fstate'[f] = "Completed" <=> fstate[f] = "Completed"
                          /\ spec'[f] = spec[f]
  PROVE  Books' /\ AccountsMatchFlows'
  <1>1. UNCHANGED <<submitted, completed>>
    BY DEF tenantVars
  <1>2. Books'
    BY <1>1 DEF Books, BooksTyped
  <1>3. AccountsMatchFlows'
    <2> SUFFICES ASSUME NEW t \in Tenants
                 PROVE  LET mine == { f \in Flows : fstate'[f] # "Absent" /\ spec'[f].tenant = t }
                        IN  /\ submitted'[t] = Cardinality(mine)
                            /\ completed'[t] =
                                 Cardinality({ f \in mine : fstate'[f] = "Completed" })
      BY DEF AccountsMatchFlows
    <2> DEFINE before == { f \in Flows : fstate[f] # "Absent" /\ spec[f].tenant = t }
               after == { f \in Flows : fstate'[f] # "Absent" /\ spec'[f].tenant = t }
    <2>1. /\ submitted[t] = Cardinality(before)
          /\ completed[t] = Cardinality({ f \in before : fstate[f] = "Completed" })
      BY DEF AccountsMatchFlows
    <2>2. after = before
      OBVIOUS
    <2>3. { f \in after : fstate'[f] = "Completed" } = { f \in before : fstate[f] = "Completed" }
      BY <2>2
    <2>4. QED
      BY <1>1, <2>1, <2>2, <2>3, Zenon
  <1>4. QED
    BY <1>2, <1>3

(* A submission is counted once, for the tenant of the new flow.           *)
LEMMA SubmitAccounts ==
  ASSUME Books, AccountsMatchFlows, NEW f \in Flows, NEW s \in Specs, SubmitFlow(f, s)
  PROVE  Books' /\ AccountsMatchFlows'
  <1>1. /\ fstate[f] = "Absent"
        /\ fstate'[f] \notin {"Absent", "Completed"}
        /\ \A g \in Flows : g # f => fstate'[g] = fstate[g] /\ spec'[g] = spec[g]
        /\ spec'[f] = s
        /\ fstate' = [g \in Flows |-> fstate'[g]]
        /\ spec' = [g \in Flows |-> spec'[g]]
    BY DEF SubmitFlow, SubmitDeferred, SubmitAdmitted, Books, BooksTyped
  <1>2. s.tenant \in Tenants
    BY ConstantsAssumption DEF FlowSpec
  <1>3. /\ submitted' = [submitted EXCEPT ![s.tenant] = submitted[s.tenant] + 1]
        /\ completed' = completed
        /\ submitted \in [Tenants -> Nat]
    BY DEF SubmitFlow, Books, BooksTyped
  <1>typed. Books'
    BY <1>1, <1>2, <1>3 DEF Books, BooksTyped
  <1> SUFFICES ASSUME NEW t \in Tenants
               PROVE  Balanced(submitted', completed', fstate', spec', t)
    BY <1>typed, Zenon DEF AccountsMatchFlows, Balanced, Mine, Done
  <1>4. Balanced(submitted, completed, fstate, spec, t)
    BY BalancedAccounts
  <1>5. Done(fstate', spec', t) = Done(fstate, spec, t)
    BY <1>1 DEF Mine, Done
  <1>6. CASE t = s.tenant
    <2>1. Mine(fstate', spec', t) = Mine(fstate, spec, t) \cup {f}
      BY <1>1, <1>6 DEF Mine
    <2>2. f \notin Mine(fstate, spec, t)
      BY <1>1 DEF Mine
    <2>3. Cardinality(Mine(fstate', spec', t)) = Cardinality(Mine(fstate, spec, t)) + 1
      BY <2>1, <2>2, CountedFlows, FS_AddElement, Zenon
    <2>4. QED
      BY <1>2, <1>3, <1>4, <1>5, <1>6, <2>3 DEF Balanced
  <1>7. CASE t # s.tenant
    <2>1. Mine(fstate', spec', t) = Mine(fstate, spec, t)
      BY <1>1, <1>7 DEF Mine
    <2>2. QED
      BY <1>2, <1>3, <1>4, <1>5, <1>7, <2>1 DEF Balanced
  <1>8. QED
    BY <1>6, <1>7

(* A completion is counted once: its flow was Running, so a duplicate      *)
(* report finds nothing to settle (report_completion).                     *)
LEMMA CompletionAccounts ==
  ASSUME Books, AccountsMatchFlows, NEW f \in Flows, NEW a, NEW g,
         NEW b, NEW done, ReportCompletion(f, a, g, b, done)
  PROVE  Books' /\ AccountsMatchFlows'
  <1>1. /\ fstate[f] = "Running"
        /\ fstate' = [fstate EXCEPT ![f] = "Completed"]
        /\ completed' = [completed EXCEPT
                           ![spec[f].tenant] = completed[spec[f].tenant] + 1]
        /\ spec' = spec
        /\ submitted' = submitted
    BY Zenon DEF ReportCompletion, Authorised
  <1>2. spec[f].tenant \in Tenants
    <2>1. spec[f] \in Specs
      BY <1>1 DEF Books, BooksTyped
    <2>2. QED
      BY <2>1, ConstantsAssumption DEF FlowSpec
  <1>3. completed \in [Tenants -> Nat] /\ fstate = [e \in Flows |-> fstate[e]]
    BY DEF Books, BooksTyped
  <1>typed. Books'
    BY <1>1, <1>2, <1>3 DEF Books, BooksTyped
  <1> SUFFICES ASSUME NEW t \in Tenants
               PROVE  Balanced(submitted', completed', fstate', spec', t)
    BY <1>typed DEF AccountsMatchFlows, Balanced, Mine, Done
  <1>4. Balanced(submitted, completed, fstate, spec, t)
    BY BalancedAccounts
  <1>5. Mine(fstate', spec', t) = Mine(fstate, spec, t)
    BY <1>1, <1>3 DEF Mine
  <1>6. CASE t = spec[f].tenant
    <2>1. Done(fstate', spec', t) = Done(fstate, spec, t) \cup {f}
      BY <1>1, <1>3, <1>5, <1>6 DEF Mine, Done
    <2>2. f \notin Done(fstate, spec, t)
      BY <1>1 DEF Done
    <2>3. Cardinality(Done(fstate', spec', t)) = Cardinality(Done(fstate, spec, t)) + 1
      BY <2>1, <2>2, CountedFlows, FS_AddElement, Zenon
    <2>4. QED
      BY <1>1, <1>2, <1>3, <1>4, <1>5, <1>6, <2>3 DEF Balanced
  <1>7. CASE t # spec[f].tenant
    <2>1. Done(fstate', spec', t) = Done(fstate, spec, t)
      BY <1>1, <1>3, <1>5, <1>7 DEF Mine, Done
    <2>2. QED
      BY <1>1, <1>2, <1>3, <1>4, <1>5, <1>7, <2>1 DEF Balanced
  <1>8. QED
    BY <1>6, <1>7

(* Every step keeps the tenants' counters in agreement with the flows.     *)
LEMMA AccountsStep ==
  ASSUME Books, AccountsMatchFlows, [Next]_vars
  PROVE  Books' /\ AccountsMatchFlows'
  <1> USE DEF Books, BooksTyped
  <1>1. CASE UNCHANGED vars
    BY <1>1, QuietAccounts DEF vars, flowVars
  <1>2. CASE CapacityNext
    BY <1>2, QuietAccounts
    DEF CapacityNext, AddResource, UpdateCapacity, SetResourceEnabled,
        InvalidateResourceCapacity, AddPath, Elapse, flowVars
  <1>3. ASSUME NEW f \in Flows, CancelFlow(f) PROVE Books' /\ AccountsMatchFlows'
    BY <1>3, QuietAccounts DEF CancelFlow, FlowStates, TerminalFlow
  <1>4. ASSUME NEW f \in Flows, ResumeFlow(f) PROVE Books' /\ AccountsMatchFlows'
    BY <1>4, QuietAccounts DEF ResumeFlow
  <1>5. ASSUME NEW f \in Flows, NEW n \in RsvNums, ReleaseReservation(f, n)
        PROVE  Books' /\ AccountsMatchFlows'
    BY <1>5, QuietAccounts DEF ReleaseReservation, flowVars
  <1>6. CASE Tick
    <2>1. \A f \in Flows : /\ fstate'[f] = "Absent" <=> fstate[f] = "Absent"
                           /\ fstate'[f] = "Completed" <=> fstate[f] = "Completed"
      BY <1>6, TickFlows DEF Scheduled
    <2>2. UNCHANGED <<spec, tenantVars>>
      BY <1>6, TickFlows
    <2>3. QED
      BY <1>6, <2>1, <2>2, TickFlows, QuietAccounts
  <1>7. ASSUME NEW w \in Workers, NEW b \in Boots, RegisterWorker(w, b)
        PROVE  Books' /\ AccountsMatchFlows'
    <2>1. \A f \in Flows : /\ fstate'[f] = "Absent" <=> fstate[f] = "Absent"
                           /\ fstate'[f] = "Completed" <=> fstate[f] = "Completed"
      BY <1>7, RegisterFlows, Zenon
    <2>2. UNCHANGED <<spec, tenantVars>>
      BY <1>7, RegisterFlows
    <2>3. QED
      BY <1>7, <2>1, <2>2, RegisterFlows, QuietAccounts
  <1>8. ASSUME NEW w \in Workers, DeregisterWorker(w) PROVE Books' /\ AccountsMatchFlows'
    BY <1>8, QuietAccounts DEF DeregisterWorker
  <1>9. ASSUME NEW f, NEW a, NEW g, NEW b, NEW done, ReportProgress(f, a, g, b, done)
        PROVE  Books' /\ AccountsMatchFlows'
    BY <1>9, QuietAccounts DEF ReportProgress
  <1>10. QED
    BY <1>1, <1>2, <1>3, <1>4, <1>5, <1>6, <1>7, <1>8, <1>9, SubmitAccounts,
       CompletionAccounts
    DEF Next, FlowNext, WorkerNext

(* Each tenant's counters equal the number of its flows submitted and      *)
(* completed, across retries, cancellations and duplicate reports          *)
(* (submit_flow, report_completion).                                       *)
THEOREM AccountsAgree == Spec => []AccountsMatchFlows
  <1>1. Init => AccountsMatchFlows
    <2> SUFFICES ASSUME Init, NEW t \in Tenants
                 PROVE  Balanced(submitted, completed, fstate, spec, t)
      BY BalancedAccounts
    <2>1. Mine(fstate, spec, t) = {} /\ Done(fstate, spec, t) = {}
      BY DEF Init, Mine, Done
    <2>2. QED
      BY <2>1, FS_EmptySet, Zenon DEF Init, Balanced
  <1>2. Books /\ AccountsMatchFlows /\ [Next]_vars => AccountsMatchFlows'
    BY AccountsStep
  <1>3. TypeOK /\ ReservationHistory => Books
    BY DEF TypeOK, ReservationHistory, FlowHistory, Books, BooksTyped
  <1>4. QED
    BY <1>1, <1>2, <1>3, HistoryInvariant, PTL DEF Spec

-------------------------------------------------------------------------------
(* Across processes                                                        *)

(* A reservation has exactly the fields the code gives it.                 *)
IsReservation(rsv) ==
  rsv = [ state |-> rsv.state, attempt |-> rsv.attempt, fgen |-> rsv.fgen,
          epoch |-> rsv.epoch, capGen |-> rsv.capGen, boot |-> rsv.boot ]

(* The states of a flow that may hold a reservation.                       *)
Holding == Scheduled \cup {"Preempted"}

(* One reservation, number k of a flow in state st that names number n,    *)
(* attempts a in generation g: it carries epoch e once minted, and is live *)
(* only if it is the flow's own.                                           *)
EntryInOrder(rsv, k, n, e, a, g, st) ==
  /\ IsReservation(rsv)
  /\ rsv.state \in {"Unminted", "Active", "Released"}
  /\ rsv.state # "Unminted" => rsv.epoch = e
  /\ rsv.state = "Active" => k = n /\ rsv.attempt = a /\ rsv.fgen = g /\ st \in Holding

(* The reservations of one flow; the one it names, if any, was minted.     *)
RowInOrder(row, n, e, a, g, st) ==
  /\ row = [k \in RsvNums |-> row[k]]
  /\ \A k \in RsvNums : EntryInOrder(row[k], k, n, e, a, g, st)
  /\ n \in RsvNums => row[n].state # "Unminted"

(* A table of reservations with the flows' names for their own.            *)
TableInOrder(rs, of, e, at, gn, st) ==
  /\ rs = [f \in Flows |-> rs[f]]
  /\ of = [f \in Flows |-> of[f]]
  /\ at = [f \in Flows |-> at[f]]
  /\ gn = [f \in Flows |-> gn[f]]
  /\ st = [f \in Flows |-> st[f]]
  /\ \A f \in Flows : RowInOrder(rs[f], of[f], e, at[f], gn[f], st[f])

(* The inductive invariant: the table in memory and the saved one are both *)
(* in order, each under the epoch kept beside it.                          *)
TablesInOrder ==
  /\ TableInOrder(reservations, rsvOf, epoch, attempt, fgen, fstate)
  /\ file # NoSnapshot =>
       TableInOrder(file.rsvs.reservations, file.flows.rsvOf, file.epoch,
                    file.flows.attempt, file.flows.fgen, file.flows.fstate)

(* A reservation minted now, for a flow that holds none, is in order.      *)
LEMMA MintedNow ==
  ASSUME NEW row, NEW old, NEW a, NEW g, NEW st, NEW stNew \in Holding,
         NEW aNew, NEW gNew, NEW n \in RsvNums, NEW b,
         RowInOrder(row, old, epoch, a, g, st),
         \A k \in RsvNums : row[k].state # "Active"
  PROVE  RowInOrder([row EXCEPT ![n] = NewReservation(aNew, gNew, b)],
                    n, epoch, aNew, gNew, stNew)
  <1> DEFINE new == [row EXCEPT ![n] = NewReservation(aNew, gNew, b)]
  <1>1. new = [k \in RsvNums |-> new[k]] /\ new[n] = NewReservation(aNew, gNew, b)
        /\ \A k \in RsvNums : k # n => new[k] = row[k]
    BY DEF RowInOrder
  <1>2. EntryInOrder(NewReservation(aNew, gNew, b), n, n, epoch, aNew, gNew, stNew)
    BY DEF EntryInOrder, NewReservation, IsReservation
  <1>3. \A k \in RsvNums : EntryInOrder(row[k], k, old, epoch, a, g, st)
    BY DEF RowInOrder
  <1>4. \A k \in RsvNums : EntryInOrder(new[k], k, n, epoch, aNew, gNew, stNew)
    BY <1>1, <1>2, <1>3 DEF EntryInOrder
  <1>5. new[n].state # "Unminted"
    BY <1>1 DEF NewReservation
  <1> HIDE DEF new
  <1>6. RowInOrder(new, n, epoch, aNew, gNew, stNew)
    BY <1>1, <1>4, <1>5 DEF RowInOrder
  <1>7. QED
    BY <1>6 DEF new

(* Releasing a minted reservation changes nothing but its state.           *)
LEMMA ReleasedInPlace ==
  ASSUME NEW rsv, IsReservation(rsv), rsv.state \in {"Active", "Released"}
  PROVE  /\ IsReservation(Release(rsv))
         /\ Release(rsv).epoch = rsv.epoch
         /\ Release(rsv).state = "Released"
  BY DEF IsReservation, Release, ReservationTransition, ReservationEdges

(* Releasing the reservation a flow names leaves it none, whatever its     *)
(* state is then.                                                          *)
LEMMA CurrentReleased ==
  ASSUME NEW f \in Flows, NEW a, NEW g, NEW st, NEW stNew,
         RowInOrder(reservations[f], rsvOf[f], epoch, a, g, st)
  PROVE  /\ RowInOrder(ReleaseCurrent(f), rsvOf[f], epoch, a, g, stNew)
         /\ \A k \in RsvNums : ReleaseCurrent(f)[k].state # "Active"
  <1>1. ASSUME NEW k \in RsvNums
        PROVE  /\ EntryInOrder(ReleaseCurrent(f)[k], k, rsvOf[f], epoch, a, g, stNew)
               /\ ReleaseCurrent(f)[k].state # "Active"
               /\ k = rsvOf[f] => ReleaseCurrent(f)[k].state = "Released"
    <2>1. EntryInOrder(reservations[f][k], k, rsvOf[f], epoch, a, g, st)
          /\ (k = rsvOf[f] => reservations[f][k].state # "Unminted")
      BY DEF RowInOrder
    <2>2. CASE k = rsvOf[f]
      <3>1. ReleaseCurrent(f)[k] = Release(reservations[f][k])
        BY <2>2 DEF ReleaseCurrent
      <3>2. QED
        BY <2>1, <2>2, <3>1, ReleasedInPlace, Zenon DEF EntryInOrder
    <2>3. CASE k # rsvOf[f]
      <3>1. ReleaseCurrent(f)[k] = reservations[f][k]
        BY <2>3 DEF ReleaseCurrent
      <3>2. QED
        BY <2>1, <2>3, <3>1 DEF EntryInOrder
    <2>4. QED
      BY <2>2, <2>3
  <1>2. ReleaseCurrent(f) = [k \in RsvNums |-> ReleaseCurrent(f)[k]]
    BY DEF ReleaseCurrent
  <1>3. QED
    BY <1>1, <1>2 DEF RowInOrder

(* The row of flow f, before and after a step.                             *)
Row(f) == RowInOrder(reservations[f], rsvOf[f], epoch, attempt[f], fgen[f], fstate[f])

(* A step that takes rows in order to rows in order keeps the tables so.   *)
LEMMA RowsReplaced ==
  ASSUME TablesInOrder, UNCHANGED <<epoch, file>>,
         reservations' = [f \in Flows |-> reservations'[f]],
         rsvOf' = [f \in Flows |-> rsvOf'[f]],
         attempt' = [f \in Flows |-> attempt'[f]],
         fgen' = [f \in Flows |-> fgen'[f]],
         fstate' = [f \in Flows |-> fstate'[f]],
         \A f \in Flows :
           RowInOrder(reservations'[f], rsvOf'[f], epoch, attempt'[f], fgen'[f], fstate'[f])
  PROVE  TablesInOrder'
  <1>1. TableInOrder(reservations', rsvOf', epoch', attempt', fgen', fstate')
    BY DEF TableInOrder
  <1>2. QED
    BY <1>1 DEF TablesInOrder

(* What the invariant says of the flows in memory.                         *)
LEMMA RowsNow ==
  ASSUME TablesInOrder
  PROVE  /\ reservations = [f \in Flows |-> reservations[f]]
         /\ rsvOf = [f \in Flows |-> rsvOf[f]]
         /\ attempt = [f \in Flows |-> attempt[f]]
         /\ fgen = [f \in Flows |-> fgen[f]]
         /\ fstate = [f \in Flows |-> fstate[f]]
         /\ \A f \in Flows : Row(f)
  BY DEF TablesInOrder, TableInOrder, Row

(* A flow that is neither scheduled nor preempted has no live reservation. *)
LEMMA IdleHoldsNothing ==
  ASSUME NEW f \in Flows, Row(f), fstate[f] \notin Holding
  PROVE  \A k \in RsvNums : reservations[f][k].state # "Active"
  BY DEF Row, RowInOrder, EntryInOrder

(* Submitting a flow keeps the tables in order.                            *)
LEMMA SubmitInOrder ==
  ASSUME TablesInOrder, UNCHANGED file, NEW f \in Flows, NEW s \in Specs, SubmitFlow(f, s)
  PROVE  TablesInOrder'
  <1>1. fstate[f] = "Absent" /\ UNCHANGED <<attempt, fgen, epoch>>
    BY DEF SubmitFlow, topologyVars
  <1>2. \A k \in RsvNums : reservations[f][k].state # "Active"
    BY <1>1, RowsNow, IdleHoldsNothing DEF Holding, Scheduled
  <1>3. \A g \in Flows : Row(g)
    BY RowsNow
  <1>4. CASE SubmitDeferred(f, s)
    <2>1. UNCHANGED <<reservations, rsvOf>> /\ fstate' = [fstate EXCEPT ![f] = "Queued"]
      BY <1>4 DEF SubmitDeferred, rsvVars
    <2>2. RowInOrder(reservations[f], rsvOf[f], epoch, attempt[f], fgen[f], "Queued")
      BY <1>2, <1>3 DEF Row, RowInOrder, EntryInOrder
    <2>3. QED
      BY <1>1, <1>3, <2>1, <2>2, RowsNow, RowsReplaced, Zenon DEF Row
  <1>5. CASE SubmitAdmitted(f, s)
    <2> DEFINE n == minted[f] + 1
               row == [reservations[f] EXCEPT
                         ![n] = NewReservation(attempt[f], fgen[f], NoBoot)]
    <2>1. /\ n \in RsvNums
          /\ reservations' = [reservations EXCEPT ![f] = row]
          /\ rsvOf' = [rsvOf EXCEPT ![f] = n]
          /\ fstate' = [fstate EXCEPT ![f] = "Reserved"]
      BY <1>5 DEF SubmitAdmitted
    <2>2. "Reserved" \in Holding
      BY DEF Holding, Scheduled
    <2>3. RowInOrder(row, n, epoch, attempt[f], fgen[f], "Reserved")
      BY <1>2, <1>3, <2>1, <2>2, MintedNow DEF Row
    <2> HIDE DEF row, n
    <2>4. QED
      BY <1>1, <1>3, <2>1, <2>3, RowsNow, RowsReplaced, Zenon DEF Row
  <1>6. QED
    BY <1>4, <1>5 DEF SubmitFlow

(* Settling a flow, by cancellation or completion, keeps the tables in     *)
(* order.                                                                  *)
LEMMA SettleInOrder ==
  ASSUME TablesInOrder, NEW f \in Flows, NEW st,
         fstate' = [fstate EXCEPT ![f] = st],
         reservations' = [reservations EXCEPT ![f] = ReleaseCurrent(f)],
         UNCHANGED <<rsvOf, attempt, fgen, epoch, file>>
  PROVE  TablesInOrder'
  <1>1. RowInOrder(ReleaseCurrent(f), rsvOf[f], epoch, attempt[f], fgen[f], st)
    BY RowsNow, CurrentReleased DEF Row
  <1>2. QED
    BY <1>1, RowsNow, RowsReplaced, Zenon DEF Row

(* Resuming a flow keeps the tables in order.                              *)
LEMMA ResumeInOrder ==
  ASSUME TablesInOrder, UNCHANGED file, NEW f \in Flows, ResumeFlow(f)
  PROVE  TablesInOrder'
  <1>1. /\ fstate[f] \in Holding
        /\ fstate' = [fstate EXCEPT ![f] = "Reserved"]
        /\ UNCHANGED <<reservations, rsvOf, attempt, fgen, epoch>>
    BY Zenon DEF ResumeFlow, rsvVars, topologyVars, Holding, Scheduled
  <1>2. RowInOrder(reservations[f], rsvOf[f], epoch, attempt[f], fgen[f], "Reserved")
    BY <1>1, RowsNow DEF Row, RowInOrder, EntryInOrder, Holding, Scheduled
  <1>3. QED
    BY <1>1, <1>2, RowsNow, RowsReplaced, Zenon DEF Row

(* So does a client's release of one reservation.                          *)
LEMMA ReleaseInOrder ==
  ASSUME TablesInOrder, UNCHANGED file, NEW f \in Flows, NEW n \in RsvNums,
         ReleaseReservation(f, n)
  PROVE  TablesInOrder'
  <1> DEFINE row == [reservations[f] EXCEPT ![n] = Release(reservations[f][n])]
  <1>1. /\ reservations[f][n].state \in ReservationStates
        /\ reservations' = [reservations EXCEPT ![f] = row]
        /\ UNCHANGED <<rsvOf, attempt, fgen, fstate, epoch>>
    BY DEF ReleaseReservation, flowVars, topologyVars
  <1>2. RowInOrder(reservations[f], rsvOf[f], epoch, attempt[f], fgen[f], fstate[f])
    BY RowsNow DEF Row
  <1>3. reservations[f][n].state \in {"Active", "Released"} /\ IsReservation(reservations[f][n])
    BY <1>1, <1>2 DEF RowInOrder, EntryInOrder, ReservationStates
  <1>4. RowInOrder(row, rsvOf[f], epoch, attempt[f], fgen[f], fstate[f])
    <2>1. /\ row = [k \in RsvNums |-> row[k]]
          /\ row[n] = Release(reservations[f][n])
          /\ \A k \in RsvNums : k # n => row[k] = reservations[f][k]
      BY <1>2 DEF RowInOrder
    <2> HIDE DEF row
    <2>2. EntryInOrder(row[n], n, rsvOf[f], epoch, attempt[f], fgen[f], fstate[f])
          /\ row[n].state = "Released"
      BY <1>2, <1>3, <2>1, ReleasedInPlace DEF RowInOrder, EntryInOrder
    <2>3. QED
      BY <1>2, <2>1, <2>2 DEF RowInOrder
  <1> HIDE DEF row
  <1>5. QED
    BY <1>1, <1>4, RowsNow, RowsReplaced, Zenon DEF Row

(* A tick keeps the tables in order: only parked flows, which hold         *)
(* nothing, are given a reservation.                                       *)
LEMMA TickInOrder ==
  ASSUME TablesInOrder, UNCHANGED file, Tick
  PROVE  TablesInOrder'
  <1>1. UNCHANGED <<epoch, attempt, fgen>>
    BY TickFlows
  <1>2. ASSUME NEW f \in Flows
        PROVE  RowInOrder(reservations'[f], rsvOf'[f], epoch, attempt[f], fgen[f], fstate'[f])
    <2>1. Row(f)
      BY RowsNow
    <2>2. CASE /\ fstate[f] = "Queued"
               /\ fstate'[f] = "Running"
               /\ minted[f] + 1 \in RsvNums
               /\ rsvOf'[f] = minted[f] + 1
               /\ reservations'[f] =
                    [reservations[f] EXCEPT
                       ![minted[f] + 1] = NewReservation(attempt[f], fgen[f], NoBoot)]
      <3>1. \A k \in RsvNums : reservations[f][k].state # "Active"
        BY <2>1, <2>2, IdleHoldsNothing DEF Holding, Scheduled
      <3>2. "Running" \in Holding
        BY DEF Holding, Scheduled
      <3>3. QED
        BY <2>1, <2>2, <3>1, <3>2, MintedNow DEF Row
    <2>3. CASE /\ IF fstate[f] \in Scheduled
                  THEN fstate'[f] \in {"Running", "Throttled", "Preempted"}
                  ELSE fstate'[f] = fstate[f]
               /\ rsvOf'[f] = rsvOf[f]
               /\ reservations'[f] = reservations[f]
      <3>1. fstate[f] \in Holding => fstate'[f] \in Holding
        BY <2>3 DEF Holding, Scheduled
      <3>2. QED
        BY <2>1, <2>3, <3>1 DEF Row, RowInOrder, EntryInOrder
    <2>4. QED
      BY <2>2, <2>3, TickFlows
  <1>3. QED
    BY <1>1, <1>2, TickFlows, RowsNow, RowsReplaced

(* A registration keeps the tables in order: a roll releases before it     *)
(* mints.                                                                  *)
LEMMA RegisterInOrder ==
  ASSUME TablesInOrder, UNCHANGED file, NEW w \in Workers, NEW b \in Boots,
         RegisterWorker(w, b)
  PROVE  TablesInOrder'
  <1>1. UNCHANGED epoch
    BY RegisterFlows
  <1>2. ASSUME NEW f \in Flows
        PROVE  RowInOrder(reservations'[f], rsvOf'[f], epoch, attempt'[f], fgen'[f], fstate'[f])
    <2>1. Row(f)
      BY RowsNow
    <2>2. CASE /\ minted[f] + 1 \in RsvNums
               /\ fstate'[f] = "Reserved"
               /\ attempt'[f] = minted[f] + 1
               /\ fgen'[f] = fgen[f] + 1
               /\ rsvOf'[f] = minted[f] + 1
               /\ reservations'[f] =
                    [ReleaseCurrent(f) EXCEPT
                       ![minted[f] + 1] = NewReservation(minted[f] + 1, fgen[f] + 1, b)]
      <3>1. /\ RowInOrder(ReleaseCurrent(f), rsvOf[f], epoch, attempt[f], fgen[f], fstate[f])
            /\ \A k \in RsvNums : ReleaseCurrent(f)[k].state # "Active"
        BY <2>1, CurrentReleased DEF Row
      <3>2. "Reserved" \in Holding
        BY DEF Holding, Scheduled
      <3>3. QED
        BY <2>2, <3>1, <3>2, MintedNow
    <2>3. CASE UNCHANGED <<fstate[f], attempt[f], fgen[f], rsvOf[f], reservations[f]>>
      BY <2>1, <2>3 DEF Row
    <2>4. QED
      BY <2>2, <2>3, RegisterFlows, ZenonT(40)
  <1>3. QED
    BY <1>1, <1>2, RegisterFlows, RowsReplaced

(* Every operation of the governor keeps the tables in order.              *)
LEMMA GovernorInOrder ==
  ASSUME TablesInOrder, GovernorStep
  PROVE  TablesInOrder'
  <1>1. UNCHANGED file
    BY DEF GovernorStep, recoveryVars
  <1>2. ASSUME UNCHANGED <<reservations, rsvOf, attempt, fgen, fstate, epoch>>
        PROVE  TablesInOrder'
    BY <1>1, <1>2 DEF TablesInOrder
  <1>3. CASE CapacityNext
    BY <1>2, <1>3 DEF CapacityNext, AddResource, UpdateCapacity, SetResourceEnabled,
                      InvalidateResourceCapacity, AddPath, Elapse, flowVars, rsvVars,
                      topologyVars
  <1>4. ASSUME NEW f \in Flows, CancelFlow(f) PROVE TablesInOrder'
    BY <1>1, <1>4, SettleInOrder, Zenon DEF CancelFlow, topologyVars
  <1>5. ASSUME NEW w \in Workers, DeregisterWorker(w) PROVE TablesInOrder'
    BY <1>2, <1>5 DEF DeregisterWorker, rsvVars, topologyVars
  <1>6. ASSUME NEW f \in Flows, NEW a, NEW g, NEW b, NEW done,
               ReportProgress(f, a, g, b, done)
        PROVE  TablesInOrder'
    BY <1>2, <1>6 DEF ReportProgress, rsvVars, topologyVars
  <1>7. ASSUME NEW f \in Flows, NEW a, NEW g, NEW b, NEW done,
               ReportCompletion(f, a, g, b, done)
        PROVE  TablesInOrder'
    BY <1>1, <1>7, SettleInOrder, Zenon DEF ReportCompletion, topologyVars
  <1>8. QED
    BY <1>1, <1>3, <1>4, <1>5, <1>6, <1>7, SubmitInOrder, ResumeInOrder, ReleaseInOrder,
       TickInOrder, RegisterInOrder
    DEF GovernorStep, Next, FlowNext, WorkerNext

(* Saving copies a table in order, loading brings one back together with   *)
(* its epoch, and a new process starts with an empty one.                  *)
LEMMA RecoveryInOrder == TablesInOrder /\ [RecoveryNext]_allVars => TablesInOrder'
  <1> SUFFICES ASSUME TablesInOrder, [RecoveryNext]_allVars PROVE TablesInOrder'
    OBVIOUS
  <1>1. CASE UNCHANGED allVars
    BY <1>1 DEF allVars, vars, recoveryVars, flowVars, rsvVars, topologyVars, TablesInOrder
  <1>2. CASE SaveFile
    <2>1. /\ UNCHANGED <<reservations, rsvOf, epoch, attempt, fgen, fstate>>
          /\ file'.rsvs.reservations = reservations
          /\ file'.epoch = epoch
          /\ file'.flows.rsvOf = rsvOf
          /\ file'.flows.attempt = attempt
          /\ file'.flows.fgen = fgen
          /\ file'.flows.fstate = fstate
      BY <1>2 DEF SaveFile, Snapshot, SavedFlows, SavedReservations, vars, flowVars,
                  rsvVars, topologyVars
    <2>2. QED
      BY <2>1 DEF TablesInOrder
  <1>3. CASE LoadFile
    <2>1. /\ file # NoSnapshot
          /\ file' = file
          /\ reservations' = file.rsvs.reservations
          /\ epoch' = file.epoch
          /\ rsvOf' = file.flows.rsvOf
          /\ attempt' = file.flows.attempt
          /\ fgen' = file.flows.fgen
          /\ fstate' = file.flows.fstate
      BY <1>3 DEF LoadFile, Restore, RestoreEpoch, RestoreFlows, RestoreAttempts,
                  RestoreReservations, recoveryVars
    <2>2. QED
      BY <2>1 DEF TablesInOrder
  <1>4. CASE Restart
    <2>1. /\ file' = file
          /\ reservations' = [f \in Flows |-> [n \in RsvNums |-> Unminted]]
          /\ rsvOf' = [f \in Flows |-> 0]
          /\ attempt' = [f \in Flows |-> 0]
          /\ fgen' = [f \in Flows |-> 0]
          /\ fstate' = [f \in Flows |-> "Absent"]
      BY <1>4 DEF Restart
    <2>2. \A k, e : EntryInOrder(Unminted, k, 0, e, 0, 0, "Absent")
      BY DEF EntryInOrder, IsReservation, Unminted
    <2>3. \A f \in Flows : RowInOrder(reservations'[f], 0, epoch', 0, 0, "Absent")
      BY <2>1, <2>2, ConstantsAssumption DEF RowInOrder, RsvNums
    <2>4. QED
      BY <2>1, <2>3 DEF TablesInOrder, TableInOrder
  <1>5. QED
    BY <1>1, <1>2, <1>3, <1>4, GovernorInOrder DEF RecoveryNext

(* The tables are in order in every reachable state.                       *)
THEOREM TablesStayInOrder == RecoverySpec => []TablesInOrder
  <1>1. RecoveryInit => TablesInOrder
    <2> SUFFICES ASSUME RecoveryInit PROVE TablesInOrder
      OBVIOUS
    <2>1. \A k, e : EntryInOrder(Unminted, k, 0, e, 0, 0, "Absent")
      BY DEF EntryInOrder, IsReservation, Unminted
    <2>2. \A f \in Flows : RowInOrder(reservations[f], 0, epoch, 0, 0, "Absent")
      BY <2>1, ConstantsAssumption DEF RecoveryInit, Init, RowInOrder, RsvNums
    <2>3. QED
      BY <2>2, Zenon DEF RecoveryInit, Init, TablesInOrder, TableInOrder
  <1>2. QED
    BY <1>1, RecoveryInOrder, PTL DEF RecoverySpec

(* What the worker of a running flow reports under the flow's active       *)
(* reservation passes the fences of report_progress and report_completion, *)
(* whatever was saved, restarted and restored before: restore brings the   *)
(* epoch, the reservations and the attempts back together.                 *)
THEOREM ReportsStayAccepted == RecoverySpec => []ReportsAccepted
  <1>1. TablesInOrder => ReportsAccepted
    BY RowsNow DEF ReportsAccepted, Authorised, Row, RowInOrder, EntryInOrder
  <1>2. QED
    BY <1>1, TablesStayInOrder, PTL

(* No flow has two live reservations, and the live one carries its attempt *)
(* and generation, in a process that restored an old state as in any other *)
(* (save_file, load_file, restore).                                        *)
THEOREM RecoveredAuthority == RecoverySpec => []SingleAuthority
  <1>1. TablesInOrder => SingleAuthority
    BY RowsNow DEF SingleAuthority, Row, RowInOrder, EntryInOrder
  <1>2. QED
    BY <1>1, TablesStayInOrder, PTL

(* Once every flow has settled no reservation is live, restored or not.    *)
LEMMA RecoveredHoldsNothing == TablesInOrder => (Settled => HoldsNothing)
  <1> SUFFICES ASSUME TablesInOrder, Settled, NEW f \in Flows, NEW n \in RsvNums
               PROVE  reservations[f][n].state \notin {"Active", "Pending"}
    BY DEF HoldsNothing
  <1>1. fstate[f] \notin Holding
    BY DEF Settled, TerminalFlow, Holding, Scheduled
  <1>2. QED
    BY <1>1, RowsNow DEF Row, RowInOrder, EntryInOrder

(* Accounting returns to zero once every flow has settled, restored flows  *)
(* included: restore() recomputes both loads from the tables it brought    *)
(* back.                                                                   *)
THEOREM RecoveredAccounts == RecoverySpec => []SettledAccountsAreZero
  <1>1. RecoveryInit => SettledAccountsAreZero
    BY DEF RecoveryInit, Init, SettledAccountsAreZero, AccountingAtZero, Scheduled, Unminted
  <1>2. TablesInOrder /\ TablesInOrder' /\ SettledAccountsAreZero /\ [RecoveryNext]_allVars
        => SettledAccountsAreZero'
    <2> SUFFICES ASSUME TablesInOrder, TablesInOrder', SettledAccountsAreZero,
                        [RecoveryNext]_allVars
                 PROVE  SettledAccountsAreZero'
      OBVIOUS
    <2>1. Settled => HoldsNothing
      BY RecoveredHoldsNothing
    <2>2. Settled' => HoldsNothing'
      BY RecoveredHoldsNothing, PTL
    <2>3. CASE [Next]_vars
      BY <2>1, <2>2, <2>3, RowsNow, SettledStep
    <2>4. CASE LoadFile \/ Restart
      <3> SUFFICES ASSUME Settled' PROVE AccountingAtZero'
        BY DEF SettledAccountsAreZero, Settled
      <3>1. HoldsNothing'
        BY <2>2
      <3>2. \A f \in Flows : fstate'[f] \notin Scheduled /\ fstate'[f] \notin Served
        BY DEF Settled, Scheduled, Served, TerminalFlow
      <3>3. CASE RecomputeLoad
        BY <3>1, <3>2, <3>3, NothingReserved, NothingAllocated
        DEF RecomputeLoad, HoldsNothing, AccountingAtZero
      <3>4. CASE Restart
        BY <3>1, <3>2, <3>4 DEF Restart, AccountingAtZero, HoldsNothing
      <3>5. QED
        BY <2>4, <3>3, <3>4 DEF LoadFile, Restore, RefreshAll
    <2>5. QED
      BY <2>3, <2>4 DEF RecoveryNext, GovernorStep, SaveFile, allVars
  <1>3. QED
    BY <1>1, <1>2, TablesStayInOrder, PTL DEF RecoverySpec

(* The saved books are balanced too.                                       *)
SavedBooks ==
  file # NoSnapshot =>
    /\ BooksTyped(file.flows.fstate, file.flows.spec, file.tenants.submitted,
                  file.tenants.completed)
    /\ \A t \in Tenants :
         Balanced(file.tenants.submitted, file.tenants.completed, file.flows.fstate,
                  file.flows.spec, t)

BooksInOrder == Books /\ AccountsMatchFlows /\ SavedBooks

(* An empty flow table has balanced books.                                 *)
LEMMA EmptyBooks ==
  ASSUME NEW t \in Tenants, NEW sp
  PROVE  Balanced([u \in Tenants |-> 0], [u \in Tenants |-> 0],
                  [f \in Flows |-> "Absent"], sp, t)
  <1>1. /\ Mine([f \in Flows |-> "Absent"], sp, t) = {}
        /\ Done([f \in Flows |-> "Absent"], sp, t) = {}
    BY DEF Mine, Done
  <1>2. QED
    BY <1>1, FS_EmptySet DEF Balanced

(* Saving, loading and restarting keep the books: the counters travel with *)
(* the flows they count.                                                   *)
LEMMA BooksRecovered == BooksInOrder /\ [RecoveryNext]_allVars => BooksInOrder'
  <1> SUFFICES ASSUME BooksInOrder, [RecoveryNext]_allVars PROVE BooksInOrder'
    OBVIOUS
  <1>1. Books /\ AccountsMatchFlows /\ SavedBooks
    BY DEF BooksInOrder
  <1>2. CASE [Next]_vars /\ UNCHANGED file
    BY <1>1, <1>2, AccountsStep DEF BooksInOrder, SavedBooks
  <1>3. CASE SaveFile
    <2>1. /\ file'.flows.fstate = fstate
          /\ file'.flows.spec = spec
          /\ file'.tenants.submitted = submitted
          /\ file'.tenants.completed = completed
      BY <1>3 DEF SaveFile, Snapshot, SavedFlows, SavedTenants
    <2>2. \A t \in Tenants : Balanced(submitted, completed, fstate, spec, t)
      BY <1>1, BalancedAccounts
    <2>3. SavedBooks'
      BY <1>1, <2>1, <2>2 DEF SavedBooks, Books
    <2>4. [Next]_vars
      BY <1>3 DEF SaveFile
    <2>5. QED
      BY <1>1, <2>3, <2>4, AccountsStep DEF BooksInOrder
  <1>4. CASE LoadFile
    <2>1. /\ file # NoSnapshot
          /\ file' = file
          /\ fstate' = file.flows.fstate
          /\ spec' = file.flows.spec
          /\ submitted' = file.tenants.submitted
          /\ completed' = file.tenants.completed
      BY <1>4 DEF LoadFile, Restore, RestoreFlows, RestoreTenants, recoveryVars
    <2>2. \A t \in Tenants : Balanced(submitted', completed', fstate', spec', t)
      BY <1>1, <2>1 DEF SavedBooks
    <2>3. AccountsMatchFlows'
      BY <2>2 DEF AccountsMatchFlows, Balanced, Mine, Done
    <2>4. QED
      BY <1>1, <2>1, <2>3 DEF BooksInOrder, Books, SavedBooks
  <1>5. CASE Restart
    <2>1. /\ file' = file
          /\ fstate' = [f \in Flows |-> "Absent"]
          /\ spec' = [f \in Flows |-> NoSpec]
          /\ submitted' = [t \in Tenants |-> 0]
          /\ completed' = [t \in Tenants |-> 0]
      BY <1>5 DEF Restart
    <2>2. \A t \in Tenants : Balanced(submitted', completed', fstate', spec', t)
      BY <2>1, EmptyBooks
    <2>3. AccountsMatchFlows'
      BY <2>2 DEF AccountsMatchFlows, Balanced, Mine, Done
    <2>4. Books'
      BY <2>1 DEF Books, BooksTyped
    <2>5. QED
      BY <1>1, <2>1, <2>3, <2>4 DEF BooksInOrder, SavedBooks
  <1>6. QED
    BY <1>2, <1>3, <1>4, <1>5 DEF RecoveryNext, GovernorStep, allVars, recoveryVars

(* Each tenant's counters equal the number of its flows submitted and      *)
(* completed, in a process that restored them as in any other (restore).   *)
THEOREM RecoveredBooks == RecoverySpec => []AccountsMatchFlows
  <1>1. RecoveryInit => BooksInOrder
    <2> SUFFICES ASSUME RecoveryInit PROVE BooksInOrder
      OBVIOUS
    <2>1. AccountsMatchFlows
      BY BalancedAccounts, EmptyBooks DEF RecoveryInit, Init
    <2>2. QED
      BY <2>1 DEF RecoveryInit, Init, BooksInOrder, Books, BooksTyped, SavedBooks
  <1>2. BooksInOrder => AccountsMatchFlows
    BY DEF BooksInOrder
  <1>3. QED
    BY <1>1, <1>2, BooksRecovered, PTL DEF RecoverySpec
===============================================================================
