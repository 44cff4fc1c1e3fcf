--------------------------- MODULE CoordinatorProofs --------------------------
(***************************************************************************)
(* The coordinator and its workers drive the governor only through its     *)
(* operations, so that what is proved of the governor alone holds of it    *)
(* behind the server too; and a completed flow has moved all its bytes.    *)
(* The second half is about dispatches: what the scheduler's copy of the   *)
(* flow table, dispatched_, the frames under way and the jobs of a process *)
(* say of a flow's attempts stays in sequence.  The last part is about the *)
(* processes: what is credited to a flow does not come from a process that *)
(* another one has replaced.                                               *)
(***************************************************************************)
EXTENDS Coordinator, GovernorAuthority

AnyBoot == Boots \cup {NoBoot}

(* What a worker may send: its registration, and reports on an attempt;    *)
(* only a job that has moved everything is reported complete.              *)
Reports ==
  [ type : {"Progress", "Completion"}, flow : Flows, attempt : 0..MaxMint,
    fgen : 0..MaxMint, boot : AnyBoot, bytes : 0..MaxBytes ]

UpFrames ==
  { [type |-> "Register"] } \cup
  { m \in Reports : m.type = "Completion" => m.bytes = MaxBytes }

(* What a dispatch carries was read off the flow table at some time.       *)
DownFrame(m) ==
  m.type = "FlowDispatch" =>
    /\ m.attempt \in 0..MaxMint
    /\ m.fgen \in 0..MaxMint
    /\ m.boot \in AnyBoot

DownQueue(s) == (\E X : s \in Seq(X)) /\ \A i \in 1..Len(s) : DownFrame(s[i])

(* A job counts what its backend has moved, and less than everything.      *)
JobInOrder(j) ==
  /\ j = [ attempt |-> j.attempt, fgen |-> j.fgen, boot |-> j.boot, rate |-> j.rate,
           moved |-> j.moved, accum |-> j.accum ]
  /\ j.attempt \in 0..MaxMint
  /\ j.fgen \in 0..MaxMint
  /\ j.boot \in AnyBoot
  /\ j.moved \in 0..(MaxBytes - 1)
  /\ j.accum = j.moved

EntryInOrder(e) ==
  /\ e.worker \in Workers \cup {NoWorker}
  /\ e.attempt \in 0..MaxMint
  /\ e.fgen \in 0..MaxMint
  /\ e.boot \in AnyBoot

(* The server and the workers: types, and what the frames carry.           *)
ThreadsInOrder ==
  /\ proc \in [Boots -> {"down", "joining", "up", "dead"}]
  /\ thread \in [Boots -> {"read", "registered", "slotted", "closed"}]
  /\ slot \in [Workers -> Boots \cup {NoBoot}]

SchedulerInOrder ==
  /\ turn \in {"tick", "list", "send"}
  /\ todo \in SUBSET Flows
  /\ dispatched \in [Flows -> -1..MaxMint]
  /\ \A f \in Flows : EntryInOrder(table[f])

DownInOrder ==
  /\ toWorker = [b \in Boots |-> toWorker[b]]
  /\ \A b \in Boots : DownQueue(toWorker[b]) /\ Len(toWorker[b]) <= MaxFrames

UpInOrder ==
  /\ toCoord \in [Boots -> Seq(UpFrames)]
  /\ \A b \in Boots : Len(toCoord[b]) <= MaxFrames

JobsInOrder ==
  /\ jobs = [b \in Boots |-> [f \in Flows |-> jobs[b][f]]]
  /\ \A b \in Boots, f \in Flows :
       jobs[b][f] # NoJob => proc[b] = "up" /\ JobInOrder(jobs[b][f])

ServerInOrder ==
  ThreadsInOrder /\ SchedulerInOrder /\ DownInOrder /\ UpInOrder /\ JobsInOrder

(* Queues to a worker stay in order when a frame is added or taken.        *)
LEMMA DownAppend ==
  ASSUME NEW s, DownQueue(s), NEW m, DownFrame(m)
  PROVE  DownQueue(Append(s, m)) /\ Len(Append(s, m)) = Len(s) + 1
  <1>1. PICK X : s \in Seq(X)
    BY Zenon DEF DownQueue
  <1>2. s \in Seq(X \cup {m}) /\ m \in X \cup {m}
    BY <1>1
  <1>3. /\ Append(s, m) \in Seq(X \cup {m})
        /\ Len(Append(s, m)) = Len(s) + 1
        /\ \A i \in 1..Len(s) : Append(s, m)[i] = s[i]
        /\ Append(s, m)[Len(s) + 1] = m
    BY <1>2
  <1>4. ASSUME NEW i \in 1..Len(Append(s, m)) PROVE DownFrame(Append(s, m)[i])
    <2>1. i \in 1..Len(s) \/ i = Len(s) + 1
      BY <1>2, <1>3
    <2>2. QED
      BY <1>3, <2>1, Zenon DEF DownQueue
  <1>5. QED
    BY <1>3, <1>4, Zenon DEF DownQueue

(* Taking a frame leaves a queue of frames.                                *)
LEMMA DownTail ==
  ASSUME NEW s, DownQueue(s), s # << >>
  PROVE  DownQueue(Tail(s)) /\ DownFrame(Head(s)) /\ Len(Tail(s)) <= Len(s)
  <1>1. PICK X : s \in Seq(X)
    BY Zenon DEF DownQueue
  <1>2. /\ Tail(s) \in Seq(X)
        /\ Len(Tail(s)) = Len(s) - 1
        /\ Len(s) \in Nat \ {0}
        /\ \A i \in 1..Len(Tail(s)) : Tail(s)[i] = s[i + 1]
        /\ Head(s) = s[1]
    BY <1>1
  <1>3. \A i \in 1..Len(Tail(s)) : i + 1 \in 1..Len(s)
    BY <1>2
  <1>4. QED
    BY <1>2, <1>3 DEF DownQueue

(* So does losing them all.                                                *)
LEMMA DownEmpty == DownQueue(<< >>) /\ Len(<< >>) = 0
  <1>1. << >> \in Seq({}) /\ Len(<< >>) = 0
    OBVIOUS
  <1>2. QED
    BY <1>1 DEF DownQueue

-------------------------------------------------------------------------------
(* All that ever happens to the governor behind the server: a completion   *)
(* is only ever reported with all the bytes.                               *)
Driven ==
  \/ UNCHANGED vars
  \/ \E r \in Resources : AddResource(r)
  \/ \E p \in Paths : AddPath(p)
  \/ \E f \in Flows, s \in Specs : SubmitFlow(f, s)
  \/ \E f \in Flows : CancelFlow(f)
  \/ Tick
  \/ \E w \in Workers, b \in Boots : RegisterWorker(w, b)
  \/ \E f \in Flows, a \in 0..MaxMint, g \in 0..MaxMint, b \in AnyBoot :
       \/ \E done \in 0..MaxBytes : ReportProgress(f, a, g, b, done)
       \/ ReportCompletion(f, a, g, b, MaxBytes)

(* Every step of the server and the workers is such a step of the          *)
(* governor: the frames carry identities in range.                         *)
LEMMA SysDriven == ServerInOrder /\ [SysNext]_sysVars => Driven
  <1> SUFFICES ASSUME ServerInOrder, [SysNext]_sysVars PROVE Driven
    BY Zenon
  <1>1. CASE UNCHANGED sysVars
    BY <1>1, Zenon DEF Driven, sysVars
  <1>2. CASE ClientCall
    BY <1>2, Zenon DEF Driven, ClientCall
  <1>3. CASE Scheduler
    BY <1>3, Zenon DEF Driven, Scheduler, SchedulerTick, SchedulerList, SchedulerSend,
                       SchedulerClean
  <1>4. ASSUME NEW b \in Boots, Connection(b) PROVE Driven
    <2>1. CASE HandleRegister(b)
      <3>1. WorkerOf[b] \in Workers
        BY CoordinatorAssumption, Zenon
      <3>2. RegisterWorker(WorkerOf[b], b)
        BY <2>1, Zenon DEF HandleRegister
      <3>3. QED
        BY <3>1, <3>2, Zenon DEF Driven
    <2>2. CASE TakeSlot(b) \/ SendRegisterAck(b) \/ RejectReport(b) \/ Disconnect(b)
      BY <2>2, Zenon DEF Driven, TakeSlot, SendRegisterAck, RejectReport, Disconnect
    <2>3. CASE HandleReport(b)
      <3> DEFINE m == Head(toCoord[b])
      <3>1. /\ toCoord[b] # << >>
            /\ \/ /\ m.type = "Progress"
                  /\ ReportProgress(m.flow, m.attempt, m.fgen, m.boot, m.bytes)
               \/ /\ m.type = "Completion"
                  /\ ReportCompletion(m.flow, m.attempt, m.fgen, m.boot, m.bytes)
        BY <2>3, Zenon DEF HandleReport, Incoming
      <3>2. m \in UpFrames
        BY <3>1 DEF ServerInOrder, UpInOrder
      <3>3. m \in Reports /\ (m.type = "Completion" => m.bytes = MaxBytes)
        BY <3>1, <3>2 DEF UpFrames
      <3>4. /\ m.flow \in Flows /\ m.attempt \in 0..MaxMint /\ m.fgen \in 0..MaxMint
            /\ m.boot \in AnyBoot /\ m.bytes \in 0..MaxBytes
        BY <3>3, Zenon DEF Reports
      <3>5. CASE m.type = "Progress" /\ ReportProgress(m.flow, m.attempt, m.fgen, m.boot, m.bytes)
        BY <3>4, <3>5, Zenon DEF Driven
      <3>6. CASE m.type = "Completion" /\ ReportCompletion(m.flow, m.attempt, m.fgen, m.boot, m.bytes)
        <4>1. m.bytes = MaxBytes
          BY <3>3, <3>6, Zenon
        <4>2. ReportCompletion(m.flow, m.attempt, m.fgen, m.boot, MaxBytes)
          BY <3>6, <4>1, Zenon
        <4>3. QED
          BY <3>4, <4>2, Zenon DEF Driven
      <3>7. QED
        BY <3>1, <3>5, <3>6, Zenon
    <2>4. QED
      BY <1>4, <2>1, <2>2, <2>3, Zenon DEF Connection
  <1>5. ASSUME NEW b \in Boots, WorkerStart(b) \/ WorkerDies(b) \/ Worker(b) PROVE Driven
    BY <1>5, Zenon DEF Driven, WorkerStart, WorkerDies, Worker, WorkerJoin, WorkerReceive,
                       WorkerStep
  <1>6. QED
    BY <1>1, <1>2, <1>3, <1>4, <1>5, Zenon DEF SysNext

(* Whatever drives the governor is one of its operations.                  *)
LEMMA DrivenStep == Driven => [Next]_vars
  <1> SUFFICES ASSUME Driven PROVE [Next]_vars
    BY Zenon
  <1>1. ASSUME NEW f \in Flows, NEW a \in 0..MaxMint, NEW g \in 0..MaxMint,
               NEW b \in Boots \cup {NoBoot}, NEW done \in 0..MaxBytes,
               ReportProgress(f, a, g, b, done) \/ ReportCompletion(f, a, g, b, done)
        PROVE  Next
    BY <1>1, Zenon DEF Next, WorkerNext
  <1>2. MaxBytes \in 0..MaxBytes
    BY ConstantsAssumption
  <1>3. QED
    BY <1>1, <1>2, Zenon DEF Driven, AnyBoot, Next, CapacityNext, FlowNext, WorkerNext

(* A flow becomes complete with all its bytes and is not touched again.    *)
LEMMA CompletedStep ==
  TypeOK /\ ReservationHistory /\ CompletedMeansTransferred /\ Driven
    => CompletedMeansTransferred'
  <1> SUFFICES ASSUME TypeOK, ReservationHistory, CompletedMeansTransferred, Driven,
                      NEW f \in Flows, fstate'[f] = "Completed"
               PROVE  bytes'[f] = MaxBytes
    BY Zenon DEF CompletedMeansTransferred
  <1>0. /\ fstate[f] = "Completed" => bytes[f] = MaxBytes
        /\ bytes[f] \in 0..MaxBytes
        /\ MaxBytes \in Nat
    BY ConstantsAssumption, Zenon DEF CompletedMeansTransferred, TypeOK
  <1>1. CASE UNCHANGED <<fstate[f], bytes[f]>>
    BY <1>0, <1>1, Zenon
  <1>2. CASE UNCHANGED vars \/ (\E r \in Resources : AddResource(r))
               \/ (\E p \in Paths : AddPath(p))
    BY <1>1, <1>2, Zenon DEF vars, flowVars, AddResource, AddPath
  <1>3. ASSUME NEW e \in Flows, NEW s \in Specs, SubmitFlow(e, s) PROVE bytes'[f] = MaxBytes
    <2>1. bytes' = bytes
      BY <1>3, Zenon DEF SubmitFlow
    <2>2. fstate'[f] = fstate[f] \/ fstate'[f] \in {"Queued", "Reserved"}
      BY <1>3, Zenon DEF SubmitFlow, SubmitDeferred, SubmitAdmitted, TypeOK
    <2>3. QED
      BY <1>1, <2>1, <2>2, Zenon
  <1>4. ASSUME NEW e \in Flows, CancelFlow(e) PROVE bytes'[f] = MaxBytes
    BY <1>1, <1>4, Zenon DEF CancelFlow, TypeOK
  <1>5. CASE Tick
    <2>1. bytes' = bytes /\ fstate'[f] = fstate[f]
      BY <1>5, TickFlows, Zenon DEF Scheduled
    <2>2. QED
      BY <1>1, <2>1, Zenon
  <1>6. ASSUME NEW w \in Workers, NEW b \in Boots, RegisterWorker(w, b)
        PROVE  bytes'[f] = MaxBytes
    <2>1. bytes'[f] = bytes[f] /\ fstate'[f] = fstate[f]
      BY <1>6, RegisterFlows, Zenon
    <2>2. QED
      BY <1>1, <2>1, Zenon
  <1>7. ASSUME NEW e \in Flows, NEW a, NEW g, NEW b, NEW done,
               ReportProgress(e, a, g, b, done)
        PROVE  bytes'[f] = MaxBytes
    <2>1. fstate[e] = "Running" /\ fstate' = fstate
          /\ bytes' = [bytes EXCEPT ![e] = Larger(bytes[e], done)]
      BY <1>7, Zenon DEF ReportProgress, Authorised
    <2>2. QED
      BY <1>1, <2>1, Zenon DEF TypeOK
  <1>8. ASSUME NEW e \in Flows, NEW a, NEW g, NEW b, ReportCompletion(e, a, g, b, MaxBytes)
        PROVE  bytes'[f] = MaxBytes
    <2>1. fstate' = [fstate EXCEPT ![e] = "Completed"]
          /\ bytes' = [bytes EXCEPT ![e] = Larger(bytes[e], MaxBytes)]
      BY <1>8, Zenon DEF ReportCompletion
    <2>2. CASE e = f
      <3>1. Larger(bytes[f], MaxBytes) = MaxBytes
        BY <1>0 DEF Larger
      <3>2. bytes'[f] = Larger(bytes[f], MaxBytes)
        BY <2>1, <2>2, Zenon DEF TypeOK
      <3>3. QED
        BY <3>1, <3>2, Zenon
    <2>3. CASE e # f
      BY <1>1, <2>1, <2>3, Zenon DEF TypeOK
    <2>4. QED
      BY <2>2, <2>3, Zenon
  <1>9. QED
    BY <1>2, <1>3, <1>4, <1>5, <1>6, <1>7, <1>8, Zenon DEF Driven

-------------------------------------------------------------------------------
(* The flow table's entries are in order whenever they are copied.         *)
LEMMA TableEntries ==
  ASSUME TypeOK, ReservationHistory, NEW f \in Flows
  PROVE  EntryInOrder(FlowTable[f])
  <1>1. /\ attempt[f] \in 0..MaxMint
        /\ fgen[f] \in Nat /\ fgen[f] <= minted[f] /\ minted[f] \in 0..MaxMint
        /\ assigned[f] \in Workers \cup {NoWorker}
        /\ assignedBoot[f] \in Boots \cup {NoBoot}
    BY DEF TypeOK, ReservationHistory, FlowHistory
  <1>2. fgen[f] \in 0..MaxMint
    BY <1>1, ConstantsAssumption
  <1>3. QED
    BY <1>1, <1>2, Zenon DEF EntryInOrder, FlowTable, AnyBoot

(* The server starts with no connections and a copy of the empty flow      *)
(* table.                                                                  *)
LEMMA InitInOrder == SysInit /\ TypeOK /\ ReservationHistory => ServerInOrder
  <1> SUFFICES ASSUME SysInit, TypeOK, ReservationHistory PROVE ServerInOrder
    BY Zenon
  <1>1. \A f \in Flows : EntryInOrder(FlowTable[f])
    BY TableEntries, Zenon
  <1>2. QED
    BY <1>1, DownEmpty, CoordinatorAssumption, ConstantsAssumption
    DEF SysInit, ServerInOrder, ThreadsInOrder, SchedulerInOrder, DownInOrder, UpInOrder,
        JobsInOrder

(* A frame goes to a live process, if there is room, or nowhere.           *)
LEMMA SendInOrder ==
  ASSUME DownInOrder, NEW b \in Boots, NEW m, DownFrame(m), SendTo(b, m)
  PROVE  DownInOrder'
  <1>1. CASE UNCHANGED toWorker
    BY <1>1, Zenon DEF DownInOrder
  <1>2. CASE /\ Len(toWorker[b]) < MaxFrames
             /\ toWorker' = [toWorker EXCEPT ![b] = Append(toWorker[b], m)]
    <2>1. DownQueue(toWorker[b])
      BY Zenon DEF DownInOrder
    <2>2. DownQueue(Append(toWorker[b], m)) /\ Len(Append(toWorker[b], m)) = Len(toWorker[b]) + 1
      BY <2>1, DownAppend, Zenon
    <2>3. Len(toWorker[b]) \in Nat
      BY <2>1 DEF DownQueue
    <2>4. Len(Append(toWorker[b], m)) <= MaxFrames
      BY <1>2, <2>2, <2>3, CoordinatorAssumption
    <2>5. QED
      BY <1>2, <2>2, <2>4, Zenon DEF DownInOrder
  <1>3. QED
    BY <1>1, <1>2, Zenon DEF SendTo

(* The process takes a frame.                                              *)
LEMMA TakenInOrder ==
  ASSUME DownInOrder, NEW b \in Boots, toWorker[b] # << >>,
         toWorker' = [toWorker EXCEPT ![b] = Tail(toWorker[b])]
  PROVE  DownInOrder'
  <1>1. DownQueue(toWorker[b]) /\ Len(toWorker[b]) <= MaxFrames
    BY Zenon DEF DownInOrder
  <1>2. DownQueue(Tail(toWorker[b])) /\ Len(Tail(toWorker[b])) <= Len(toWorker[b])
    BY <1>1, DownTail, Zenon
  <1>3. Len(toWorker[b]) \in Nat /\ Len(Tail(toWorker[b])) \in Nat
    BY <1>1, <1>2 DEF DownQueue
  <1>4. Len(Tail(toWorker[b])) <= MaxFrames
    BY <1>1, <1>2, <1>3, CoordinatorAssumption
  <1>5. QED
    BY <1>2, <1>4, Zenon DEF DownInOrder

(* The scheduler thread                                                    *)
LEMMA SchedulerKeepsOrder ==
  TypeOK /\ ReservationHistory /\ ServerInOrder /\ Scheduler => ServerInOrder'
  <1> SUFFICES ASSUME TypeOK, ReservationHistory, ServerInOrder, Scheduler
               PROVE  ServerInOrder'
    BY Zenon
  <1> USE DEF ServerInOrder, channels, workerSide
  <1>0. Scheduler => ThreadsInOrder' /\ UpInOrder' /\ JobsInOrder'
    <2>1. UNCHANGED <<proc, jobs, toCoord, thread, slot>>
      BY Zenon DEF Scheduler, SchedulerTick, SchedulerList, SchedulerSend, SchedulerClean
    <2>2. QED
      BY <2>1, Zenon DEF ThreadsInOrder, UpInOrder, JobsInOrder
  <1>1. CASE SchedulerTick
    BY <1>0, <1>1, Zenon DEF SchedulerTick, SchedulerInOrder, DownInOrder
  <1>2. CASE SchedulerList
    <2>1. SchedulerInOrder'
      BY <1>2, TableEntries, Zenon DEF SchedulerList, SchedulerInOrder
    <2>2. QED
      BY <1>0, <1>2, <2>1, Zenon DEF SchedulerList, DownInOrder
  <1>3. ASSUME NEW f \in Flows, SchedulerSend(f) PROVE ServerInOrder'
    <2> DEFINE e == table[f]
               d == [ type |-> "FlowDispatch", flow |-> f, attempt |-> e.attempt,
                      fgen |-> e.fgen, boot |-> e.boot, rate |-> e.rate ]
               g == [ type |-> "FlowGrant", flow |-> f, rate |-> e.rate ]
    <2>1. EntryInOrder(e)
      BY Zenon DEF SchedulerInOrder
    <2>2. DownFrame(d) /\ DownFrame(g)
      BY <2>1, Zenon DEF EntryInOrder, DownFrame
    <2>3. /\ UNCHANGED <<turn, table>>
          /\ todo' = todo \ {f}
      BY <1>3, Zenon DEF SchedulerSend
    <2>4. \/ UNCHANGED <<toWorker, dispatched>>
          \/ /\ Dispatchable(e)
             /\ slot[e.worker] # NoBoot
             /\ \/ SendTo(slot[e.worker], d) /\ dispatched' = [dispatched EXCEPT ![f] = e.attempt]
                \/ SendTo(slot[e.worker], g) /\ UNCHANGED dispatched
      BY <1>3, Zenon DEF SchedulerSend
    <2>5. CASE UNCHANGED <<toWorker, dispatched>>
      BY <1>0, <2>3, <2>5, Zenon DEF SchedulerInOrder, DownInOrder
    <2>6. CASE /\ Dispatchable(e)
               /\ slot[e.worker] # NoBoot
               /\ \/ SendTo(slot[e.worker], d) /\ dispatched' = [dispatched EXCEPT ![f] = e.attempt]
                  \/ SendTo(slot[e.worker], g) /\ UNCHANGED dispatched
      <3>1. e.worker \in Workers
        BY <2>1, <2>6, Zenon DEF EntryInOrder, Dispatchable
      <3>2. slot[e.worker] \in Boots
        BY <2>6, <3>1, Zenon DEF ThreadsInOrder
      <3>3. DownInOrder'
        BY <2>2, <2>6, <3>2, SendInOrder, Zenon
      <3>4. e.attempt \in -1..MaxMint
        BY <2>1, ConstantsAssumption DEF EntryInOrder
      <3>5. SchedulerInOrder'
        BY <2>3, <2>6, <3>4, Zenon DEF SchedulerInOrder
      <3>6. QED
        BY <1>0, <3>3, <3>5, Zenon
    <2>7. QED
      BY <2>4, <2>5, <2>6, Zenon
  <1>4. CASE SchedulerClean
    BY <1>0, <1>4, ConstantsAssumption DEF SchedulerClean, SchedulerInOrder, DownInOrder
  <1>5. QED
    BY <1>1, <1>2, <1>3, <1>4, Zenon DEF Scheduler

(* The thread of a connection                                              *)
LEMMA ConnectionKeepsOrder ==
  ASSUME ServerInOrder, NEW b \in Boots, Connection(b)
  PROVE  ServerInOrder'
  <1> USE DEF ServerInOrder
  <1>0. SchedulerInOrder' /\ JobsInOrder'
    <2>1. UNCHANGED <<schedVars, workerSide>>
      BY Zenon DEF Connection, HandleRegister, TakeSlot, SendRegisterAck, HandleReport,
             RejectReport, Disconnect
    <2>2. QED
      BY <2>1, Zenon DEF schedVars, workerSide, SchedulerInOrder, JobsInOrder
  <1>1. ASSUME toCoord[b] # << >>, Consume(b) PROVE UpInOrder'
    <2>1. toCoord[b] \in Seq(UpFrames) /\ Len(toCoord[b]) <= MaxFrames
      BY Zenon DEF UpInOrder
    <2>2. Tail(toCoord[b]) \in Seq(UpFrames) /\ Len(Tail(toCoord[b])) <= MaxFrames
      BY <1>1, <2>1, CoordinatorAssumption
    <2>3. toCoord' = [toCoord EXCEPT ![b] = Tail(toCoord[b])]
      BY <1>1, Zenon DEF Consume
    <2>4. QED
      BY <2>2, <2>3, Zenon DEF UpInOrder
  <1>2. CASE HandleRegister(b)
    <2>1. /\ toCoord[b] # << >>
          /\ Consume(b)
          /\ thread' = [thread EXCEPT ![b] = "registered"]
          /\ UNCHANGED <<toWorker, slot, proc>>
      BY <1>2, Zenon DEF HandleRegister, Incoming, workerSide
    <2>2. QED
      BY <1>0, <1>1, <2>1, Zenon DEF ThreadsInOrder, DownInOrder
  <1>3. CASE TakeSlot(b)
    <2>1. WorkerOf[b] \in Workers
      BY CoordinatorAssumption, Zenon
    <2>2. QED
      BY <1>0, <1>3, <2>1, Zenon
      DEF TakeSlot, workerSide, channels, ThreadsInOrder, DownInOrder, UpInOrder
  <1>4. CASE SendRegisterAck(b)
    <2>1. DownFrame([type |-> "RegisterAck"])
      BY Zenon DEF DownFrame
    <2>2. DownInOrder'
      BY <1>4, <2>1, SendInOrder, Zenon DEF SendRegisterAck
    <2>3. QED
      BY <1>0, <1>4, <2>2, Zenon DEF SendRegisterAck, workerSide, ThreadsInOrder, UpInOrder
  <1>5. CASE HandleReport(b) \/ RejectReport(b)
    <2>1. /\ toCoord[b] # << >>
          /\ Consume(b)
          /\ UNCHANGED <<toWorker, thread, slot, proc>>
      BY <1>5, Zenon DEF HandleReport, RejectReport, Incoming, workerSide
    <2>2. QED
      BY <1>0, <1>1, <2>1, Zenon DEF ThreadsInOrder, DownInOrder
  <1>6. CASE Disconnect(b)
    BY <1>0, <1>6, Zenon
    DEF Disconnect, workerSide, channels, ThreadsInOrder, DownInOrder, UpInOrder
  <1>7. QED
    BY <1>2, <1>3, <1>4, <1>5, <1>6, Zenon DEF Connection

(* A process that is gone has no jobs and no frames to read.               *)
LEMMA GoneInOrder ==
  ASSUME ServerInOrder, NEW b \in Boots, Gone(b), UNCHANGED <<thread, slot>>
  PROVE  ThreadsInOrder' /\ DownInOrder' /\ JobsInOrder'
  <1> USE DEF ServerInOrder, Gone
  <1>1. ThreadsInOrder'
    BY Zenon DEF ThreadsInOrder
  <1>2. DownInOrder'
    BY DownEmpty, CoordinatorAssumption DEF DownInOrder
  <1>3. JobsInOrder'
    <2>1. jobs = [c \in Boots |-> [f \in Flows |-> jobs[c][f]]]
      BY Zenon DEF JobsInOrder
    <2>2. jobs' = [c \in Boots |-> IF c = b THEN [f \in Flows |-> NoJob]
                                            ELSE [f \in Flows |-> jobs[c][f]]]
      BY <2>1, Zenon
    <2>3. \A c \in Boots, f \in Flows :
            jobs'[c][f] # NoJob => c # b /\ jobs'[c][f] = jobs[c][f]
      BY <2>2
    <2>4. \A c \in Boots : c # b => proc'[c] = proc[c]
      BY Zenon DEF ThreadsInOrder
    <2>5. jobs' = [c \in Boots |-> [f \in Flows |-> jobs'[c][f]]]
      BY <2>2, Zenon
    <2>6. QED
      BY <2>3, <2>4, <2>5, Zenon DEF JobsInOrder
  <1>4. QED
    BY <1>1, <1>2, <1>3, Zenon

(* The life of a process                                                   *)
LEMMA ProcessKeepsOrder ==
  ASSUME ServerInOrder, NEW b \in Boots,
         WorkerStart(b) \/ WorkerDies(b) \/ WorkerJoin(b)
  PROVE  ServerInOrder'
  <1> USE DEF ServerInOrder
  <1>0. SchedulerInOrder'
    <2>1. UNCHANGED schedVars
      BY Zenon DEF WorkerStart, WorkerDies, WorkerJoin
    <2>2. QED
      BY <2>1, Zenon DEF schedVars, SchedulerInOrder
  <1>1. CASE WorkerStart(b)
    <2>1. [type |-> "Register"] \in UpFrames
      BY Zenon DEF UpFrames
    <2>2. <<[type |-> "Register"]>> \in Seq(UpFrames) /\ Len(<<[type |-> "Register"]>>) = 1
      BY <2>1
    <2>3. UpInOrder'
      BY <1>1, <2>2, CoordinatorAssumption DEF WorkerStart, UpInOrder
    <2>4. QED
      BY <1>0, <1>1, <2>3, Zenon DEF WorkerStart, ThreadsInOrder, DownInOrder, JobsInOrder
  <1>2. CASE WorkerDies(b)
    <2>1. PICK n \in 0..Len(toCoord[b]) :
            toCoord' = [toCoord EXCEPT ![b] = SubSeq(toCoord[b], 1, n)]
      BY <1>2, Zenon DEF WorkerDies
    <2>2. toCoord[b] \in Seq(UpFrames) /\ Len(toCoord[b]) <= MaxFrames
      BY Zenon DEF UpInOrder
    <2>3. /\ SubSeq(toCoord[b], 1, n) \in Seq(UpFrames)
          /\ Len(SubSeq(toCoord[b], 1, n)) <= MaxFrames
      BY <2>1, <2>2, CoordinatorAssumption
    <2>4. UpInOrder'
      BY <2>1, <2>3, Zenon DEF UpInOrder
    <2>5. QED
      BY <1>0, <1>2, <2>4, GoneInOrder, Zenon DEF WorkerDies
  <1>3. CASE WorkerJoin(b)
    <2>1. UpInOrder'
      BY <1>3, Zenon DEF WorkerJoin, UpInOrder
    <2>2. CASE Gone(b)
      BY <1>0, <1>3, <2>1, <2>2, GoneInOrder, Zenon DEF WorkerJoin
    <2>3. CASE /\ proc' = [proc EXCEPT ![b] = "up"]
               /\ toWorker' = [toWorker EXCEPT ![b] = Tail(toWorker[b])]
               /\ UNCHANGED jobs
      <3>1. toWorker[b] # << >> /\ UNCHANGED <<thread, slot>>
        BY <1>3, Zenon DEF WorkerJoin
      <3>2. DownInOrder'
        BY <2>3, <3>1, TakenInOrder, Zenon
      <3>3. ThreadsInOrder' /\ JobsInOrder'
        BY <2>3, <3>1, Zenon DEF ThreadsInOrder, JobsInOrder
      <3>4. QED
        BY <1>0, <2>1, <3>2, <3>3, Zenon
    <2>4. QED
      BY <1>3, <2>2, <2>3, Zenon DEF WorkerJoin
  <1>4. QED
    BY <1>1, <1>2, <1>3, Zenon

(* A live process changes one of its jobs.                                 *)
LEMMA JobChanged ==
  ASSUME JobsInOrder, NEW b \in Boots, proc[b] = "up", NEW x, NEW j,
         j # NoJob /\ x \in Flows => JobInOrder(j),
         jobs' = [jobs EXCEPT ![b][x] = j], UNCHANGED proc
  PROVE  JobsInOrder'
  <1>1. jobs = [c \in Boots |-> [f \in Flows |-> jobs[c][f]]]
    BY Zenon DEF JobsInOrder
  <1>2. jobs' = [c \in Boots |-> IF c = b THEN [jobs[b] EXCEPT ![x] = j] ELSE jobs[c]]
    BY <1>1, Zenon
  <1>3. jobs[b] = [f \in Flows |-> jobs[b][f]]
    BY <1>1, Zenon
  <1>4. [jobs[b] EXCEPT ![x] = j] = [f \in Flows |-> IF f = x THEN j ELSE jobs[b][f]]
    BY <1>3, Zenon
  <1>5. \A c \in Boots : c # b => jobs'[c] = [f \in Flows |-> jobs[c][f]]
    BY <1>1, <1>2, Zenon
  <1>6. jobs'[b] = [f \in Flows |-> IF f = x THEN j ELSE jobs[b][f]]
    BY <1>2, <1>4, Zenon
  <1>7. \A c \in Boots : jobs'[c] = [f \in Flows |-> jobs'[c][f]]
    BY <1>5, <1>6
  <1>8. jobs' = [c \in Boots |-> [f \in Flows |-> jobs'[c][f]]]
    BY <1>2, <1>7, Zenon
  <1>9. ASSUME NEW c \in Boots, NEW f \in Flows, jobs'[c][f] # NoJob
        PROVE  proc'[c] = "up" /\ JobInOrder(jobs'[c][f])
    <2>1. CASE c = b /\ f = x
      BY <1>6, <1>9, <2>1, Zenon
    <2>2. CASE c # b \/ f # x
      <3>1. jobs'[c][f] = jobs[c][f]
        BY <1>5, <1>6, <2>2
      <3>2. QED
        BY <1>9, <3>1, Zenon DEF JobsInOrder
    <2>3. QED
      BY <2>1, <2>2, Zenon
  <1>10. QED
    BY <1>8, <1>9, Zenon DEF JobsInOrder

(* A dispatch starts a job at nothing moved; a grant changes a job's rate. *)
LEMMA ReceiveKeepsOrder ==
  ASSUME ServerInOrder, NEW b \in Boots, WorkerReceive(b)
  PROVE  ServerInOrder'
  <1> USE DEF ServerInOrder
  <1> DEFINE m == Head(toWorker[b])
             old == jobs[b][m.flow]
             new == IF m.type = "FlowDispatch" THEN JobFor(old, m)
                    ELSE IF old = NoJob THEN NoJob ELSE [old EXCEPT !.rate = m.rate]
  <1>1. /\ proc[b] = "up"
        /\ toWorker[b] # << >>
        /\ toWorker' = [toWorker EXCEPT ![b] = Tail(toWorker[b])]
        /\ UNCHANGED <<proc, toCoord, thread, slot, schedVars>>
    BY Zenon DEF WorkerReceive
  <1>2. jobs' = [jobs EXCEPT ![b][m.flow] = new]
    BY Zenon DEF WorkerReceive
  <1>3. DownFrame(m)
    BY <1>1, DownTail, Zenon DEF DownInOrder
  <1>4. ASSUME new # NoJob, m.flow \in Flows PROVE JobInOrder(new)
    <2>1. CASE m.type = "FlowDispatch"
      <3>1. MaxBytes - 1 \in Nat
        BY CoordinatorAssumption, ConstantsAssumption
      <3>2. QED
        BY <1>3, <2>1, <3>1 DEF DownFrame, JobFor, NewJob, JobInOrder
    <2>2. CASE m.type # "FlowDispatch"
      <3>1. old # NoJob /\ new = [old EXCEPT !.rate = m.rate]
        BY <1>4, <2>2, Zenon
      <3>2. JobInOrder(old)
        BY <1>4, <3>1, Zenon DEF JobsInOrder
      <3>3. QED
        BY <3>1, <3>2, Zenon DEF JobInOrder
    <2>3. QED
      BY <2>1, <2>2, Zenon
  <1>5. JobsInOrder'
    BY <1>1, <1>2, <1>4, JobChanged, Zenon
  <1>6. DownInOrder'
    BY <1>1, TakenInOrder, Zenon
  <1>7. QED
    BY <1>1, <1>5, <1>6, Zenon DEF schedVars, ThreadsInOrder, SchedulerInOrder, UpInOrder

(* A job that moves some of what is left is in order or is done, and is    *)
(* reported accordingly.                                                   *)
LEMMA JobMoves ==
  ASSUME NEW old, JobInOrder(old), NEW n \in 1..(MaxBytes - old.moved), NEW f \in Flows
  PROVE  LET j == [old EXCEPT !.moved = @ + n, !.accum = @ + n]
             type == IF j.moved = MaxBytes THEN "Completion" ELSE "Progress"
         IN  /\ JobAfter(j) # NoJob => JobInOrder(JobAfter(j))
             /\ Report(type, f, j) \in UpFrames
  <1> DEFINE j == [old EXCEPT !.moved = @ + n, !.accum = @ + n]
             type == IF j.moved = MaxBytes THEN "Completion" ELSE "Progress"
             k == old.moved + n
  <1>1. old = [ attempt |-> old.attempt, fgen |-> old.fgen, boot |-> old.boot,
                rate |-> old.rate, moved |-> old.moved, accum |-> old.accum ]
    BY Zenon DEF JobInOrder
  <1>2. /\ old.attempt \in 0..MaxMint /\ old.fgen \in 0..MaxMint /\ old.boot \in AnyBoot
        /\ old.moved \in 0..(MaxBytes - 1) /\ old.accum = old.moved
    BY Zenon DEF JobInOrder
  <1>3. j = [ attempt |-> old.attempt, fgen |-> old.fgen, boot |-> old.boot,
              rate |-> old.rate, moved |-> k, accum |-> k ]
    <2>1. old.accum + n = k
      BY <1>2, Zenon
    <2>2. j = [old EXCEPT !.moved = k, !.accum = k]
      BY <2>1, Zenon
    <2> HIDE DEF j, k
    <2>3. DOMAIN old = {"attempt", "fgen", "boot", "rate", "moved", "accum"}
      BY <1>1, Zenon
    <2>4. j = [x \in DOMAIN old |-> IF x \in {"moved", "accum"} THEN k ELSE old[x]]
      BY <1>1, <2>2, <2>3, Zenon
    <2>5. QED
      BY <2>3, <2>4, Zenon
  <1>4. k \in 0..MaxBytes /\ (k # MaxBytes => k \in 0..(MaxBytes - 1))
    BY <1>2, ConstantsAssumption
  <1>5. /\ j = [ attempt |-> j.attempt, fgen |-> j.fgen, boot |-> j.boot,
                 rate |-> j.rate, moved |-> j.moved, accum |-> j.accum ]
        /\ j.attempt = old.attempt /\ j.fgen = old.fgen /\ j.boot = old.boot
        /\ j.moved = k /\ j.accum = k
    BY <1>3, Zenon
  <1> HIDE DEF j, k
  <1>6. JobAfter(j) # NoJob => JobInOrder(JobAfter(j))
    BY <1>2, <1>4, <1>5, Zenon DEF JobAfter, JobInOrder
  <1>7. Report(type, f, j) \in Reports
    BY <1>2, <1>4, <1>5, Zenon DEF Report, Reports
  <1>8. Report(type, f, j).type = "Completion" => Report(type, f, j).bytes = MaxBytes
    BY <1>5, Zenon DEF Report
  <1>9. QED
    BY <1>6, <1>7, <1>8, Zenon DEF UpFrames, j

(* The worker moves bytes and reports them.                                *)
LEMMA WorkKeepsOrder ==
  ASSUME ServerInOrder, NEW b \in Boots, NEW f \in Flows, WorkerStep(b, f)
  PROVE  ServerInOrder'
  <1> USE DEF ServerInOrder
  <1>1. /\ proc[b] = "up"
        /\ jobs[b][f] # NoJob
        /\ Len(toCoord[b]) < MaxFrames
        /\ UNCHANGED <<proc, toWorker, thread, slot, schedVars>>
    BY Zenon DEF WorkerStep
  <1>2. JobInOrder(jobs[b][f])
    BY <1>1, Zenon DEF JobsInOrder
  <1> DEFINE old == jobs[b][f]
             j(n) == [old EXCEPT !.moved = @ + n, !.accum = @ + n]
             type(n) == IF j(n).moved = MaxBytes THEN "Completion" ELSE "Progress"
  <1>3. PICK n \in 1..(MaxBytes - old.moved) :
          /\ jobs' = [jobs EXCEPT ![b][f] = JobAfter(j(n))]
          /\ toCoord' = [toCoord EXCEPT ![b] = Append(toCoord[b], Report(type(n), f, j(n)))]
    BY Zenon DEF WorkerStep
  <1>4. /\ JobAfter(j(n)) # NoJob => JobInOrder(JobAfter(j(n)))
        /\ Report(type(n), f, j(n)) \in UpFrames
    BY <1>2, <1>3, JobMoves, Zenon
  <1>5. JobAfter(j(n)) # NoJob => JobInOrder(JobAfter(j(n)))
    BY <1>4, Zenon
  <1> HIDE DEF j, type
  <1>6. JobsInOrder'
    BY <1>1, <1>3, <1>5, JobChanged, Zenon
  <1>7. Report(type(n), f, j(n)) \in UpFrames
    BY <1>4, Zenon
  <1>8. UpInOrder'
    <2>1. toCoord[b] \in Seq(UpFrames)
      BY Zenon DEF UpInOrder
    <2>2. /\ Append(toCoord[b], Report(type(n), f, j(n))) \in Seq(UpFrames)
          /\ Len(Append(toCoord[b], Report(type(n), f, j(n)))) <= MaxFrames
      BY <1>1, <1>7, <2>1, CoordinatorAssumption
    <2>3. QED
      BY <1>3, <2>2, Zenon DEF UpInOrder
  <1>9. QED
    BY <1>1, <1>6, <1>8, Zenon DEF schedVars, ThreadsInOrder, SchedulerInOrder, DownInOrder

(* Every step keeps the server and the workers in order.                   *)
LEMMA StepInOrder ==
  TypeOK /\ ReservationHistory /\ ServerInOrder /\ [SysNext]_sysVars => ServerInOrder'
  <1> SUFFICES ASSUME TypeOK, ReservationHistory, ServerInOrder, [SysNext]_sysVars
               PROVE  ServerInOrder'
    BY Zenon
  <1>1. CASE UNCHANGED sysVars \/ ClientCall
    <2>1. UNCHANGED serverVars
      BY <1>1, Zenon DEF sysVars, ClientCall
    <2>2. QED
      BY <2>1, Zenon
      DEF serverVars, workerSide, channels, schedVars, ServerInOrder, ThreadsInOrder,
          SchedulerInOrder, DownInOrder, UpInOrder, JobsInOrder
  <1>2. CASE Scheduler
    BY <1>2, SchedulerKeepsOrder, Zenon
  <1>3. ASSUME NEW b \in Boots, Connection(b) PROVE ServerInOrder'
    BY <1>3, ConnectionKeepsOrder, Zenon
  <1>4. ASSUME NEW b \in Boots, WorkerStart(b) \/ WorkerDies(b) \/ Worker(b)
        PROVE  ServerInOrder'
    BY <1>4, ProcessKeepsOrder, ReceiveKeepsOrder, WorkKeepsOrder, Zenon DEF Worker
  <1>5. QED
    BY <1>1, <1>2, <1>3, <1>4, Zenon DEF SysNext

(* The inductive invariant of the composed system.                         *)
SystemInOrder == TypeOK /\ ReservationHistory /\ ServerInOrder

(* The governor's invariant and the order of the frames, jobs and copies   *)
(* around it support each other: the frames carry identities of the flow   *)
(* table, and the flow table changes only as the frames say.               *)
THEOREM SystemInvariant == SysSpec => []SystemInOrder
  <1>1. SysInit => SystemInOrder
    BY InitTypeOK, InitHistory, InitInOrder, Zenon DEF SysInit, SystemInOrder
  <1>2. SystemInOrder /\ [SysNext]_sysVars => SystemInOrder'
    BY SysDriven, DrivenStep, StepInvariant, StepInOrder, Zenon DEF SystemInOrder
  <1>3. QED
    BY <1>1, <1>2, PTL DEF SysSpec

(* The server's threads and the workers take the governor only through     *)
(* steps of its own specification, so whatever is proved of the governor   *)
(* alone holds of it in the running system.                                *)
THEOREM SystemImplementsGovernor == SysSpec => Spec
  <1>1. SysInit => Init
    BY Zenon DEF SysInit
  <1>2. SystemInOrder /\ [SysNext]_sysVars => [Next]_vars
    BY SysDriven, DrivenStep, Zenon DEF SystemInOrder
  <1>3. QED
    BY <1>1, <1>2, SystemInvariant, PTL DEF SysSpec, Spec

(* Type correctness of the server and the workers: frames under way stay   *)
(* within the buffers, and only a live process has jobs.                   *)
THEOREM SystemTyped == SysSpec => []SysTypeOK
  <1>1. ServerInOrder => SysTypeOK
    BY Zenon DEF ServerInOrder, ThreadsInOrder, SchedulerInOrder, DownInOrder, UpInOrder,
           JobsInOrder, JobInOrder, SysTypeOK
  <1>2. QED
    BY <1>1, SystemInvariant, PTL DEF SystemInOrder

(* A flow the governor calls Completed has moved all its bytes, whatever   *)
(* was dispatched again, died or came late: report_completion compares no  *)
(* byte counts, so this rests on what the workers send.                    *)
THEOREM CompletionIsWhole == SysSpec => []CompletedMeansTransferred
  <1>1. SysInit => CompletedMeansTransferred
    BY Zenon DEF SysInit, Init, CompletedMeansTransferred
  <1>2. SystemInOrder /\ CompletedMeansTransferred /\ [SysNext]_sysVars
          => CompletedMeansTransferred'
    BY SysDriven, CompletedStep, Zenon DEF SystemInOrder
  <1>3. QED
    BY <1>1, <1>2, SystemInvariant, PTL DEF SysSpec

-------------------------------------------------------------------------------
(* Dispatches                                                              *)

(* Attempt c may be given to a process that was given attempt a of a flow  *)
(* with demands s.                                                         *)
Follows(s, a, c) == a < c \/ (a = c /\ Interruptible(s))

(* Frame m dispatches flow f.                                              *)
DispatchOf(m, f) == m.type = "FlowDispatch" /\ m.flow = f

(* The attempts of flow f a process works on, in job j, or has still to    *)
(* read of, in queue q.                                                    *)
UnderWay(f, j, q, a) ==
  \/ j # NoJob /\ j.attempt = a
  \/ \E i \in 1..Len(q) : DispatchOf(q[i], f) /\ q[i].attempt = a

(* They follow one another.                                                *)
InLine(s, f, j, q) ==
  /\ \A i \in 1..Len(q) :
       j # NoJob /\ DispatchOf(q[i], f) => Follows(s, j.attempt, q[i].attempt)
  /\ \A i \in 1..Len(q), k \in 1..Len(q) :
       i < k /\ DispatchOf(q[i], f) /\ DispatchOf(q[k], f) =>
         Follows(s, q[i].attempt, q[k].attempt)

(* A frame is added: to the line if it dispatches the flow.                *)
LEMMA LineAppend ==
  ASSUME NEW s, NEW f, NEW j, NEW q, NEW m, DownQueue(q), InLine(s, f, j, q),
         DispatchOf(m, f) =>
           \A a : UnderWay(f, j, q, a) => Follows(s, a, m.attempt)
  PROVE  /\ InLine(s, f, j, Append(q, m))
         /\ \A a : UnderWay(f, j, Append(q, m), a) =>
              UnderWay(f, j, q, a) \/ (DispatchOf(m, f) /\ a = m.attempt)
  <1> DEFINE n == Len(q)
             r == Append(q, m)
  <1>1. PICK X : q \in Seq(X)
    BY Zenon DEF DownQueue
  <1>2. q \in Seq(X \cup {m}) /\ m \in X \cup {m}
    BY <1>1
  <1>3. /\ Len(r) = n + 1 /\ n \in Nat
        /\ \A i \in 1..n : r[i] = q[i]
        /\ r[n + 1] = m
    BY <1>2
  <1>4. \A i \in 1..Len(r) : i \in 1..n \/ i = n + 1
    BY <1>3
  <1>5. \A i \in 1..n : DispatchOf(m, f) /\ DispatchOf(q[i], f)
                           => Follows(s, q[i].attempt, m.attempt)
    BY Zenon DEF UnderWay
  <1>6. j # NoJob /\ DispatchOf(m, f) => Follows(s, j.attempt, m.attempt)
    BY Zenon DEF UnderWay
  <1> HIDE DEF r, n
  <1>7. ASSUME NEW i \in 1..Len(r), j # NoJob, DispatchOf(r[i], f)
        PROVE  Follows(s, j.attempt, r[i].attempt)
    <2>1. CASE i \in 1..n
      BY <1>3, <1>7, <2>1, Zenon DEF InLine, n
    <2>2. CASE i = n + 1
      BY <1>3, <1>6, <1>7, <2>2, Zenon
    <2>3. QED
      BY <1>4, <2>1, <2>2, Zenon
  <1>8. ASSUME NEW i \in 1..Len(r), NEW k \in 1..Len(r), i < k,
               DispatchOf(r[i], f), DispatchOf(r[k], f)
        PROVE  Follows(s, r[i].attempt, r[k].attempt)
    <2>1. i \in 1..n
      BY <1>3, <1>8
    <2>2. r[i] = q[i]
      BY <1>3, <2>1, Zenon
    <2>3. CASE k \in 1..n
      <3>1. r[k] = q[k]
        BY <1>3, <2>3, Zenon
      <3>2. QED
        BY <1>8, <2>1, <2>2, <2>3, <3>1, Zenon DEF InLine, n
    <2>4. CASE k = n + 1
      BY <1>3, <1>5, <1>8, <2>1, <2>2, <2>4, Zenon
    <2>5. QED
      BY <1>4, <2>3, <2>4, Zenon
  <1>9. ASSUME NEW a, UnderWay(f, j, r, a)
        PROVE  UnderWay(f, j, q, a) \/ (DispatchOf(m, f) /\ a = m.attempt)
    <2>1. CASE j # NoJob /\ j.attempt = a
      BY <2>1, Zenon DEF UnderWay
    <2>2. ASSUME NEW i \in 1..Len(r), DispatchOf(r[i], f), r[i].attempt = a
          PROVE  UnderWay(f, j, q, a) \/ (DispatchOf(m, f) /\ a = m.attempt)
      <3>1. CASE i \in 1..n
        <4>1. r[i] = q[i]
          BY <1>3, <3>1, Zenon
        <4>2. QED
          BY <2>2, <3>1, <4>1, Zenon DEF UnderWay, n
      <3>2. CASE i = n + 1
        BY <1>3, <2>2, <3>2, Zenon
      <3>3. QED
        BY <1>4, <3>1, <3>2, Zenon
    <2>3. QED
      BY <1>9, <2>1, <2>2, Zenon DEF UnderWay
  <1>10. QED
    BY <1>7, <1>8, <1>9, Zenon DEF InLine, r

(* A frame is taken: the process keeps its job, loses it, or starts the    *)
(* attempt it was dispatched.                                              *)
LEMMA LineTail ==
  ASSUME NEW s, NEW f, NEW j, NEW k, NEW q, DownQueue(q), q # << >>, InLine(s, f, j, q),
         \/ k = NoJob
         \/ j # NoJob /\ k.attempt = j.attempt
         \/ DispatchOf(Head(q), f) /\ k.attempt = Head(q).attempt
  PROVE  /\ InLine(s, f, k, Tail(q))
         /\ \A a : UnderWay(f, k, Tail(q), a) => UnderWay(f, j, q, a)
  <1> DEFINE r == Tail(q)
  <1>1. PICK X : q \in Seq(X)
    BY Zenon DEF DownQueue
  <1>2. /\ Len(q) \in Nat \ {0} /\ Len(r) = Len(q) - 1
        /\ \A i \in 1..Len(r) : r[i] = q[i + 1]
        /\ Head(q) = q[1]
    BY <1>1
  <1> HIDE DEF r
  <1>3. \A i \in 1..Len(r) : i + 1 \in 1..Len(q) /\ 1 < i + 1
    BY <1>2
  <1>4. 1 \in 1..Len(q)
    BY <1>2
  <1>5. \A a : UnderWay(f, k, r, a) => UnderWay(f, j, q, a)
    <2>1. \A i \in 1..Len(r) : DispatchOf(r[i], f) => UnderWay(f, j, q, r[i].attempt)
      BY <1>2, <1>3, Zenon DEF UnderWay
    <2>2. k # NoJob => UnderWay(f, j, q, k.attempt)
      BY <1>2, <1>4, Zenon DEF UnderWay
    <2>3. QED
      BY <2>1, <2>2, Zenon DEF UnderWay
  <1>6. ASSUME NEW i \in 1..Len(r), k # NoJob, DispatchOf(r[i], f)
        PROVE  Follows(s, k.attempt, r[i].attempt)
    <2>1. r[i] = q[i + 1] /\ i + 1 \in 1..Len(q) /\ 1 < i + 1
      BY <1>2, <1>3, Zenon
    <2>2. CASE j # NoJob /\ k.attempt = j.attempt
      BY <1>6, <2>1, <2>2, Zenon DEF InLine
    <2>3. CASE DispatchOf(Head(q), f) /\ k.attempt = Head(q).attempt
      BY <1>2, <1>4, <1>6, <2>1, <2>3, Zenon DEF InLine
    <2>4. QED
      BY <1>6, <2>2, <2>3, Zenon
  <1>7. ASSUME NEW i \in 1..Len(r), NEW l \in 1..Len(r), i < l,
               DispatchOf(r[i], f), DispatchOf(r[l], f)
        PROVE  Follows(s, r[i].attempt, r[l].attempt)
    <2>1. /\ r[i] = q[i + 1] /\ i + 1 \in 1..Len(q)
          /\ r[l] = q[l + 1] /\ l + 1 \in 1..Len(q)
      BY <1>2, <1>3, Zenon
    <2>2. i + 1 < l + 1
      BY <1>2, <1>7
    <2>3. QED
      BY <1>7, <2>1, <2>2, Zenon DEF InLine
  <1>8. QED
    BY <1>5, <1>6, <1>7, Zenon DEF InLine, r

(* The job moves on, or is done.                                           *)
LEMMA LineJob ==
  ASSUME NEW s, NEW f, NEW j, NEW k, NEW q, InLine(s, f, j, q), j # NoJob,
         k # NoJob => k.attempt = j.attempt
  PROVE  /\ InLine(s, f, k, q)
         /\ \A a : UnderWay(f, k, q, a) => UnderWay(f, j, q, a)
  BY Zenon DEF InLine, UnderWay

(* A process that is gone has nothing to do.                               *)
LEMMA LineEmpty ==
  ASSUME NEW s, NEW f
  PROVE  InLine(s, f, NoJob, << >>) /\ \A a : ~ UnderWay(f, NoJob, << >>, a)
  <1>1. Len(<< >>) = 0 /\ 1..0 = {}
    OBVIOUS
  <1>2. QED
    BY <1>1, Zenon DEF InLine, UnderWay

-------------------------------------------------------------------------------
(* The states a flow that is not interrupted goes on to from Running, as   *)
(* long as it is not retried.                                              *)
Lasting == TerminalFlow \cup {"Running"}

(* Attempt a of flow f was dispatched: it is no later than the one in the  *)
(* scheduler's copy, and if it is that one and the flow is not interrupted *)
(* the scheduler knows that it was, or will not dispatch the flow again.   *)
Issued(f, a) ==
  /\ a \in Nat
  /\ fstate[f] # "Absent"
  /\ a <= table[f].attempt
  /\ ~ Interruptible(spec[f]) =>
       /\ a = table[f].attempt =>
            \/ table[f].state \in TerminalFlow
            \/ table[f].state = "Running" /\ dispatched[f] = a
       /\ a = attempt[f] => fstate[f] \in Lasting

(* How the scheduler's copy lags behind the flow table.                    *)
Copied(f) ==
  /\ table[f].attempt \in Nat
  /\ table[f].attempt <= attempt[f]
  /\ table[f].state # "Absent" => fstate[f] # "Absent"
  /\ table[f].state \in TerminalFlow => fstate[f] \in TerminalFlow
  /\ /\ ~ Interruptible(spec[f])
     /\ table[f].state = "Running"
     /\ table[f].attempt = attempt[f]
     => fstate[f] \in Lasting

InSequence(f) ==
  /\ Copied(f)
  /\ \A b \in Boots :
       /\ InLine(spec[f], f, jobs[b][f], toWorker[b])
       /\ \A a : UnderWay(f, jobs[b][f], toWorker[b], a) => Issued(f, a)

(* The invariant behind DispatchedOnce.                                    *)
Sequenced == \A f \in Flows : InSequence(f)

(* What the governor may do to a flow behind the scheduler's back: its     *)
(* attempt only grows, and a flow that is running and not interrupted goes *)
(* on running, settles, or is retried.                                     *)
Steady(f) ==
  /\ attempt[f] \in Nat /\ attempt'[f] \in Nat /\ attempt[f] <= attempt'[f]
  /\ fstate[f] # "Absent" => fstate'[f] # "Absent" /\ spec'[f] = spec[f]
  /\ fstate[f] \in TerminalFlow => fstate'[f] \in TerminalFlow
  /\ /\ fstate[f] \in Lasting
     /\ ~ Interruptible(spec[f])
     /\ attempt'[f] = attempt[f]
     => fstate'[f] \in Lasting

(* The governor moves while the scheduler and the workers stand still.     *)
LEMMA GovernorKeepsSequence ==
  ASSUME \A f \in Flows : Steady(f), Sequenced, UNCHANGED <<jobs, toWorker, table, dispatched>>
  PROVE  Sequenced'
  <1> SUFFICES ASSUME NEW f \in Flows PROVE InSequence(f)'
    BY Zenon DEF Sequenced
  <1>1. InSequence(f)
    BY Zenon DEF Sequenced
  <1>2. /\ attempt[f] \in Nat /\ attempt'[f] \in Nat /\ attempt[f] <= attempt'[f]
        /\ fstate[f] # "Absent" => fstate'[f] # "Absent" /\ spec'[f] = spec[f]
        /\ fstate[f] \in TerminalFlow => fstate'[f] \in TerminalFlow
        /\ fstate[f] \in Lasting /\ ~ Interruptible(spec[f]) /\ attempt'[f] = attempt[f]
             => fstate'[f] \in Lasting
    BY Zenon DEF Steady
  <1>3. Copied(f)'
    <2>1. Copied(f)
      BY <1>1, Zenon DEF InSequence
    <2>2. table'[f].attempt \in Nat /\ table'[f].attempt <= attempt'[f]
      BY <1>2, <2>1 DEF Copied
    <2>3. /\ table'[f].state # "Absent" => fstate'[f] # "Absent"
          /\ table'[f].state \in TerminalFlow => fstate'[f] \in TerminalFlow
      BY <1>2, <2>1, Zenon DEF Copied
    <2>4. ASSUME ~ Interruptible(spec'[f]), table[f].state = "Running",
                 table[f].attempt = attempt'[f]
          PROVE  fstate'[f] \in Lasting
      <3>1. fstate[f] # "Absent"
        BY <2>1, <2>4, Zenon DEF Copied
      <3>2. attempt'[f] = attempt[f] /\ spec'[f] = spec[f]
        BY <1>2, <2>1, <2>4, <3>1 DEF Copied
      <3>3. QED
        BY <1>2, <2>1, <2>4, <3>2, Zenon DEF Copied
    <2>5. QED
      BY <2>2, <2>3, <2>4, Zenon DEF Copied
  <1>4. ASSUME NEW a, Issued(f, a) PROVE Issued(f, a)' /\ spec'[f] = spec[f]
    <2>1. Copied(f)
      BY <1>1, Zenon DEF InSequence
    <2>2. /\ a \in Nat /\ fstate[f] # "Absent" /\ a <= table[f].attempt
      BY <1>4, Zenon DEF Issued
    <2>3. spec'[f] = spec[f] /\ fstate'[f] # "Absent"
      BY <1>2, <2>2, Zenon
    <2>4. ASSUME ~ Interruptible(spec[f]), a = attempt'[f] PROVE fstate'[f] \in Lasting
      <3>1. a = attempt[f] /\ attempt'[f] = attempt[f]
        BY <1>2, <2>1, <2>2, <2>4 DEF Copied
      <3>2. fstate[f] \in Lasting
        BY <1>4, <2>4, <3>1, Zenon DEF Issued
      <3>3. QED
        BY <1>2, <2>4, <3>1, <3>2, Zenon
    <2>5. QED
      BY <1>4, <2>2, <2>3, <2>4, Zenon DEF Issued
  <1>5. ASSUME NEW b \in Boots
        PROVE  /\ InLine(spec'[f], f, jobs[b][f], toWorker[b])
               /\ \A a : UnderWay(f, jobs[b][f], toWorker[b], a) => Issued(f, a)'
    <2>1. /\ InLine(spec[f], f, jobs[b][f], toWorker[b])
          /\ \A a : UnderWay(f, jobs[b][f], toWorker[b], a) => Issued(f, a)
      BY <1>1, Zenon DEF InSequence
    <2>2. CASE \E a : UnderWay(f, jobs[b][f], toWorker[b], a)
      BY <1>4, <2>1, <2>2, Zenon
    <2>3. CASE \A a : ~ UnderWay(f, jobs[b][f], toWorker[b], a)
      <3>1. InLine(spec'[f], f, jobs[b][f], toWorker[b])
        BY <2>3, Zenon DEF InLine, UnderWay
      <3>2. QED
        BY <2>3, <3>1, Zenon
    <2>4. QED
      BY <2>2, <2>3, Zenon
  <1>6. QED
    BY <1>3, <1>5, Zenon DEF InSequence

(* A process reads, works or goes while the governor and the scheduler     *)
(* stand still: nothing new comes into any line.                           *)
LEMMA WorkKeepsSequence ==
  ASSUME Sequenced, UNCHANGED <<vars, table, dispatched>>,
         \A f \in Flows, b \in Boots :
           /\ InLine(spec[f], f, jobs[b][f], toWorker[b]) =>
                InLine(spec[f], f, jobs'[b][f], toWorker'[b])
           /\ \A a : UnderWay(f, jobs'[b][f], toWorker'[b], a) =>
                      UnderWay(f, jobs[b][f], toWorker[b], a)
  PROVE  Sequenced'
  <1>1. UNCHANGED <<fstate, spec, attempt, table, dispatched>>
    BY Zenon DEF vars, flowVars
  <1>2. \A f \in Flows : Copied(f)' <=> Copied(f)
    BY <1>1, Zenon DEF Copied
  <1>3. \A f \in Flows : \A a : Issued(f, a)' <=> Issued(f, a)
    BY <1>1, Zenon DEF Issued
  <1>4. QED
    BY <1>1, <1>2, <1>3, Zenon DEF Sequenced, InSequence

(* The scheduler copies the flow table.                                    *)
LEMMA ListKeepsSequence ==
  ASSUME TypeOK, Sequenced, SchedulerList
  PROVE  Sequenced'
  <1> SUFFICES ASSUME NEW f \in Flows PROVE InSequence(f)'
    BY Zenon DEF Sequenced
  <1>1. UNCHANGED <<fstate, spec, attempt, jobs, toWorker, dispatched>>
    BY Zenon DEF SchedulerList, vars, flowVars, workerSide, channels
  <1>2. table'[f].attempt = attempt[f] /\ table'[f].state = fstate[f]
    BY Zenon DEF SchedulerList, FlowTable
  <1>3. attempt[f] \in Nat
    BY ConstantsAssumption DEF TypeOK
  <1>4. InSequence(f)
    BY Zenon DEF Sequenced
  <1>5. Copied(f)'
    BY <1>1, <1>2, <1>3 DEF Copied, Lasting
  <1>6. ASSUME NEW a, Issued(f, a) PROVE Issued(f, a)'
    <2>1. Copied(f)
      BY <1>4, Zenon DEF InSequence
    <2>2. a \in Nat /\ a <= attempt[f]
      BY <1>3, <1>6, <2>1 DEF Issued, Copied
    <2>3. ASSUME ~ Interruptible(spec[f]), a = attempt[f]
          PROVE  fstate[f] \in TerminalFlow \/ (fstate[f] = "Running" /\ dispatched[f] = a)
      <3>1. a = table[f].attempt /\ fstate[f] \in Lasting
        BY <1>3, <1>6, <2>1, <2>3 DEF Issued, Copied
      <3>2. table[f].state \in TerminalFlow \/ dispatched[f] = a
        BY <1>6, <2>3, <3>1, Zenon DEF Issued
      <3>3. QED
        BY <2>1, <3>1, <3>2, Zenon DEF Copied, Lasting
    <2>4. QED
      BY <1>1, <1>2, <1>6, <2>2, <2>3, Zenon DEF Issued
  <1>7. QED
    BY <1>1, <1>4, <1>5, <1>6, Zenon DEF InSequence

(* The scheduler forgets what it dispatched of the flows not running in    *)
(* its copy.                                                               *)
LEMMA CleanKeepsSequence ==
  ASSUME Sequenced, SchedulerClean
  PROVE  Sequenced'
  <1> SUFFICES ASSUME NEW f \in Flows PROVE InSequence(f)'
    BY Zenon DEF Sequenced
  <1>1. /\ UNCHANGED <<fstate, spec, attempt, jobs, toWorker, table>>
        /\ table[f].state = "Running" => dispatched'[f] = dispatched[f]
    BY Zenon DEF SchedulerClean, vars, flowVars, workerSide, channels
  <1>2. InSequence(f)
    BY Zenon DEF Sequenced
  <1>3. Copied(f)'
    BY <1>1, <1>2, Zenon DEF InSequence, Copied
  <1>4. ASSUME NEW a, Issued(f, a) PROVE Issued(f, a)'
    BY <1>1, <1>4, Zenon DEF Issued
  <1>5. QED
    BY <1>1, <1>2, <1>3, <1>4, Zenon DEF InSequence

(* A frame that is sent is added to one line, or to none.                  *)
LEMMA SendLines ==
  ASSUME DownInOrder, NEW c \in Boots, NEW m, SendTo(c, m),
         NEW f \in Flows, NEW b \in Boots, NEW s, NEW j, InLine(s, f, j, toWorker[b]),
         DispatchOf(m, f) =>
           \A a : UnderWay(f, j, toWorker[b], a) => Follows(s, a, m.attempt)
  PROVE  /\ InLine(s, f, j, toWorker'[b])
         /\ \A a : UnderWay(f, j, toWorker'[b], a) =>
              UnderWay(f, j, toWorker[b], a) \/ (DispatchOf(m, f) /\ a = m.attempt)
  <1>1. toWorker'[b] = toWorker[b] \/ toWorker'[b] = Append(toWorker[b], m)
    <2>1. toWorker = [d \in Boots |-> toWorker[d]]
      BY Zenon DEF DownInOrder
    <2>2. QED
      BY <2>1, Zenon DEF SendTo
  <1>2. CASE toWorker'[b] = toWorker[b]
    BY <1>2, Zenon
  <1>3. CASE toWorker'[b] = Append(toWorker[b], m)
    <2>1. DownQueue(toWorker[b])
      BY Zenon DEF DownInOrder
    <2>2. QED
      BY <1>3, <2>1, LineAppend, Zenon
  <1>4. QED
    BY <1>1, <1>2, <1>3, Zenon

(* The scheduler sends a dispatch only if no process was given that        *)
(* attempt, unless it interrupted the flow since.                          *)
LEMMA SendKeepsSequence ==
  ASSUME ServerInOrder, Sequenced, NEW e \in Flows, SchedulerSend(e)
  PROVE  Sequenced'
  <1> DEFINE to == slot[table[e].worker]
             dispatch == [ type |-> "FlowDispatch", flow |-> e, attempt |-> table[e].attempt,
                           fgen |-> table[e].fgen, boot |-> table[e].boot,
                           rate |-> table[e].rate ]
             grant == [ type |-> "FlowGrant", flow |-> e, rate |-> table[e].rate ]
  <1>1. UNCHANGED <<vars, jobs, table>>
    BY Zenon DEF SchedulerSend, workerSide
  <1>2. \/ UNCHANGED <<toWorker, dispatched>>
        \/ /\ Dispatchable(table[e]) /\ to # NoBoot
           /\ \/ /\ NeedDispatch(e)
                 /\ SendTo(to, dispatch)
                 /\ dispatched' = [dispatched EXCEPT ![e] = table[e].attempt]
              \/ SendTo(to, grant) /\ UNCHANGED dispatched
    BY Zenon DEF SchedulerSend
  <1>3. DownInOrder /\ dispatched \in [Flows -> -1..MaxMint]
    BY Zenon DEF ServerInOrder, SchedulerInOrder
  <1>4. Dispatchable(table[e]) /\ to # NoBoot => to \in Boots
    BY Zenon DEF ServerInOrder, SchedulerInOrder, ThreadsInOrder, EntryInOrder, Dispatchable
  <1>5. UNCHANGED <<fstate, spec, attempt>>
    BY <1>1, Zenon DEF vars, flowVars
  <1> HIDE DEF to
  <1>6. CASE UNCHANGED <<toWorker, dispatched>>
    BY <1>1, <1>6, WorkKeepsSequence, Zenon
  <1>7. CASE to \in Boots /\ SendTo(to, grant) /\ UNCHANGED dispatched
    <2>1. \A f \in Flows : ~ DispatchOf(grant, f)
      BY Zenon DEF DispatchOf
    <2> HIDE DEF grant
    <2>2. ASSUME NEW f \in Flows, NEW b \in Boots
          PROVE  /\ InLine(spec[f], f, jobs[b][f], toWorker[b]) =>
                      InLine(spec[f], f, jobs'[b][f], toWorker'[b])
                 /\ \A a : UnderWay(f, jobs'[b][f], toWorker'[b], a) =>
                      UnderWay(f, jobs[b][f], toWorker[b], a)
      <3>1. InSequence(f)
        BY Zenon DEF Sequenced
      <3>2. InLine(spec[f], f, jobs[b][f], toWorker[b])
        BY <3>1, Zenon DEF InSequence
      <3>3. QED
        BY <1>1, <1>3, <1>7, <2>1, <3>2, SendLines, Zenon
    <2>3. QED
      BY <1>1, <1>7, <2>2, WorkKeepsSequence, Zenon
  <1>8. CASE /\ Dispatchable(table[e]) /\ to \in Boots
             /\ NeedDispatch(e)
             /\ SendTo(to, dispatch)
             /\ dispatched' = [dispatched EXCEPT ![e] = table[e].attempt]
    <2>1. /\ table[e].state = "Running"
          /\ dispatched[e] # table[e].attempt
          /\ dispatched'[e] = table[e].attempt
          /\ \A f \in Flows : f # e => dispatched'[f] = dispatched[f]
      BY <1>3, <1>8, Zenon DEF Dispatchable, NeedDispatch
    <2>2. \A f \in Flows : DispatchOf(dispatch, f) <=> f = e
      BY Zenon DEF DispatchOf
    <2>3. dispatch.attempt = table[e].attempt
      BY Zenon
    <2> HIDE DEF dispatch
    <2>4. ASSUME NEW a, Issued(e, a), Copied(e) PROVE Follows(spec[e], a, table[e].attempt)
      <3>1. a \in Nat /\ table[e].attempt \in Nat /\ a <= table[e].attempt
        BY <2>4, Zenon DEF Issued, Copied
      <3>2. a = table[e].attempt => Interruptible(spec[e])
        BY <2>1, <2>4, Zenon DEF Issued, TerminalFlow
      <3>3. QED
        BY <3>1, <3>2 DEF Follows
    <2>5. ASSUME NEW f \in Flows, f = e, Copied(f), NEW a, a = table[e].attempt
          PROVE  Issued(f, a)'
      BY <1>1, <1>5, <2>1, <2>5 DEF Copied, Issued
    <2>6. ASSUME NEW f \in Flows, NEW a, Issued(f, a) PROVE Issued(f, a)'
      BY <1>1, <1>5, <2>1, <2>6, Zenon DEF Issued
    <2>7. ASSUME NEW f \in Flows PROVE InSequence(f)'
      <3>1. InSequence(f)
        BY Zenon DEF Sequenced
      <3>2. Copied(f) /\ Copied(f)'
        BY <1>1, <1>5, <3>1, Zenon DEF InSequence, Copied
      <3>3. ASSUME NEW b \in Boots
            PROVE  /\ InLine(spec[f], f, jobs[b][f], toWorker'[b])
                   /\ \A a : UnderWay(f, jobs[b][f], toWorker'[b], a) => Issued(f, a)'
        <4>1. /\ InLine(spec[f], f, jobs[b][f], toWorker[b])
              /\ \A a : UnderWay(f, jobs[b][f], toWorker[b], a) => Issued(f, a)
          BY <3>1, Zenon DEF InSequence
        <4>2. DispatchOf(dispatch, f) =>
                \A a : UnderWay(f, jobs[b][f], toWorker[b], a) =>
                         Follows(spec[f], a, dispatch.attempt)
          BY <2>2, <2>3, <2>4, <3>2, <4>1, Zenon
        <4>3. /\ InLine(spec[f], f, jobs[b][f], toWorker'[b])
              /\ \A a : UnderWay(f, jobs[b][f], toWorker'[b], a) =>
                   UnderWay(f, jobs[b][f], toWorker[b], a)
                     \/ (DispatchOf(dispatch, f) /\ a = dispatch.attempt)
          BY <1>3, <1>8, <4>1, <4>2, SendLines, Zenon
        <4>4. QED
          BY <2>2, <2>3, <2>5, <2>6, <3>2, <4>1, <4>3, Zenon
      <3>4. QED
        BY <1>1, <1>5, <3>2, <3>3, Zenon DEF InSequence
    <2>8. QED
      BY <2>7, Zenon DEF Sequenced
  <1>9. QED
    BY <1>2, <1>4, <1>6, <1>7, <1>8, Zenon

-------------------------------------------------------------------------------
(* What a process may do with its job for flow f and with the frames it    *)
(* has still to read: nothing; go; read a frame, which may start a job or  *)
(* change its rate; move some bytes, and be done or not.                   *)
Worked(b, f) ==
  \/ jobs'[b][f] = jobs[b][f] /\ toWorker'[b] = toWorker[b]
  \/ jobs'[b][f] = NoJob /\ toWorker'[b] = << >>
  \/ /\ toWorker[b] # << >>
     /\ toWorker'[b] = Tail(toWorker[b])
     /\ \/ jobs'[b][f] = NoJob
        \/ /\ jobs[b][f] # NoJob
           /\ jobs'[b][f].attempt = jobs[b][f].attempt
           /\ jobs'[b][f].boot = jobs[b][f].boot
           /\ jobs'[b][f].moved = jobs[b][f].moved
        \/ /\ DispatchOf(Head(toWorker[b]), f)
           /\ jobs'[b][f].attempt = Head(toWorker[b]).attempt
           /\ jobs'[b][f].boot = Head(toWorker[b]).boot
  \/ /\ toWorker'[b] = toWorker[b]
     /\ jobs[b][f] # NoJob
     /\ jobs'[b][f] # NoJob => /\ jobs'[b][f].attempt = jobs[b][f].attempt
                               /\ jobs'[b][f].boot = jobs[b][f].boot
                               /\ jobs'[b][f].moved >= jobs[b][f].moved

(* One job of one process becomes j.                                       *)
JobBecomes(b, x, j) ==
  \A c \in Boots, f \in Flows :
    /\ c = b /\ f = x => jobs'[c][f] = j
    /\ c # b \/ f # x => jobs'[c][f] = jobs[c][f]

(* That is what replacing it in the map does.                              *)
LEMMA OneJob ==
  ASSUME JobsInOrder, NEW b \in Boots, NEW x, NEW j, jobs' = [jobs EXCEPT ![b][x] = j]
  PROVE  JobBecomes(b, x, j)
  <1>1. jobs = [d \in Boots |-> [e \in Flows |-> jobs[d][e]]]
    BY Zenon DEF JobsInOrder
  <1>2. jobs' = [d \in Boots |-> IF d = b THEN [jobs[b] EXCEPT ![x] = j] ELSE jobs[d]]
    BY <1>1, Zenon
  <1>3. jobs[b] = [e \in Flows |-> jobs[b][e]]
    BY <1>1, Zenon
  <1>4. [jobs[b] EXCEPT ![x] = j] = [e \in Flows |-> IF e = x THEN j ELSE jobs[b][e]]
    BY <1>3, Zenon
  <1>5. QED
    BY <1>2, <1>4, Zenon DEF JobBecomes

(* A process that is gone                                                  *)
LEMMA GoneWorked ==
  ASSUME ServerInOrder, NEW b \in Boots, Gone(b), NEW c \in Boots, NEW f \in Flows
  PROVE  Worked(c, f)
  <1>1. /\ jobs = [d \in Boots |-> [e \in Flows |-> jobs[d][e]]]
        /\ toWorker = [d \in Boots |-> toWorker[d]]
    BY Zenon DEF ServerInOrder, JobsInOrder, DownInOrder
  <1>2. /\ jobs'[c] = IF c = b THEN [e \in Flows |-> NoJob] ELSE jobs[c]
        /\ toWorker'[c] = IF c = b THEN << >> ELSE toWorker[c]
    BY <1>1, Zenon DEF Gone
  <1>3. CASE c = b
    <2>1. jobs'[c][f] = NoJob /\ toWorker'[c] = << >>
      BY <1>2, <1>3, Zenon
    <2>2. QED
      BY <2>1, Zenon DEF Worked
  <1>4. CASE c # b
    BY <1>2, <1>4, Zenon DEF Worked
  <1>5. QED
    BY <1>3, <1>4, Zenon

(* A process reads a dispatch, a grant or an acknowledgement.              *)
LEMMA ReceiveWorked ==
  ASSUME ServerInOrder, NEW b \in Boots, WorkerReceive(b), NEW c \in Boots, NEW f \in Flows
  PROVE  Worked(c, f)
  <1> DEFINE m == Head(toWorker[b])
             old == jobs[b][m.flow]
             new == IF m.type = "FlowDispatch" THEN JobFor(old, m)
                    ELSE IF old = NoJob THEN NoJob ELSE [old EXCEPT !.rate = m.rate]
  <1>1. /\ toWorker[b] # << >>
        /\ toWorker' = [toWorker EXCEPT ![b] = Tail(toWorker[b])]
    BY Zenon DEF WorkerReceive
  <1>2. jobs' = [jobs EXCEPT ![b][m.flow] = new]
    BY Zenon DEF WorkerReceive
  <1>3. /\ JobsInOrder
        /\ toWorker = [d \in Boots |-> toWorker[d]]
    BY Zenon DEF ServerInOrder, DownInOrder
  <1>4. toWorker'[c] = IF c = b THEN Tail(toWorker[b]) ELSE toWorker[c]
    BY <1>1, <1>3, Zenon
  <1> HIDE DEF new
  <1>5. /\ c = b /\ f = m.flow => jobs'[c][f] = new
        /\ c # b \/ f # m.flow => jobs'[c][f] = jobs[c][f]
    <2>1. JobBecomes(b, m.flow, new)
      BY <1>2, <1>3, OneJob, Zenon
    <2>2. QED
      BY <2>1, Zenon DEF JobBecomes
  <1>6. CASE c # b
    BY <1>4, <1>5, <1>6, Zenon DEF Worked
  <1>7. CASE c = b /\ f # m.flow
    <2>1. jobs'[c][f] = jobs[c][f] /\ toWorker'[c] = Tail(toWorker[c]) /\ toWorker[c] # << >>
      BY <1>1, <1>4, <1>5, <1>7, Zenon
    <2>2. QED
      BY <2>1, Zenon DEF Worked
  <1>8. CASE c = b /\ f = m.flow /\ m.type = "FlowDispatch"
    <2>1. new.attempt = m.attempt /\ new.boot = m.boot
      BY <1>8, Zenon DEF new, JobFor, NewJob
    <2>2. DispatchOf(m, f)
      BY <1>8, Zenon DEF DispatchOf
    <2>3. QED
      BY <1>1, <1>4, <1>5, <1>8, <2>1, <2>2, Zenon DEF Worked
  <1>9. CASE c = b /\ f = m.flow /\ m.type # "FlowDispatch"
    <2>1. CASE old = NoJob
      BY <1>1, <1>4, <1>5, <1>9, <2>1, Zenon DEF Worked, new
    <2>2. CASE old # NoJob
      <3>1. new = [old EXCEPT !.rate = m.rate]
        BY <1>9, <2>2, Zenon DEF new
      <3>2. JobInOrder(old)
        BY <1>3, <1>9, <2>2, Zenon DEF JobsInOrder
      <3>3. new.attempt = old.attempt /\ new.boot = old.boot /\ new.moved = old.moved
        BY <3>1, <3>2, Zenon DEF JobInOrder
      <3>4. QED
        BY <1>1, <1>4, <1>5, <1>9, <2>2, <3>3, Zenon DEF Worked
    <2>3. QED
      BY <2>1, <2>2, Zenon
  <1>10. QED
    BY <1>6, <1>7, <1>8, <1>9, Zenon

(* A process moves bytes.                                                  *)
LEMMA StepWorked ==
  ASSUME ServerInOrder, NEW b \in Boots, NEW e \in Flows, WorkerStep(b, e),
         NEW c \in Boots, NEW f \in Flows
  PROVE  Worked(c, f)
  <1> DEFINE old == jobs[b][e]
             j(n) == [old EXCEPT !.moved = @ + n, !.accum = @ + n]
  <1>1. old # NoJob /\ UNCHANGED toWorker
    BY Zenon DEF WorkerStep
  <1>2. PICK n \in 1..(MaxBytes - old.moved) : jobs' = [jobs EXCEPT ![b][e] = JobAfter(j(n))]
    BY Zenon DEF WorkerStep
  <1>3. JobsInOrder /\ JobInOrder(old)
    BY <1>1, Zenon DEF ServerInOrder, JobsInOrder
  <1>4. j(n).attempt = old.attempt /\ j(n).boot = old.boot /\ j(n).moved >= old.moved
    <2>1. old.moved \in 0..(MaxBytes - 1)
      BY <1>3, Zenon DEF JobInOrder
    <2> HIDE DEF old
    <2>2. old.moved + n >= old.moved
      BY <2>1
    <2>3. j(n).attempt = old.attempt /\ j(n).boot = old.boot /\ j(n).moved = old.moved + n
      BY <1>3, Zenon DEF JobInOrder
    <2>4. QED
      BY <2>2, <2>3, Zenon
  <1> HIDE DEF j
  <1>5. JobAfter(j(n)) = NoJob \/ JobAfter(j(n)) = j(n)
    BY Zenon DEF JobAfter
  <1>6. /\ c = b /\ f = e => jobs'[c][f] = JobAfter(j(n))
        /\ c # b \/ f # e => jobs'[c][f] = jobs[c][f]
    <2>1. JobBecomes(b, e, JobAfter(j(n)))
      BY <1>2, <1>3, OneJob, Zenon
    <2>2. QED
      BY <2>1, Zenon DEF JobBecomes
  <1>7. CASE c = b /\ f = e
    <2>1. jobs'[c][f] = JobAfter(j(n)) /\ jobs[c][f] = old /\ toWorker'[c] = toWorker[c]
      BY <1>1, <1>6, <1>7, Zenon
    <2>2. QED
      BY <1>1, <1>4, <1>5, <2>1, Zenon DEF Worked
  <1>8. CASE ~ (c = b /\ f = e)
    <2>1. jobs'[c][f] = jobs[c][f] /\ toWorker'[c] = toWorker[c]
      BY <1>1, <1>6, <1>8, Zenon
    <2>2. QED
      BY <2>1, Zenon DEF Worked
  <1>9. QED
    BY <1>7, <1>8, Zenon

(* Whatever a process does, no other process is touched.                   *)
LEMMA WorkerMoves ==
  ASSUME ServerInOrder, NEW b \in Boots, WorkerDies(b) \/ Worker(b),
         NEW c \in Boots, NEW f \in Flows
  PROVE  Worked(c, f)
  <1>1. CASE WorkerDies(b)
    BY <1>1, GoneWorked, Zenon DEF WorkerDies
  <1>2. CASE WorkerJoin(b)
    <2>1. CASE Gone(b)
      BY <2>1, GoneWorked, Zenon
    <2>2. CASE /\ toWorker' = [toWorker EXCEPT ![b] = Tail(toWorker[b])]
               /\ UNCHANGED jobs
      <3>1. toWorker[b] # << >> /\ toWorker = [d \in Boots |-> toWorker[d]]
        BY <1>2, Zenon DEF WorkerJoin, ServerInOrder, DownInOrder
      <3>2. toWorker'[c] = IF c = b THEN Tail(toWorker[b]) ELSE toWorker[c]
        BY <2>2, <3>1, Zenon
      <3>3. jobs'[c][f] = jobs[c][f]
        BY <2>2, Zenon
      <3>4. CASE c = b
        BY <3>1, <3>2, <3>3, <3>4, Zenon DEF Worked
      <3>5. CASE c # b
        BY <3>2, <3>3, <3>5, Zenon DEF Worked
      <3>6. QED
        BY <3>4, <3>5, Zenon
    <2>3. QED
      BY <1>2, <2>1, <2>2, Zenon DEF WorkerJoin
  <1>3. CASE WorkerReceive(b)
    BY <1>3, ReceiveWorked, Zenon
  <1>4. ASSUME NEW e \in Flows, WorkerStep(b, e) PROVE Worked(c, f)
    BY <1>4, StepWorked, Zenon
  <1>5. QED
    BY <1>1, <1>2, <1>3, <1>4, Zenon DEF Worker

(* So the lines stay in line, ...                                          *)
LEMMA WorkerKeepsSequence ==
  ASSUME ServerInOrder, Sequenced, NEW b \in Boots, WorkerDies(b) \/ Worker(b)
  PROVE  Sequenced'
  <1>1. UNCHANGED <<vars, table, dispatched>>
    BY Zenon DEF WorkerDies, Worker, WorkerJoin, WorkerReceive, WorkerStep, schedVars
  <1>2. ASSUME NEW f \in Flows, NEW c \in Boots
        PROVE  /\ InLine(spec[f], f, jobs[c][f], toWorker[c]) =>
                    InLine(spec[f], f, jobs'[c][f], toWorker'[c])
               /\ \A a : UnderWay(f, jobs'[c][f], toWorker'[c], a) =>
                    UnderWay(f, jobs[c][f], toWorker[c], a)
    <2>1. Worked(c, f)
      BY WorkerMoves, Zenon
    <2>2. InSequence(f) /\ DownQueue(toWorker[c])
      BY Zenon DEF Sequenced, ServerInOrder, DownInOrder
    <2>3. InLine(spec[f], f, jobs[c][f], toWorker[c])
      BY <2>2, Zenon DEF InSequence
    <2>4. CASE jobs'[c][f] = jobs[c][f] /\ toWorker'[c] = toWorker[c]
      BY <2>4, Zenon
    <2>5. CASE jobs'[c][f] = NoJob /\ toWorker'[c] = << >>
      BY <2>5, LineEmpty, Zenon
    <2>6. CASE /\ toWorker[c] # << >>
               /\ toWorker'[c] = Tail(toWorker[c])
               /\ \/ jobs'[c][f] = NoJob
                  \/ jobs[c][f] # NoJob /\ jobs'[c][f].attempt = jobs[c][f].attempt
                  \/ /\ DispatchOf(Head(toWorker[c]), f)
                     /\ jobs'[c][f].attempt = Head(toWorker[c]).attempt
      <3>1. /\ InLine(spec[f], f, jobs'[c][f], Tail(toWorker[c]))
            /\ \A a : UnderWay(f, jobs'[c][f], Tail(toWorker[c]), a) =>
                 UnderWay(f, jobs[c][f], toWorker[c], a)
        BY <2>2, <2>3, <2>6, LineTail, Zenon
      <3>2. QED
        BY <2>6, <3>1, Zenon
    <2>7. CASE /\ toWorker'[c] = toWorker[c]
               /\ jobs[c][f] # NoJob
               /\ jobs'[c][f] # NoJob => jobs'[c][f].attempt = jobs[c][f].attempt
      BY <2>3, <2>7, LineJob, Zenon
    <2>8. QED
      BY <2>1, <2>4, <2>5, <2>6, <2>7, Zenon DEF Worked
  <1>3. QED
    BY <1>1, <1>2, WorkKeepsSequence, Zenon

(* ... and a job that replaces another is a later one, or the same one     *)
(* with no less done, or belongs to a flow that is interrupted.            *)
LEMMA WorkerInOrder ==
  ASSUME ServerInOrder, Sequenced, NEW b \in Boots, WorkerDies(b) \/ Worker(b),
         NEW c \in Boots, NEW f \in Flows, jobs[c][f] # NoJob, jobs'[c][f] # NoJob
  PROVE  \/ jobs'[c][f].attempt > jobs[c][f].attempt
         \/ /\ jobs'[c][f].attempt = jobs[c][f].attempt
            /\ jobs'[c][f].moved >= jobs[c][f].moved \/ Interruptible(spec[f])
  <1>1. Worked(c, f)
    BY WorkerMoves, Zenon
  <1>2. jobs[c][f].attempt \in Int /\ jobs[c][f].moved \in Int
    <2>1. JobInOrder(jobs[c][f])
      BY Zenon DEF ServerInOrder, JobsInOrder
    <2>2. QED
      BY <2>1 DEF JobInOrder
  <1>3. CASE jobs'[c][f] = jobs[c][f]
    BY <1>2, <1>3
  <1>4. CASE /\ jobs'[c][f].attempt = jobs[c][f].attempt
             /\ jobs'[c][f].moved = jobs[c][f].moved \/ jobs'[c][f].moved >= jobs[c][f].moved
    BY <1>2, <1>4
  <1>5. CASE /\ toWorker[c] # << >>
             /\ DispatchOf(Head(toWorker[c]), f)
             /\ jobs'[c][f].attempt = Head(toWorker[c]).attempt
    <2>1. InSequence(f) /\ DownQueue(toWorker[c])
      BY Zenon DEF Sequenced, ServerInOrder, DownInOrder
    <2>2. InLine(spec[f], f, jobs[c][f], toWorker[c])
      BY <2>1, Zenon DEF InSequence
    <2>3. 1 \in 1..Len(toWorker[c]) /\ Head(toWorker[c]) = toWorker[c][1]
      <3>1. PICK X : toWorker[c] \in Seq(X)
        BY <2>1, Zenon DEF DownQueue
      <3>2. QED
        BY <1>5, <3>1
    <2>4. Follows(spec[f], jobs[c][f].attempt, jobs'[c][f].attempt)
      BY <1>5, <2>2, <2>3, Zenon DEF InLine
    <2>5. UnderWay(f, jobs[c][f], toWorker[c], jobs'[c][f].attempt)
      BY <1>5, <2>3, Zenon DEF UnderWay
    <2>6. Issued(f, jobs'[c][f].attempt)
      BY <2>1, <2>5, Zenon DEF InSequence
    <2>7. jobs'[c][f].attempt \in Nat
      BY <2>6, Zenon DEF Issued
    <2>8. QED
      BY <1>2, <2>4, <2>7, Zenon DEF Follows
  <1>6. QED
    BY <1>1, <1>3, <1>4, <1>5, Zenon DEF Worked

-------------------------------------------------------------------------------
(* At the start nothing was dispatched.                                    *)
LEMMA InitSequenced == SysInit => Sequenced
  <1> SUFFICES ASSUME SysInit, NEW f \in Flows PROVE InSequence(f)
    BY Zenon DEF Sequenced
  <1>1. /\ fstate[f] = "Absent" /\ attempt[f] = 0
        /\ table[f].attempt = attempt[f] /\ table[f].state = fstate[f]
    BY Zenon DEF SysInit, Init, FlowTable
  <1>2. Copied(f)
    <2>1. table[f].attempt \in Nat /\ table[f].attempt <= attempt[f]
      BY <1>1
    <2>2. table[f].state \notin TerminalFlow \cup {"Running"}
      BY <1>1, Zenon DEF TerminalFlow
    <2>3. QED
      BY <1>1, <2>1, <2>2, Zenon DEF Copied
  <1>3. \A b \in Boots : jobs[b][f] = NoJob /\ toWorker[b] = << >>
    BY Zenon DEF SysInit
  <1>4. QED
    BY <1>2, <1>3, LineEmpty, Zenon DEF InSequence

(* Only a process changes its jobs, and only a process and the scheduler   *)
(* change what is dispatched to it.                                        *)
LEMMA StepSequenced ==
  ASSUME TypeOK, ServerInOrder, Sequenced, [SysNext]_sysVars, \A f \in Flows : Steady(f)
  PROVE  Sequenced'
  <1>2. CASE UNCHANGED <<jobs, toWorker, table, dispatched>>
    BY <1>2, GovernorKeepsSequence, Zenon
  <1>3. CASE UNCHANGED sysVars \/ ClientCall
    <2>1. UNCHANGED serverVars
      BY <1>3, Zenon DEF sysVars, ClientCall
    <2>2. QED
      BY <1>2, <2>1, Zenon DEF serverVars, workerSide, channels, schedVars
  <1>4. CASE Scheduler
    <2>1. CASE SchedulerTick
      BY <1>2, <2>1, Zenon DEF SchedulerTick, workerSide, channels
    <2>2. QED
      BY <1>4, <2>1, ListKeepsSequence, SendKeepsSequence, CleanKeepsSequence, Zenon
      DEF Scheduler
  <1>5. ASSUME NEW b \in Boots, Connection(b) PROVE Sequenced'
    <2>1. CASE SendRegisterAck(b)
      <3> DEFINE ack == [type |-> "RegisterAck"]
      <3>1. SendTo(b, ack) /\ UNCHANGED <<vars, jobs, table, dispatched>>
        BY <2>1, Zenon DEF SendRegisterAck, workerSide, schedVars
      <3>2. \A f \in Flows : ~ DispatchOf(ack, f)
        BY Zenon DEF DispatchOf
      <3> HIDE DEF ack
      <3>3. ASSUME NEW f \in Flows, NEW c \in Boots
            PROVE  /\ InLine(spec[f], f, jobs[c][f], toWorker[c]) =>
                        InLine(spec[f], f, jobs'[c][f], toWorker'[c])
                   /\ \A a : UnderWay(f, jobs'[c][f], toWorker'[c], a) =>
                        UnderWay(f, jobs[c][f], toWorker[c], a)
        <4>1. InSequence(f) /\ DownInOrder
          BY Zenon DEF Sequenced, ServerInOrder
        <4>2. InLine(spec[f], f, jobs[c][f], toWorker[c])
          BY <4>1, Zenon DEF InSequence
        <4>3. QED
          BY <3>1, <3>2, <4>1, <4>2, SendLines, Zenon
      <3>4. QED
        BY <3>1, <3>3, WorkKeepsSequence, Zenon
    <2>2. CASE HandleRegister(b) \/ TakeSlot(b) \/ HandleReport(b) \/ RejectReport(b)
                 \/ Disconnect(b)
      <3>1. UNCHANGED <<jobs, toWorker, table, dispatched>>
        BY <2>2, Zenon DEF HandleRegister, TakeSlot, HandleReport, RejectReport, Disconnect,
                           workerSide, channels, schedVars
      <3>2. QED
        BY <1>2, <3>1, Zenon
    <2>3. QED
      BY <1>5, <2>1, <2>2, Zenon DEF Connection
  <1>6. ASSUME NEW b \in Boots, WorkerStart(b) PROVE Sequenced'
    BY <1>2, <1>6, Zenon DEF WorkerStart, schedVars
  <1>7. ASSUME NEW b \in Boots, WorkerDies(b) \/ Worker(b) PROVE Sequenced'
    BY <1>7, WorkerKeepsSequence, Zenon
  <1>8. QED
    BY <1>3, <1>4, <1>5, <1>6, <1>7, Zenon DEF SysNext

(* What DispatchedOnce says of a step.                                     *)
Once ==
  \A b \in Boots, f \in Flows :
    jobs[b][f] # NoJob /\ jobs'[b][f] # NoJob =>
      \/ jobs'[b][f].attempt > jobs[b][f].attempt
      \/ /\ jobs'[b][f].attempt = jobs[b][f].attempt
         /\ jobs'[b][f].moved >= jobs[b][f].moved \/ Interruptible(spec[f])

(* Attempts that are in line are started in order.                         *)
LEMMA StepOnce ==
  ASSUME ServerInOrder, Sequenced, [SysNext]_sysVars
  PROVE  Once
  <1>1. CASE \E b \in Boots : WorkerDies(b) \/ Worker(b)
    BY <1>1, WorkerInOrder, Zenon DEF Once
  <1>2. CASE UNCHANGED jobs
    <2>1. ASSUME NEW b \in Boots, NEW f \in Flows, jobs[b][f] # NoJob
          PROVE  jobs[b][f].moved >= jobs[b][f].moved
      <3>1. JobInOrder(jobs[b][f])
        BY <2>1, Zenon DEF ServerInOrder, JobsInOrder
      <3>2. QED
        BY <3>1 DEF JobInOrder
    <2>2. QED
      BY <1>2, <2>1, Zenon DEF Once
  <1>3. UNCHANGED jobs \/ \E b \in Boots : WorkerDies(b) \/ Worker(b)
    BY Zenon DEF SysNext, sysVars, serverVars, workerSide, ClientCall, Scheduler,
         SchedulerTick, SchedulerList, SchedulerSend, SchedulerClean, Connection,
         HandleRegister, TakeSlot, SendRegisterAck, HandleReport, RejectReport, Disconnect,
         WorkerStart
  <1>4. QED
    BY <1>1, <1>2, <1>3, Zenon

-------------------------------------------------------------------------------
(* A process of which the coordinator has not read the registration yet.   *)
Announced(d) == \E i \in 1..Len(toCoord[d]) : toCoord[d][i].type = "Register"

Fresh(d) == proc[d] = "down" \/ Announced(d)

(* A report on flow f.                                                     *)
ReportOf(m, f) == m.type # "Register" /\ m.flow = f

(* Process b is at work for flow f on behalf of boot k: in a job, in a     *)
(* dispatch it has still to read, or in a report under way.                *)
Carries(b, f, k) ==
  \/ jobs[b][f] # NoJob /\ jobs[b][f].boot = k
  \/ \E i \in 1..Len(toWorker[b]) : DispatchOf(toWorker[b][i], f) /\ toWorker[b][i].boot = k
  \/ \E i \in 1..Len(toCoord[b]) : ReportOf(toCoord[b][i], f) /\ toCoord[b][i].boot = k

(* k is the boot of a process of w whose registration was read.            *)
Known(k, w) == k \in Boots /\ WorkerOf[k] = w /\ ~ Fresh(k)

(* Whatever the governor, the slots, the scheduler's copy, the frames and  *)
(* the jobs name as a worker's boot is one that worker registered with.    *)
WorkersKnown ==
  \A w \in Workers :
    /\ alive[w] => wboot[w] # NoBoot
    /\ \A k : k # NoBoot /\ (wboot[w] = k \/ slot[w] = k) => Known(k, w)

FlowsKnown ==
  \A f \in Flows, w \in Workers :
    /\ \A k : assigned[f] = w /\ assignedBoot[f] = k => Known(k, w)
    /\ \A k : table[f].worker = w /\ table[f].boot = k =>
                Known(k, w) /\ assigned[f] # NoWorker

WorkKnown ==
  \A b \in Boots, f \in Flows : \A k :
    Carries(b, f, k) => Known(k, WorkerOf[b]) /\ assigned[f] # NoWorker

(* A process registers with its first frame, and nothing is sent to it, or *)
(* by it, before that frame is read.                                       *)
RegistersOnce ==
  \A d \in Boots :
    /\ \A i \in 1..Len(toCoord[d]) : toCoord[d][i].type = "Register" => Len(toCoord[d]) = 1
    /\ proc[d] = "down" => Len(toCoord[d]) = 0
    /\ Fresh(d) => /\ proc[d] # "up"
                   /\ thread[d] = "read"
                   /\ Len(toWorker[d]) = 0

(* A worker has one live process, and once it has registered no other      *)
(* process of the worker is at work on behalf of the boot now registered.  *)
OneProcess ==
  \A b, c \in Boots : Reaches(b) /\ Reaches(c) /\ WorkerOf[b] = WorkerOf[c] => b = c

Superseded ==
  \A b, c \in Boots :
    Reaches(c) /\ ~ Fresh(c) /\ b # c /\ WorkerOf[b] = WorkerOf[c] =>
      \A f \in Flows : \A k : Carries(b, f, k) => wboot[WorkerOf[c]] # k

CreditInOrder ==
  WorkersKnown /\ FlowsKnown /\ WorkKnown /\ RegistersOnce /\ OneProcess /\ Superseded

-------------------------------------------------------------------------------
(* Every frame of queue t is one of queue s.                               *)
Among(t, s) == \A i \in 1..Len(t) : \E k \in 1..Len(s) : t[i] = s[k]

(* What a step may do to the frames from process d: read or lose some, add *)
(* a report on one of its jobs, or start with a registration.              *)
OldUp(d, i) == \E k \in 1..Len(toCoord[d]) : toCoord'[d][i] = toCoord[d][k]

Fewer(d) ==
  /\ Len(toCoord'[d]) \in Nat
  /\ Len(toCoord'[d]) <= Len(toCoord[d])
  /\ Among(toCoord'[d], toCoord[d])

Reported(d) ==
  /\ proc[d] = "up"
  /\ proc'[d] = "up"
  /\ \E f \in Flows :
       /\ jobs[d][f] # NoJob
       /\ \A i \in 1..Len(toCoord'[d]) :
            OldUp(d, i) \/ (ReportOf(toCoord'[d][i], f) /\ toCoord'[d][i].boot = jobs[d][f].boot)

Starts(d) ==
  proc[d] = "down" /\ proc'[d] = "joining" /\ toCoord'[d] = <<[type |-> "Register"]>>

(* A queue whose first frame is read, or whose last frames are lost, holds *)
(* fewer of the same frames; ...                                           *)
LEMMA TailFrames ==
  ASSUME NEW X, NEW s, s \in Seq(X), s # << >>
  PROVE  Len(Tail(s)) \in Nat /\ Len(Tail(s)) <= Len(s) /\ Among(Tail(s), s)
  <1>1. /\ Len(s) \in Nat /\ Len(Tail(s)) = Len(s) - 1 /\ Len(s) # 0
        /\ \A i \in 1..Len(Tail(s)) : Tail(s)[i] = s[i + 1]
    OBVIOUS
  <1>2. \A i \in 1..Len(Tail(s)) : i + 1 \in 1..Len(s)
    BY <1>1
  <1>3. Len(Tail(s)) \in Nat /\ Len(Tail(s)) <= Len(s)
    BY <1>1
  <1>4. QED
    BY <1>1, <1>2, <1>3, Zenon DEF Among

(* ... and the same for the last frames.                                   *)
LEMMA PrefixFrames ==
  ASSUME NEW X, NEW s, s \in Seq(X), NEW n \in 0..Len(s)
  PROVE  /\ Len(SubSeq(s, 1, n)) \in Nat /\ Len(SubSeq(s, 1, n)) <= Len(s)
         /\ Among(SubSeq(s, 1, n), s)
  <1>1. /\ Len(s) \in Nat /\ Len(SubSeq(s, 1, n)) = n
        /\ \A i \in 1..n : SubSeq(s, 1, n)[i] = s[i]
    OBVIOUS
  <1>2. n \in Nat /\ n <= Len(s) /\ \A i \in 1..n : i \in 1..Len(s)
    BY <1>1
  <1>3. QED
    BY <1>1, <1>2, Zenon DEF Among

(* One that a frame is added to holds that frame and the same frames.      *)
LEMMA AddedFrame ==
  ASSUME NEW X, NEW s, s \in Seq(X), NEW m, NEW i \in 1..Len(Append(s, m))
  PROVE  Append(s, m)[i] = m \/ \E k \in 1..Len(s) : Append(s, m)[i] = s[k]
  <1>1. s \in Seq(X \cup {m}) /\ m \in X \cup {m} /\ Len(s) \in Nat
    OBVIOUS
  <1>2. /\ Len(Append(s, m)) = Len(s) + 1
        /\ \A k \in 1..Len(s) : Append(s, m)[k] = s[k]
        /\ Append(s, m)[Len(s) + 1] = m
    BY <1>1
  <1>3. i \in 1..Len(s) \/ i = Len(s) + 1
    BY <1>1, <1>2
  <1>4. QED
    BY <1>2, <1>3, Zenon

(* Every step of the system does one of these to the frames from d.        *)
LEMMA UpMoves ==
  ASSUME ServerInOrder, [SysNext]_sysVars, NEW d \in Boots
  PROVE  Fewer(d) \/ Reported(d) \/ Starts(d)
  <1>1. /\ toCoord = [c \in Boots |-> toCoord[c]]
        /\ proc = [c \in Boots |-> proc[c]]
        /\ \A c \in Boots : toCoord[c] \in Seq(UpFrames)
    BY Zenon DEF ServerInOrder, UpInOrder, ThreadsInOrder
  <1>2. ASSUME toCoord'[d] = toCoord[d] PROVE Fewer(d)
    <2>1. Len(toCoord[d]) \in Nat /\ Len(toCoord[d]) <= Len(toCoord[d])
      BY <1>1
    <2>2. QED
      BY <1>2, <2>1, Zenon DEF Fewer, Among
  <1>3. CASE UNCHANGED toCoord
    BY <1>2, <1>3, Zenon
  <1>4. ASSUME NEW b \in Boots, toCoord[b] # << >>, Consume(b) PROVE Fewer(d)
    <2>1. toCoord'[d] = IF d = b THEN Tail(toCoord[d]) ELSE toCoord[d]
      BY <1>1, <1>4, Zenon DEF Consume
    <2>2. CASE d = b
      <3>1. toCoord'[d] = Tail(toCoord[d]) /\ toCoord[d] # << >>
        BY <1>4, <2>1, <2>2, Zenon
      <3>2. toCoord[d] \in Seq(UpFrames)
        BY <1>1, Zenon
      <3>3. QED
        BY <3>1, <3>2, TailFrames, Zenon DEF Fewer
    <2>3. QED
      BY <1>2, <2>1, <2>2, Zenon
  <1>5. ASSUME NEW b \in Boots, WorkerStart(b) PROVE Fewer(d) \/ Starts(d)
    <2>1. /\ toCoord'[d] = IF d = b THEN <<[type |-> "Register"]>> ELSE toCoord[d]
          /\ proc'[d] = IF d = b THEN "joining" ELSE proc[d]
          /\ proc[b] = "down"
      BY <1>1, <1>5, Zenon DEF WorkerStart
    <2>2. CASE d = b
      BY <2>1, <2>2, Zenon DEF Starts
    <2>3. CASE d # b
      BY <1>2, <2>1, <2>3, Zenon
    <2>4. QED
      BY <2>2, <2>3, Zenon
  <1>6. ASSUME NEW b \in Boots, WorkerDies(b) PROVE Fewer(d)
    <2>1. PICK n \in 0..Len(toCoord[b]) :
            toCoord' = [toCoord EXCEPT ![b] = SubSeq(toCoord[b], 1, n)]
      BY <1>6, Zenon DEF WorkerDies
    <2>2. toCoord'[d] = IF d = b THEN SubSeq(toCoord[b], 1, n) ELSE toCoord[d]
      BY <1>1, <2>1, Zenon
    <2>3. CASE d = b
      <3>1. toCoord'[d] = SubSeq(toCoord[d], 1, n) /\ n \in 0..Len(toCoord[d])
        BY <2>1, <2>2, <2>3, Zenon
      <3>2. toCoord[d] \in Seq(UpFrames)
        BY <1>1, Zenon
      <3>3. QED
        BY <3>1, <3>2, PrefixFrames, Zenon DEF Fewer
    <2>4. QED
      BY <1>2, <2>2, <2>3, Zenon
  <1>7. ASSUME NEW b \in Boots, NEW f \in Flows, WorkerStep(b, f)
        PROVE  Fewer(d) \/ Reported(d)
    <2>1. PICK m : /\ toCoord' = [toCoord EXCEPT ![b] = Append(toCoord[b], m)]
                   /\ ReportOf(m, f) /\ m.boot = jobs[b][f].boot
      <3> DEFINE j(n) == [jobs[b][f] EXCEPT !.moved = @ + n, !.accum = @ + n]
                 type(n) == IF j(n).moved = MaxBytes THEN "Completion" ELSE "Progress"
      <3>1. PICK n \in 1..(MaxBytes - jobs[b][f].moved) :
              toCoord' = [toCoord EXCEPT ![b] = Append(toCoord[b], Report(type(n), f, j(n)))]
        BY <1>7, Zenon DEF WorkerStep
      <3>2. JobInOrder(jobs[b][f])
        BY <1>7, Zenon DEF WorkerStep, ServerInOrder, JobsInOrder
      <3>3. j(n).boot = jobs[b][f].boot
        BY <3>2, Zenon DEF JobInOrder
      <3> HIDE DEF j
      <3>4. ReportOf(Report(type(n), f, j(n)), f) /\ Report(type(n), f, j(n)).boot = j(n).boot
        BY Zenon DEF ReportOf, Report
      <3>5. QED
        BY <3>1, <3>3, <3>4, Zenon
    <2>2. toCoord'[d] = IF d = b THEN Append(toCoord[b], m) ELSE toCoord[d]
      BY <1>1, <2>1, Zenon
    <2>3. CASE d = b
      <3>1. proc[d] = "up" /\ proc'[d] = "up" /\ jobs[d][f] # NoJob
        BY <1>7, <2>3, Zenon DEF WorkerStep
      <3>2. toCoord'[d] = Append(toCoord[d], m)
        BY <2>2, <2>3, Zenon
      <3>3. toCoord[d] \in Seq(UpFrames)
        BY <1>1, Zenon
      <3>4. \A i \in 1..Len(toCoord'[d]) : toCoord'[d][i] = m \/ OldUp(d, i)
        BY <3>2, <3>3, AddedFrame DEF OldUp
      <3>5. QED
        BY <2>1, <2>3, <3>1, <3>4, Zenon DEF Reported
    <2>4. QED
      BY <1>2, <2>2, <2>3, Zenon
  <1>8. \/ UNCHANGED toCoord
        \/ \E b \in Boots :
             \/ toCoord[b] # << >> /\ Consume(b)
             \/ WorkerStart(b) \/ WorkerDies(b)
             \/ \E f \in Flows : WorkerStep(b, f)
    BY Zenon DEF SysNext, sysVars, serverVars, channels, ClientCall, Scheduler,
         SchedulerTick, SchedulerList, SchedulerSend, SchedulerClean, Connection,
         HandleRegister, TakeSlot, SendRegisterAck, HandleReport, RejectReport, Disconnect,
         Incoming, Worker, WorkerJoin, WorkerReceive
  <1>9. QED
    BY <1>3, <1>4, <1>5, <1>6, <1>7, <1>8, Zenon

(* What a step may do to a process.                                        *)
ProcStep(d) ==
  \/ proc'[d] = proc[d]
  \/ WorkerStart(d)
  \/ proc[d] = "joining" /\ proc'[d] = "up" /\ toWorker[d] # << >>
  \/ Reaches(d) /\ proc'[d] = "dead"

(* Every step of the system does one of these to process d.                *)
LEMMA ProcMoves ==
  ASSUME ServerInOrder, [SysNext]_sysVars, NEW d \in Boots
  PROVE  ProcStep(d)
  <1>1. proc = [c \in Boots |-> proc[c]]
    BY Zenon DEF ServerInOrder, ThreadsInOrder
  <1>2. CASE UNCHANGED proc
    BY <1>2, Zenon DEF ProcStep
  <1>3. ASSUME NEW b \in Boots, WorkerStart(b) PROVE ProcStep(d)
    <2>1. d # b => proc'[d] = proc[d]
      BY <1>1, <1>3, Zenon DEF WorkerStart
    <2>2. QED
      BY <1>3, <2>1, Zenon DEF ProcStep
  <1>4. ASSUME NEW b \in Boots, Reaches(b), Gone(b) PROVE ProcStep(d)
    <2>1. proc'[d] = IF d = b THEN "dead" ELSE proc[d]
      BY <1>1, <1>4, Zenon DEF Gone
    <2>2. QED
      BY <1>4, <2>1, Zenon DEF ProcStep
  <1>5. ASSUME NEW b \in Boots, WorkerJoin(b) PROVE ProcStep(d)
    <2>1. /\ proc[b] = "joining" /\ toWorker[b] # << >>
          /\ Gone(b) \/ proc' = [proc EXCEPT ![b] = "up"]
      BY <1>5, Zenon DEF WorkerJoin
    <2>2. Reaches(b)
      BY <2>1, Zenon DEF Reaches
    <2>3. CASE proc' = [proc EXCEPT ![b] = "up"]
      <3>1. proc'[d] = IF d = b THEN "up" ELSE proc[d]
        BY <1>1, <2>3, Zenon
      <3>2. CASE d = b
        BY <2>1, <3>1, <3>2, Zenon DEF ProcStep
      <3>3. CASE d # b
        BY <3>1, <3>3, Zenon DEF ProcStep
      <3>4. QED
        BY <3>2, <3>3, Zenon
    <2>4. QED
      BY <1>4, <2>1, <2>2, <2>3, Zenon
  <1>6. \/ UNCHANGED proc
        \/ \E b \in Boots : WorkerStart(b) \/ (Reaches(b) /\ Gone(b)) \/ WorkerJoin(b)
    BY Zenon DEF SysNext, sysVars, serverVars, workerSide, ClientCall, Scheduler,
         SchedulerTick, SchedulerList, SchedulerSend, SchedulerClean, Connection,
         HandleRegister, TakeSlot, SendRegisterAck, HandleReport, RejectReport, Disconnect,
         Worker, WorkerReceive, WorkerStep, WorkerDies
  <1>7. QED
    BY <1>2, <1>3, <1>4, <1>5, <1>6, Zenon

(* What a step may do to the frames for process c: they are read or lost,  *)
(* or a frame is added for a live process that has registered, and if that *)
(* is a dispatch the scheduler's copy says for which boot.                 *)
Sent(c, f, k) ==
  /\ Reaches(c)
  /\ table[f].worker \in Workers
  /\ slot[table[f].worker] = c
  /\ table[f].boot = k

Told(c) ==
  /\ thread[c] = "slotted" \/ \E w \in Workers : slot[w] = c
  /\ \A i \in 1..Len(toWorker'[c]) :
       \/ \E k \in 1..Len(toWorker[c]) : toWorker'[c][i] = toWorker[c][k]
       \/ \A f \in Flows : DispatchOf(toWorker'[c][i], f) => Sent(c, f, toWorker'[c][i].boot)

(* A frame sent to d is added to the frames for d, if it goes anywhere.    *)
LEMMA SendAdds ==
  ASSUME DownInOrder, NEW d \in Boots, NEW m, SendTo(d, m), NEW c \in Boots
  PROVE  \/ toWorker'[c] = toWorker[c]
         \/ /\ c = d /\ Reaches(c)
            /\ \A i \in 1..Len(toWorker'[c]) :
                 \/ \E k \in 1..Len(toWorker[c]) : toWorker'[c][i] = toWorker[c][k]
                 \/ toWorker'[c][i] = m
  <1>1. toWorker = [e \in Boots |-> toWorker[e]] /\ DownQueue(toWorker[c])
    BY Zenon DEF DownInOrder
  <1>2. CASE UNCHANGED toWorker
    BY <1>2, Zenon
  <1>3. CASE Reaches(d) /\ toWorker' = [toWorker EXCEPT ![d] = Append(toWorker[d], m)]
    <2>1. toWorker'[c] = IF c = d THEN Append(toWorker[d], m) ELSE toWorker[c]
      BY <1>1, <1>3, Zenon
    <2>2. CASE c = d
      <3>1. PICK X : toWorker[c] \in Seq(X)
        BY <1>1, Zenon DEF DownQueue
      <3>2. toWorker'[c] = Append(toWorker[c], m)
        BY <2>1, <2>2, Zenon
      <3>3. \A i \in 1..Len(toWorker'[c]) :
              toWorker'[c][i] = m \/ \E k \in 1..Len(toWorker[c]) : toWorker'[c][i] = toWorker[c][k]
        BY <3>1, <3>2, AddedFrame
      <3>4. QED
        BY <1>3, <2>2, <3>3, Zenon
    <2>3. QED
      BY <2>1, <2>2, Zenon
  <1>4. QED
    BY <1>2, <1>3, Zenon DEF SendTo

(* Every step of the system does one of these to the frames for c.         *)
LEMMA DownMoves ==
  ASSUME ServerInOrder, [SysNext]_sysVars, NEW c \in Boots
  PROVE  Among(toWorker'[c], toWorker[c]) \/ Told(c)
  <1>1. toWorker = [e \in Boots |-> toWorker[e]] /\ DownQueue(toWorker[c]) /\ DownInOrder
    BY Zenon DEF ServerInOrder, DownInOrder
  <1>2. CASE toWorker'[c] = toWorker[c]
    BY <1>2, Zenon DEF Among
  <1>3. ASSUME NEW b \in Boots, Gone(b) PROVE Among(toWorker'[c], toWorker[c])
    <2>1. toWorker'[c] = IF c = b THEN << >> ELSE toWorker[c]
      BY <1>1, <1>3, Zenon DEF Gone
    <2>2. CASE c = b
      <3>1. Len(toWorker'[c]) = 0
        BY <2>1, <2>2
      <3>2. QED
        BY <3>1 DEF Among
    <2>3. QED
      BY <2>1, <2>2, Zenon DEF Among
  <1>4. ASSUME NEW b \in Boots, toWorker[b] # << >>,
               toWorker' = [toWorker EXCEPT ![b] = Tail(toWorker[b])]
        PROVE  Among(toWorker'[c], toWorker[c])
    <2>1. toWorker'[c] = IF c = b THEN Tail(toWorker[b]) ELSE toWorker[c]
      BY <1>1, <1>4, Zenon
    <2>2. CASE c = b
      <3>1. PICK X : toWorker[c] \in Seq(X)
        BY <1>1, Zenon DEF DownQueue
      <3>2. toWorker'[c] = Tail(toWorker[c]) /\ toWorker[c] # << >>
        BY <1>4, <2>1, <2>2, Zenon
      <3>3. QED
        BY <3>1, <3>2, TailFrames, Zenon
    <2>3. QED
      BY <2>1, <2>2, Zenon DEF Among
  <1>5. ASSUME NEW b \in Boots, SendRegisterAck(b)
        PROVE  Among(toWorker'[c], toWorker[c]) \/ Told(c)
    <2> DEFINE m == [type |-> "RegisterAck"]
    <2>1. SendTo(b, m) /\ thread[b] = "slotted"
      BY <1>5, Zenon DEF SendRegisterAck
    <2>2. \A f \in Flows : ~ DispatchOf(m, f)
      BY Zenon DEF DispatchOf
    <2> HIDE DEF m
    <2>3. \/ toWorker'[c] = toWorker[c]
          \/ /\ c = b
             /\ \A i \in 1..Len(toWorker'[c]) :
                  \/ \E k \in 1..Len(toWorker[c]) : toWorker'[c][i] = toWorker[c][k]
                  \/ toWorker'[c][i] = m
      BY <1>1, <2>1, SendAdds, Zenon
    <2>4. QED
      BY <2>1, <2>2, <2>3, Zenon DEF Among, Told
  <1>6. ASSUME NEW e \in Flows, SchedulerSend(e)
        PROVE  Among(toWorker'[c], toWorker[c]) \/ Told(c)
    <2> DEFINE to == slot[table[e].worker]
               dispatch == [ type |-> "FlowDispatch", flow |-> e, attempt |-> table[e].attempt,
                             fgen |-> table[e].fgen, boot |-> table[e].boot,
                             rate |-> table[e].rate ]
               grant == [ type |-> "FlowGrant", flow |-> e, rate |-> table[e].rate ]
    <2>1. \/ UNCHANGED toWorker
          \/ /\ Dispatchable(table[e]) /\ to # NoBoot
             /\ SendTo(to, dispatch) \/ SendTo(to, grant)
      BY <1>6, Zenon DEF SchedulerSend
    <2>2. Dispatchable(table[e]) /\ to # NoBoot => to \in Boots /\ table[e].worker \in Workers
      BY Zenon DEF ServerInOrder, SchedulerInOrder, ThreadsInOrder, EntryInOrder, Dispatchable
    <2>3. /\ \A f \in Flows : DispatchOf(dispatch, f) => f = e
          /\ dispatch.boot = table[e].boot
          /\ \A f \in Flows : ~ DispatchOf(grant, f)
      BY Zenon DEF DispatchOf
    <2> HIDE DEF to, dispatch, grant
    <2>4. ASSUME NEW m, m = dispatch \/ m = grant, to \in Boots, table[e].worker \in Workers,
                 SendTo(to, m)
          PROVE  Among(toWorker'[c], toWorker[c]) \/ Told(c)
      <3>1. \/ toWorker'[c] = toWorker[c]
            \/ /\ c = to /\ Reaches(c)
               /\ \A i \in 1..Len(toWorker'[c]) :
                    \/ \E k \in 1..Len(toWorker[c]) : toWorker'[c][i] = toWorker[c][k]
                    \/ toWorker'[c][i] = m
        <4>1. DownInOrder /\ to \in Boots /\ SendTo(to, m)
          BY <1>1, <2>4, Zenon
        <4>2. QED
          BY <4>1, SendAdds, Zenon
      <3>2. ASSUME c = to, Reaches(c), NEW f \in Flows, DispatchOf(m, f)
            PROVE  Sent(c, f, m.boot)
        BY <2>3, <2>4, <3>2, Zenon DEF Sent, to
      <3>3. c = to => \E w \in Workers : slot[w] = c
        BY <2>4, Zenon DEF to
      <3>4. QED
        BY <3>1, <3>2, <3>3, Zenon DEF Among, Told
    <2>5. QED
      BY <1>2, <2>1, <2>2, <2>4, Zenon
  <1>7. \/ UNCHANGED toWorker
        \/ \E b \in Boots :
             \/ Gone(b) \/ SendRegisterAck(b)
             \/ toWorker[b] # << >> /\ toWorker' = [toWorker EXCEPT ![b] = Tail(toWorker[b])]
        \/ \E e \in Flows : SchedulerSend(e)
    BY Zenon DEF SysNext, sysVars, serverVars, channels, ClientCall, Scheduler,
         SchedulerTick, SchedulerList, SchedulerClean, Connection,
         HandleRegister, TakeSlot, HandleReport, RejectReport, Disconnect,
         Worker, WorkerJoin, WorkerReceive, WorkerStep, WorkerDies, WorkerStart
  <1>8. QED
    BY <1>2, <1>3, <1>4, <1>5, <1>6, <1>7, Zenon

(* A job is for the boot of the job before it, or of the dispatch read.    *)
LEMMA JobBoots ==
  ASSUME ServerInOrder, [SysNext]_sysVars, NEW c \in Boots, NEW f \in Flows,
         jobs'[c][f] # NoJob
  PROVE  \/ jobs[c][f] # NoJob /\ jobs'[c][f].boot = jobs[c][f].boot
         \/ \E i \in 1..Len(toWorker[c]) :
              DispatchOf(toWorker[c][i], f) /\ jobs'[c][f].boot = toWorker[c][i].boot
  <1>1. UNCHANGED jobs \/ \E b \in Boots : WorkerDies(b) \/ Worker(b)
    BY Zenon DEF SysNext, sysVars, serverVars, workerSide, ClientCall, Scheduler,
         SchedulerTick, SchedulerList, SchedulerSend, SchedulerClean, Connection,
         HandleRegister, TakeSlot, SendRegisterAck, HandleReport, RejectReport, Disconnect,
         WorkerStart
  <1>2. CASE UNCHANGED jobs
    BY <1>2, Zenon
  <1>3. CASE Worked(c, f)
    <2>1. ASSUME toWorker[c] # << >>, DispatchOf(Head(toWorker[c]), f),
                 jobs'[c][f].boot = Head(toWorker[c]).boot
          PROVE  \E i \in 1..Len(toWorker[c]) :
                   DispatchOf(toWorker[c][i], f) /\ jobs'[c][f].boot = toWorker[c][i].boot
      <3>1. PICK X : toWorker[c] \in Seq(X)
        BY Zenon DEF ServerInOrder, DownInOrder, DownQueue
      <3>2. 1 \in 1..Len(toWorker[c]) /\ Head(toWorker[c]) = toWorker[c][1]
        BY <2>1, <3>1
      <3>3. QED
        BY <2>1, <3>2, Zenon
    <2>2. QED
      BY <1>3, <2>1, Zenon DEF Worked
  <1>4. QED
    BY <1>1, <1>2, <1>3, WorkerMoves, Zenon

(* Work for a boot is carried on, or it is sent to a live process.         *)
LEMMA CarriedOn ==
  ASSUME ServerInOrder, [SysNext]_sysVars, NEW c \in Boots, NEW f \in Flows, NEW k,
         Carries(c, f, k)'
  PROVE  Carries(c, f, k) \/ Sent(c, f, k)
  <1>1. CASE jobs'[c][f] # NoJob /\ jobs'[c][f].boot = k
    BY <1>1, JobBoots, Zenon DEF Carries
  <1>2. ASSUME NEW i \in 1..Len(toWorker'[c]), DispatchOf(toWorker'[c][i], f),
               toWorker'[c][i].boot = k
        PROVE  Carries(c, f, k) \/ Sent(c, f, k)
    <2>1. \/ \E n \in 1..Len(toWorker[c]) : toWorker'[c][i] = toWorker[c][n]
          \/ Sent(c, f, toWorker'[c][i].boot)
      BY <1>2, DownMoves, Zenon DEF Among, Told
    <2>2. QED
      BY <1>2, <2>1, Zenon DEF Carries
  <1>3. ASSUME NEW i \in 1..Len(toCoord'[c]), ReportOf(toCoord'[c][i], f),
               toCoord'[c][i].boot = k
        PROVE  Carries(c, f, k)
    <2>1. CASE OldUp(c, i)
      BY <1>3, <2>1, Zenon DEF OldUp, Carries
    <2>2. CASE Fewer(c)
      BY <2>1, <2>2, Zenon DEF Fewer, Among, OldUp
    <2>3. CASE Reported(c)
      <3>1. PICK e \in Flows :
              /\ jobs[c][e] # NoJob
              /\ OldUp(c, i) \/ (ReportOf(toCoord'[c][i], e) /\ k = jobs[c][e].boot)
        BY <1>3, <2>3, Zenon DEF Reported
      <3>2. ReportOf(toCoord'[c][i], e) => e = f
        BY <1>3, Zenon DEF ReportOf
      <3>3. QED
        BY <2>1, <3>1, <3>2, Zenon DEF Carries
    <2>4. CASE Starts(c)
      <3>1. toCoord'[c][i].type = "Register"
        BY <1>3, <2>4 DEF Starts
      <3>2. QED
        BY <1>3, <3>1, Zenon DEF ReportOf
    <2>5. QED
      BY <2>2, <2>3, <2>4, UpMoves, Zenon
  <1>4. QED
    BY <1>1, <1>2, <1>3, Zenon DEF Carries

(* No process becomes fresh.                                               *)
LEMMA StaysKnown ==
  ASSUME ServerInOrder, [SysNext]_sysVars, NEW d \in Boots, Fresh(d)'
  PROVE  Fresh(d)
  <1>1. CASE proc'[d] = "down"
    <2>1. proc[d] = "down"
      BY <1>1, ProcMoves, Zenon DEF ProcStep, WorkerStart, ServerInOrder, ThreadsInOrder
    <2>2. QED
      BY <2>1, Zenon DEF Fresh
  <1>2. ASSUME NEW i \in 1..Len(toCoord'[d]), toCoord'[d][i].type = "Register"
        PROVE  Fresh(d)
    <2>1. CASE OldUp(d, i)
      BY <1>2, <2>1, Zenon DEF OldUp, Fresh, Announced
    <2>2. CASE Fewer(d)
      BY <2>1, <2>2, Zenon DEF Fewer, Among, OldUp
    <2>3. CASE Reported(d)
      BY <1>2, <2>1, <2>3, Zenon DEF Reported, ReportOf
    <2>4. CASE Starts(d)
      BY <2>4, Zenon DEF Starts, Fresh
    <2>5. QED
      BY <2>2, <2>3, <2>4, UpMoves, Zenon
  <1>3. QED
    BY <1>1, <1>2, Zenon DEF Fresh, Announced

(* So a boot stays known.                                                  *)
LEMMA KnownForGood ==
  ASSUME ServerInOrder, [SysNext]_sysVars, NEW k, NEW w, Known(k, w)
  PROVE  Known(k, w)'
  BY StaysKnown, Zenon DEF Known

(* A process that was fresh and lives on is known once its registration is *)
(* read.                                                                   *)
LEMMA KnownByRegister ==
  ASSUME ServerInOrder, RegistersOnce, [SysNext]_sysVars, NEW d \in Boots,
         Fresh(d), ~ Fresh(d)', Reaches(d)'
  PROVE  HandleRegister(d)
  <1>1. PICK i \in 1..Len(toCoord[d]) : toCoord[d][i].type = "Register"
    <2>1. proc[d] = "down" => proc'[d] = "down" \/ WorkerStart(d)
      BY ProcMoves, Zenon DEF ProcStep, Reaches
    <2>2. WorkerStart(d) => Announced(d)'
      <3>1. WorkerStart(d) => toCoord'[d] = <<[type |-> "Register"]>>
        BY Zenon DEF WorkerStart, ServerInOrder, UpInOrder
      <3>2. toCoord'[d] = <<[type |-> "Register"]>> =>
              1 \in 1..Len(toCoord'[d]) /\ toCoord'[d][1].type = "Register"
        OBVIOUS
      <3>3. QED
        BY <3>1, <3>2, Zenon DEF Announced
    <2>3. QED
      BY <2>1, <2>2, Zenon DEF Fresh, Announced
  <1>2. /\ toCoord = [c \in Boots |-> toCoord[c]]
        /\ proc = [c \in Boots |-> proc[c]]
        /\ toCoord[d] \in Seq(UpFrames)
    BY Zenon DEF ServerInOrder, UpInOrder, ThreadsInOrder
  <1>3. Len(toCoord[d]) = 1 /\ proc[d] # "up"
    BY <1>1, Zenon DEF RegistersOnce
  <1>4. i = 1 /\ Head(toCoord[d]) = toCoord[d][1]
    BY <1>1, <1>2, <1>3
  <1>5. Head(toCoord[d]).type = "Register"
    BY <1>1, <1>4, Zenon
  <1>6. toCoord'[d] # toCoord[d]
    BY <1>1, Zenon DEF Fresh, Announced
  <1>7. ~ UNCHANGED toCoord
    BY <1>6, Zenon
  <1>8. ASSUME NEW b \in Boots, WorkerStart(b) PROVE FALSE
    <2>1. toCoord'[d] = IF d = b THEN <<[type |-> "Register"]>> ELSE toCoord[d]
      BY <1>2, <1>8, Zenon DEF WorkerStart
    <2>2. d = b
      BY <1>6, <2>1, Zenon
    <2>3. 1 \in 1..Len(toCoord'[d]) /\ toCoord'[d][1].type = "Register"
      BY <2>1, <2>2
    <2>4. QED
      BY <2>3, Zenon DEF Fresh, Announced
  <1>9. ASSUME NEW b \in Boots, WorkerDies(b) PROVE FALSE
    <2>1. d # b => toCoord'[d] = toCoord[d]
      BY <1>2, <1>9, Zenon DEF WorkerDies
    <2>2. d = b
      BY <1>6, <2>1, Zenon
    <2>3. proc'[d] = "dead"
      BY <1>2, <1>9, <2>2, Zenon DEF WorkerDies, Gone
    <2>4. QED
      BY <2>3, Zenon DEF Reaches
  <1>10. ASSUME NEW b \in Boots, NEW f \in Flows, WorkerStep(b, f) PROVE FALSE
    <2>1. proc[b] = "up" /\ (d # b => toCoord'[d] = toCoord[d])
      BY <1>2, <1>10, Zenon DEF WorkerStep
    <2>2. QED
      BY <1>3, <1>6, <2>1, Zenon
  <1>11. ASSUME NEW b \in Boots, HandleReport(b) \/ RejectReport(b) PROVE FALSE
    <2>1. /\ Head(toCoord[b]).type \in {"Progress", "Completion"}
          /\ Consume(b)
      BY <1>11, Zenon DEF HandleReport, RejectReport, Incoming
    <2>2. d # b => toCoord'[d] = toCoord[d]
      BY <1>2, <2>1, Zenon DEF Consume
    <2>3. d = b
      BY <1>6, <2>2, Zenon
    <2>4. QED
      BY <1>5, <2>1, <2>3, Zenon
  <1>12. ASSUME NEW b \in Boots, HandleRegister(b) PROVE b = d
    <2>1. d # b => toCoord'[d] = toCoord[d]
      BY <1>2, <1>12, Zenon DEF HandleRegister, Consume
    <2>2. QED
      BY <1>6, <2>1, Zenon
  <1>13. \/ UNCHANGED toCoord
         \/ \E b \in Boots :
              \/ HandleRegister(b) \/ HandleReport(b) \/ RejectReport(b)
              \/ WorkerStart(b) \/ WorkerDies(b)
              \/ \E f \in Flows : WorkerStep(b, f)
    BY Zenon DEF SysNext, sysVars, serverVars, channels, ClientCall, Scheduler,
         SchedulerTick, SchedulerList, SchedulerSend, SchedulerClean, Connection,
         TakeSlot, SendRegisterAck, Disconnect, Worker, WorkerJoin, WorkerReceive
  <1>14. QED
    BY <1>7, <1>8, <1>9, <1>10, <1>11, <1>12, <1>13, Zenon

-------------------------------------------------------------------------------
(* A flow is assigned by tick(), to a live worker and its boot, and gets   *)
(* another boot when its worker registers with that one.                   *)
LEMMA TickAssignsLive ==
  ASSUME TypeOK, ReservationHistory, Tick, NEW f \in Flows
  PROVE  \/ UNCHANGED <<assigned[f], assignedBoot[f]>>
         \/ /\ assigned'[f] \in Workers
            /\ alive[assigned'[f]]
            /\ assignedBoot'[f] = wboot[assigned'[f]]
  <1> DEFINE A == AdmittedByTick
             st == StateAfterAdmission(A)
  <1>1. PICK pick \in WorkerPicks :
          /\ assigned' = [e \in Flows |->
               IF st[e] = "Reserved" /\ pick[spec[e].path] # NoWorker
               THEN pick[spec[e].path] ELSE assigned[e]]
          /\ assignedBoot' = [e \in Flows |->
               IF st[e] = "Reserved" /\ pick[spec[e].path] # NoWorker
               THEN wboot[pick[spec[e].path]] ELSE assignedBoot[e]]
    BY Zenon DEF Tick
  <1>2. st[f] = IF f \in A THEN "Reserved" ELSE fstate[f]
    BY Zenon DEF StateAfterAdmission
  <1>3. f \in A => fstate[f] = "Queued"
    BY Zenon DEF AdmittedByTick
  <1>4. st[f] = "Reserved" => spec[f].path \in paths
    BY <1>2, <1>3, Zenon DEF ReservationHistory, FlowHistory
  <1>5. \A p \in paths : pick[p] # NoWorker => pick[p] \in Workers /\ alive[pick[p]]
    BY Zenon DEF WorkerPicks, Candidates
  <1> HIDE DEF st, A
  <1>6. CASE st[f] = "Reserved" /\ pick[spec[f].path] # NoWorker
    <2>1. assigned'[f] = pick[spec[f].path] /\ assignedBoot'[f] = wboot[pick[spec[f].path]]
      BY <1>1, <1>6, Zenon
    <2>2. QED
      BY <1>4, <1>5, <1>6, <2>1, Zenon
  <1>7. CASE ~ (st[f] = "Reserved" /\ pick[spec[f].path] # NoWorker)
    BY <1>1, <1>7, Zenon
  <1>8. QED
    BY <1>6, <1>7, Zenon

(* The rest of the governor leaves the assignments and the workers alone.  *)
LEMMA GovernorMoves ==
  ASSUME ServerInOrder, [SysNext]_sysVars
  PROVE  \/ UNCHANGED <<assigned, assignedBoot, alive, wboot>>
         \/ Tick /\ UNCHANGED <<alive, wboot, slot, table>>
         \/ \E b \in Boots : HandleRegister(b)
  <1>1. CASE UNCHANGED vars
    BY <1>1, Zenon DEF vars, flowVars, workerVars
  <1>2. CASE ClientCall
    BY <1>2, Zenon DEF ClientCall, AddResource, AddPath, SubmitFlow, SubmitDeferred,
         SubmitAdmitted, CancelFlow, flowVars, workerVars
  <1>3. CASE SchedulerTick
    BY <1>3, Zenon DEF SchedulerTick, Tick, workerVars
  <1>4. ASSUME NEW b \in Boots, HandleReport(b)
        PROVE  UNCHANGED <<assigned, assignedBoot, alive, wboot>>
    BY <1>4, Zenon DEF HandleReport, ReportProgress, ReportCompletion, workerVars
  <1>5. \/ UNCHANGED vars \/ ClientCall \/ SchedulerTick
        \/ \E b \in Boots : HandleRegister(b) \/ HandleReport(b)
    BY Zenon DEF SysNext, sysVars, Scheduler, SchedulerList, SchedulerSend, SchedulerClean,
         Connection, TakeSlot, SendRegisterAck, RejectReport, Disconnect,
         Worker, WorkerJoin, WorkerReceive, WorkerStep, WorkerDies, WorkerStart
  <1>6. QED
    BY <1>1, <1>2, <1>3, <1>4, <1>5, Zenon

(* What a registration does to the boots the governor knows.               *)
LEMMA RegisterMoves ==
  ASSUME TypeOK, NEW b \in Boots, HandleRegister(b)
  PROVE  /\ UNCHANGED <<assigned, slot, table>>
         /\ \A w \in Workers :
              IF w = WorkerOf[b] THEN alive'[w] /\ wboot'[w] = b
                                 ELSE alive'[w] = alive[w] /\ wboot'[w] = wboot[w]
         /\ \A f \in Flows :
              \/ assignedBoot'[f] = assignedBoot[f]
              \/ assigned[f] = WorkerOf[b] /\ assignedBoot'[f] = b
  <1>1. WorkerOf[b] \in Workers /\ RegisterWorker(WorkerOf[b], b) /\ UNCHANGED <<slot, table>>
    BY CoordinatorAssumption, Zenon DEF HandleRegister, schedVars
  <1>2. /\ alive' = [alive EXCEPT ![WorkerOf[b]] = TRUE]
        /\ wboot' = [wboot EXCEPT ![WorkerOf[b]] = b]
        /\ UNCHANGED assigned
        /\ assignedBoot' = [f \in Flows |-> IF f \in RolledBy(WorkerOf[b], b) THEN b
                                                                   ELSE assignedBoot[f]]
    BY <1>1, Zenon DEF RegisterWorker
  <1>3. alive = [w \in Workers |-> alive[w]] /\ wboot = [w \in Workers |-> wboot[w]]
    BY Zenon DEF TypeOK
  <1>4. \A w \in Workers :
          IF w = WorkerOf[b] THEN alive'[w] /\ wboot'[w] = b
                             ELSE alive'[w] = alive[w] /\ wboot'[w] = wboot[w]
    BY <1>1, <1>2, <1>3, Zenon
  <1>5. \A f \in RolledBy(WorkerOf[b], b) : assigned[f] = WorkerOf[b]
    BY Zenon DEF RolledBy
  <1>6. QED
    BY <1>1, <1>2, <1>4, <1>5, Zenon

(* The process whose registration was read is known.                       *)
LEMMA RegisterMakesKnown ==
  ASSUME ServerInOrder, RegistersOnce, NEW b \in Boots, HandleRegister(b)
  PROVE  Fresh(b) /\ ~ Fresh(b)'
  <1>1. /\ toCoord[b] # << >> /\ Head(toCoord[b]).type = "Register"
        /\ toCoord' = [toCoord EXCEPT ![b] = Tail(toCoord[b])]
        /\ proc' = proc
    BY Zenon DEF HandleRegister, Incoming, Consume, workerSide
  <1>2. toCoord = [c \in Boots |-> toCoord[c]] /\ toCoord[b] \in Seq(UpFrames)
    BY Zenon DEF ServerInOrder, UpInOrder
  <1>3. 1 \in 1..Len(toCoord[b]) /\ Head(toCoord[b]) = toCoord[b][1]
    BY <1>1, <1>2
  <1>4. Len(toCoord[b]) = 1
    BY <1>1, <1>3, Zenon DEF RegistersOnce
  <1>5. Fresh(b)
    BY <1>1, <1>3, Zenon DEF Fresh, Announced
  <1>6. proc[b] # "down"
    BY <1>4 DEF RegistersOnce
  <1>7. toCoord'[b] = Tail(toCoord[b])
    BY <1>1, <1>2, Zenon
  <1>8. Len(toCoord'[b]) = 0
    BY <1>2, <1>4, <1>7
  <1>9. ~ Announced(b)'
    BY <1>8 DEF Announced
  <1>10. QED
    BY <1>1, <1>5, <1>6, <1>9, Zenon DEF Fresh

-------------------------------------------------------------------------------
(* A step of the system from a state in order.                             *)
Moves ==
  /\ TypeOK /\ ReservationHistory /\ ServerInOrder /\ CreditInOrder
  /\ [SysNext]_sysVars

(* A flow that was assigned once stays assigned: no worker is deregistered *)
(* behind the server.                                                      *)
LEMMA StaysAssigned ==
  ASSUME Moves, NEW f \in Flows, assigned[f] # NoWorker
  PROVE  assigned'[f] # NoWorker
  <1>1. CASE Tick
    BY <1>1, TickAssignsLive, ConstantsAssumption, Zenon DEF Moves
  <1>2. CASE \E b \in Boots : HandleRegister(b)
    BY <1>2, RegisterMoves, Zenon DEF Moves
  <1>3. QED
    BY <1>1, <1>2, GovernorMoves, Zenon DEF Moves

(* A slot is only ever given to a process whose registration was read.     *)
LEMMA SlotMoves ==
  ASSUME Moves, NEW w \in Workers, NEW k, k # NoBoot, slot'[w] = k
  PROVE  Known(k, w)
  <1>1. slot = [v \in Workers |-> slot[v]]
    BY Zenon DEF Moves, ServerInOrder, ThreadsInOrder
  <1>2. slot[w] = k => Known(k, w)
    BY Zenon DEF Moves, CreditInOrder, WorkersKnown
  <1>3. ASSUME NEW b \in Boots, TakeSlot(b) PROVE Known(k, w)
    <2>1. thread[b] = "registered" /\ slot' = [slot EXCEPT ![WorkerOf[b]] = b]
      BY <1>3, Zenon DEF TakeSlot
    <2>2. k = IF w = WorkerOf[b] THEN b ELSE slot[w]
      BY <1>1, <2>1, Zenon
    <2>3. ~ Fresh(b)
      BY <2>1, Zenon DEF Moves, CreditInOrder, RegistersOnce
    <2>4. QED
      BY <1>2, <2>2, <2>3, Zenon DEF Known
  <1>4. ASSUME NEW b \in Boots, Disconnect(b) PROVE Known(k, w)
    <2>1. slot'[w] = IF slot[w] = b THEN NoBoot ELSE slot[w]
      BY <1>4, Zenon DEF Disconnect
    <2>2. QED
      BY <1>2, <2>1, Zenon
  <1>5. UNCHANGED slot \/ \E b \in Boots : TakeSlot(b) \/ Disconnect(b)
    BY Zenon DEF Moves, SysNext, sysVars, serverVars, ClientCall, Scheduler,
         SchedulerTick, SchedulerList, SchedulerSend, SchedulerClean, Connection,
         HandleRegister, SendRegisterAck, HandleReport, RejectReport,
         Worker, WorkerJoin, WorkerReceive, WorkerStep, WorkerDies, WorkerStart
  <1>6. QED
    BY <1>2, <1>3, <1>4, <1>5, Zenon

(* The workers' boots are known after the step.                            *)
LEMMA StepWorkersKnown ==
  ASSUME Moves PROVE WorkersKnown'
  <1>0. TypeOK /\ ServerInOrder /\ [SysNext]_sysVars /\ WorkersKnown /\ RegistersOnce
    BY Zenon DEF Moves, CreditInOrder
  <1>1. ASSUME NEW w \in Workers, NEW k, Known(k, w) PROVE Known(k, w)'
    BY <1>0, <1>1, KnownForGood, Zenon
  <1>2. ASSUME NEW w \in Workers, NEW k, k # NoBoot, slot'[w] = k PROVE Known(k, w)'
    BY <1>1, <1>2, SlotMoves, Zenon
  <1>3. ASSUME NEW w \in Workers
        PROVE  \/ alive'[w] = alive[w] /\ wboot'[w] = wboot[w]
               \/ wboot'[w] # NoBoot /\ \A k : wboot'[w] = k => Known(k, w)'
    <2>1. ASSUME NEW b \in Boots, HandleRegister(b), w = WorkerOf[b]
          PROVE  wboot'[w] # NoBoot /\ \A k : wboot'[w] = k => Known(k, w)'
      <3>1. wboot'[w] = b
        BY <1>0, <2>1, RegisterMoves, Zenon
      <3>2. ~ Fresh(b)'
        BY <1>0, <2>1, RegisterMakesKnown, Zenon
      <3>3. b # NoBoot
        BY ConstantsAssumption, Zenon
      <3>4. QED
        BY <2>1, <3>1, <3>2, <3>3, Zenon DEF Known
    <2>2. ASSUME NEW b \in Boots, HandleRegister(b), w # WorkerOf[b]
          PROVE  alive'[w] = alive[w] /\ wboot'[w] = wboot[w]
      BY <1>0, <2>2, RegisterMoves, Zenon
    <2>3. QED
      BY <1>0, <2>1, <2>2, GovernorMoves, Zenon
  <1>4. QED
    BY <1>0, <1>1, <1>2, <1>3, Zenon DEF WorkersKnown

(* So are the flows' and the copy's.                                       *)
LEMMA StepFlowsKnown ==
  ASSUME Moves PROVE FlowsKnown'
  <1>0. /\ TypeOK /\ ReservationHistory /\ ServerInOrder /\ [SysNext]_sysVars
        /\ WorkersKnown /\ FlowsKnown /\ RegistersOnce
    BY Zenon DEF Moves, CreditInOrder
  <1> SUFFICES ASSUME NEW f \in Flows, NEW w \in Workers, NEW k
               PROVE  /\ assigned'[f] = w /\ assignedBoot'[f] = k => Known(k, w)'
                      /\ table'[f].worker = w /\ table'[f].boot = k =>
                           Known(k, w)' /\ assigned'[f] # NoWorker
    BY Zenon DEF FlowsKnown
  <1>1. /\ assigned[f] = w /\ assignedBoot[f] = k => Known(k, w)
        /\ table[f].worker = w /\ table[f].boot = k => Known(k, w) /\ assigned[f] # NoWorker
    BY <1>0, Zenon DEF FlowsKnown
  <1>2. Known(k, w) => Known(k, w)'
    BY <1>0, KnownForGood, Zenon
  <1>3. assigned'[f] = w /\ assignedBoot'[f] = k => Known(k, w)'
    <2>1. CASE UNCHANGED <<assigned[f], assignedBoot[f]>>
      BY <1>1, <1>2, <2>1, Zenon
    <2>2. ASSUME Tick, assigned'[f] = w, assignedBoot'[f] = k PROVE Known(k, w)'
      <3>1. \/ UNCHANGED <<assigned[f], assignedBoot[f]>>
            \/ alive[w] /\ k = wboot[w]
        BY <1>0, <2>2, TickAssignsLive, Zenon
      <3>2. alive[w] /\ k = wboot[w] => Known(k, w)
        BY <1>0, Zenon DEF WorkersKnown
      <3>3. QED
        BY <1>1, <1>2, <2>2, <3>1, <3>2, Zenon
    <2>3. ASSUME NEW b \in Boots, HandleRegister(b), assigned'[f] = w, assignedBoot'[f] = k
          PROVE  Known(k, w)'
      <3>1. /\ assigned'[f] = assigned[f]
            /\ assignedBoot'[f] = assignedBoot[f] \/ (w = WorkerOf[b] /\ k = b)
        BY <1>0, <2>3, RegisterMoves, Zenon
      <3>2. ~ Fresh(b)'
        BY <1>0, <2>3, RegisterMakesKnown, Zenon
      <3>3. w = WorkerOf[b] /\ k = b => Known(k, w)'
        BY <3>2, Zenon DEF Known
      <3>4. QED
        BY <1>1, <1>2, <2>3, <3>1, <3>3, Zenon
    <2>4. QED
      BY <1>0, <2>1, <2>2, <2>3, GovernorMoves, Zenon
  <1>4. CASE UNCHANGED table
    BY <1>1, <1>2, <1>3, <1>4, StaysAssigned, Zenon
  <1>5. CASE SchedulerList
    <2>1. table'[f].worker = assigned[f] /\ table'[f].boot = assignedBoot[f]
      BY <1>5, Zenon DEF SchedulerList, FlowTable
    <2>2. w # NoWorker
      BY ConstantsAssumption, Zenon
    <2>3. QED
      BY <1>1, <1>2, <1>3, <2>1, <2>2, StaysAssigned, Zenon
  <1>6. UNCHANGED table \/ SchedulerList
    BY <1>0, Zenon DEF SysNext, sysVars, serverVars, schedVars, ClientCall, Scheduler,
         SchedulerTick, SchedulerSend, SchedulerClean, Connection, TakeSlot, Disconnect,
         HandleRegister, SendRegisterAck, HandleReport, RejectReport,
         Worker, WorkerJoin, WorkerReceive, WorkerStep, WorkerDies, WorkerStart
  <1>7. QED
    BY <1>4, <1>5, <1>6, Zenon

(* What is sent is for a boot of the worker it is sent to.                 *)
LEMMA SentIsKnown ==
  ASSUME Moves, NEW c \in Boots, NEW f \in Flows, NEW k, Sent(c, f, k)
  PROVE  Known(k, WorkerOf[c]) /\ assigned[f] # NoWorker
  <1>1. PICK w \in Workers : table[f].worker = w /\ slot[w] = c /\ table[f].boot = k
    BY Zenon DEF Sent
  <1>2. Known(k, w) /\ assigned[f] # NoWorker
    BY <1>1, Zenon DEF Moves, CreditInOrder, FlowsKnown
  <1>3. c # NoBoot
    BY ConstantsAssumption, Zenon
  <1>4. Known(c, w)
    BY <1>1, <1>3, Zenon DEF Moves, CreditInOrder, WorkersKnown
  <1>5. QED
    BY <1>2, <1>4, Zenon DEF Known

(* So are the boots that work is done for.                                 *)
LEMMA StepWorkKnown ==
  ASSUME Moves PROVE WorkKnown'
  <1>1. ServerInOrder /\ [SysNext]_sysVars /\ WorkKnown
    BY Zenon DEF Moves, CreditInOrder
  <1>2. ASSUME NEW b \in Boots, NEW f \in Flows, NEW k, Carries(b, f, k)'
        PROVE  Known(k, WorkerOf[b])' /\ assigned'[f] # NoWorker
    <2>1. Carries(b, f, k) \/ Sent(b, f, k)
      BY <1>1, <1>2, CarriedOn, Zenon
    <2>2. Known(k, WorkerOf[b]) /\ assigned[f] # NoWorker
      BY <1>1, <2>1, SentIsKnown, Zenon DEF WorkKnown
    <2>3. Known(k, WorkerOf[b])'
      BY <1>1, <2>2, KnownForGood, Zenon
    <2>4. QED
      BY <2>2, <2>3, StaysAssigned, Zenon
  <1>3. QED
    BY <1>2, Zenon DEF WorkKnown

(* The thread of a fresh process waits for the registration.               *)
LEMMA FreshThread ==
  ASSUME Moves, NEW d \in Boots, Fresh(d), Fresh(d)'
  PROVE  thread'[d] = "read"
  <1>0. ServerInOrder /\ [SysNext]_sysVars /\ RegistersOnce
    BY Zenon DEF Moves, CreditInOrder
  <1>1. thread = [c \in Boots |-> thread[c]] /\ thread[d] = "read"
    BY <1>0, Zenon DEF ServerInOrder, ThreadsInOrder, RegistersOnce
  <1>2. CASE UNCHANGED thread
    BY <1>1, <1>2, Zenon
  <1>3. ASSUME NEW b \in Boots, NEW x, thread' = [thread EXCEPT ![b] = x], b # d
        PROVE  thread'[d] = "read"
    BY <1>1, <1>3, Zenon
  <1>4. ASSUME NEW b \in Boots, HandleRegister(b) PROVE thread'[d] = "read"
    <2>1. b # d
      BY <1>0, <1>4, RegisterMakesKnown, Zenon
    <2>2. QED
      BY <1>3, <1>4, <2>1, Zenon DEF HandleRegister
  <1>5. ASSUME NEW b \in Boots, TakeSlot(b) \/ SendRegisterAck(b) PROVE thread'[d] = "read"
    <2>1. thread[b] = "registered" \/ thread[b] = "slotted"
      BY <1>5, Zenon DEF TakeSlot, SendRegisterAck
    <2>2. b # d
      BY <1>1, <2>1, Zenon
    <2>3. QED
      BY <1>3, <1>5, <2>2, Zenon DEF TakeSlot, SendRegisterAck
  <1>6. ASSUME NEW b \in Boots, Disconnect(b) PROVE thread'[d] = "read"
    <2>1. proc[b] = "dead" /\ toCoord[b] = << >>
      BY <1>6, Zenon DEF Disconnect
    <2>2. ~ Fresh(b)
      BY <2>1 DEF Fresh, Announced
    <2>3. QED
      BY <1>3, <1>6, <2>2, Zenon DEF Disconnect
  <1>7. \/ UNCHANGED thread
        \/ \E b \in Boots :
             HandleRegister(b) \/ TakeSlot(b) \/ SendRegisterAck(b) \/ Disconnect(b)
    BY <1>0, Zenon DEF SysNext, sysVars, serverVars, ClientCall, Scheduler,
         SchedulerTick, SchedulerList, SchedulerSend, SchedulerClean, Connection,
         HandleReport, RejectReport,
         Worker, WorkerJoin, WorkerReceive, WorkerStep, WorkerDies, WorkerStart
  <1>8. QED
    BY <1>2, <1>4, <1>5, <1>6, <1>7, Zenon

(* A process still registers with its first frame and only once.           *)
LEMMA StepRegistersOnce ==
  ASSUME Moves, ServerInOrder' PROVE RegistersOnce'
  <1>0. ServerInOrder /\ [SysNext]_sysVars /\ RegistersOnce /\ WorkersKnown
    BY Zenon DEF Moves, CreditInOrder
  <1> SUFFICES ASSUME NEW d \in Boots
               PROVE  /\ \A i \in 1..Len(toCoord'[d]) :
                           toCoord'[d][i].type = "Register" => Len(toCoord'[d]) = 1
                      /\ proc'[d] = "down" => Len(toCoord'[d]) = 0
                      /\ Fresh(d)' => /\ proc'[d] # "up"
                                      /\ thread'[d] = "read"
                                      /\ Len(toWorker'[d]) = 0
    BY Zenon DEF RegistersOnce
  <1>1. /\ \A i \in 1..Len(toCoord[d]) :
             toCoord[d][i].type = "Register" => Len(toCoord[d]) = 1
        /\ proc[d] = "down" => Len(toCoord[d]) = 0
        /\ Fresh(d) => proc[d] # "up" /\ thread[d] = "read" /\ Len(toWorker[d]) = 0
    BY <1>0, Zenon DEF RegistersOnce
  <1>2. Fewer(d) \/ Reported(d) \/ Starts(d)
    BY <1>0, UpMoves, Zenon
  <1>3. ASSUME NEW i \in 1..Len(toCoord'[d]), toCoord'[d][i].type = "Register"
        PROVE  Len(toCoord'[d]) = 1
    <2>1. CASE Fewer(d)
      <3>1. PICK n \in 1..Len(toCoord[d]) : toCoord'[d][i] = toCoord[d][n]
        BY <2>1, Zenon DEF Fewer, Among
      <3>2. Len(toCoord[d]) = 1
        BY <1>1, <1>3, <3>1, Zenon
      <3>3. Len(toCoord'[d]) \in Nat /\ Len(toCoord'[d]) <= 1
        BY <2>1, <3>2, Zenon DEF Fewer
      <3>4. \A x \in Nat : \A j \in 1..x : x <= 1 => x = 1
        OBVIOUS
      <3>5. QED
        BY <3>3, <3>4, Zenon
    <2>2. CASE Reported(d)
      <3>1. OldUp(d, i)
        BY <1>3, <2>2, Zenon DEF Reported, ReportOf
      <3>2. Fresh(d)
        BY <1>3, <3>1, Zenon DEF OldUp, Fresh, Announced
      <3>3. QED
        BY <1>1, <2>2, <3>2, Zenon DEF Reported
    <2>3. CASE Starts(d)
      BY <2>3 DEF Starts
    <2>4. QED
      BY <1>2, <2>1, <2>2, <2>3, Zenon
  <1>4. ASSUME proc'[d] = "down" PROVE Len(toCoord'[d]) = 0
    <2>1. proc[d] = "down"
      BY <1>0, <1>4, ProcMoves, Zenon DEF ProcStep, WorkerStart, ServerInOrder, ThreadsInOrder
    <2>2. Fewer(d)
      BY <1>2, <1>4, <2>1, Zenon DEF Reported, Starts
    <2>3. Len(toCoord'[d]) \in Nat /\ Len(toCoord'[d]) <= 0
      BY <1>1, <2>1, <2>2, Zenon DEF Fewer
    <2>4. QED
      BY <2>3
  <1>5. ASSUME Fresh(d)'
        PROVE  proc'[d] # "up" /\ thread'[d] = "read" /\ Len(toWorker'[d]) = 0
    <2>1. Fresh(d)
      BY <1>0, <1>5, StaysKnown, Zenon
    <2>2. thread'[d] = "read"
      BY <1>5, <2>1, FreshThread, Zenon
    <2>3. Len(toWorker[d]) = 0 /\ proc[d] # "up" /\ thread[d] = "read"
      BY <1>1, <2>1, Zenon
    <2>4. proc'[d] # "up"
      <3>1. proc = [c \in Boots |-> proc[c]]
        BY <1>0, Zenon DEF ServerInOrder, ThreadsInOrder
      <3>2. WorkerStart(d) => proc'[d] = "joining"
        BY <3>1, Zenon DEF WorkerStart
      <3>3. toWorker[d] = << >>
        <4>1. PICK X : toWorker[d] \in Seq(X)
          BY <1>0, Zenon DEF ServerInOrder, DownInOrder, DownQueue
        <4>2. QED
          BY <2>3, <4>1
      <3>4. ProcStep(d)
        BY <1>0, ProcMoves, Zenon
      <3>5. QED
        BY <2>3, <3>2, <3>3, <3>4, Zenon DEF ProcStep
    <2>5. ~ Told(d)
      <3>1. ASSUME NEW w \in Workers, slot[w] = d PROVE FALSE
        <4>1. d # NoBoot
          BY ConstantsAssumption, Zenon
        <4>2. Known(d, w)
          BY <1>0, <3>1, <4>1, Zenon DEF WorkersKnown
        <4>3. QED
          BY <2>1, <4>2, Zenon DEF Known
      <3>2. thread[d] # "slotted"
        BY <2>3, Zenon
      <3>3. QED
        BY <3>1, <3>2, Zenon DEF Told
    <2>6. Among(toWorker'[d], toWorker[d])
      BY <1>0, <2>5, DownMoves, Zenon
    <2>7. Len(toWorker'[d]) = 0
      <3>1. PICK X : toWorker'[d] \in Seq(X)
        BY Zenon DEF ServerInOrder, DownInOrder, DownQueue
      <3>2. Len(toWorker'[d]) \in Nat
        BY <3>1
      <3>3. 1..Len(toWorker[d]) = {}
        BY <2>3
      <3>4. 1 \notin 1..Len(toWorker'[d])
        BY <2>6, <3>3, Zenon DEF Among
      <3>5. QED
        BY <3>2, <3>4
    <2>8. QED
      BY <2>2, <2>4, <2>7, Zenon
  <1>6. QED
    BY <1>3, <1>4, <1>5, Zenon

(* A process that lives was alive before, or has just been started.        *)
LEMMA LivesOn ==
  ASSUME Moves, NEW d \in Boots, Reaches(d)'
  PROVE  Reaches(d) \/ WorkerStart(d)
  <1>1. ProcStep(d)
    BY ProcMoves, Zenon DEF Moves
  <1>2. proc'[d] \in {"joining", "up"}
    BY Zenon DEF Reaches
  <1>3. QED
    BY <1>1, <1>2, Zenon DEF ProcStep, Reaches

(* A worker still has one live process.                                    *)
LEMMA StepOneProcess ==
  ASSUME Moves PROVE OneProcess'
  <1>1. ServerInOrder /\ OneProcess
    BY Zenon DEF Moves, CreditInOrder
  <1>2. proc = [c \in Boots |-> proc[c]]
    BY <1>1, Zenon DEF ServerInOrder, ThreadsInOrder
  <1>3. ASSUME NEW b \in Boots, NEW c \in Boots, Reaches(c)', WorkerOf[b] = WorkerOf[c],
               WorkerStart(b), b # c
        PROVE  FALSE
    <2>1. proc'[c] = proc[c]
      BY <1>2, <1>3, Zenon DEF WorkerStart
    <2>2. Reaches(c)
      BY <1>3, <2>1, Zenon DEF Reaches
    <2>3. QED
      BY <1>3, <2>2, Zenon DEF WorkerStart
  <1>4. ASSUME NEW b \in Boots, NEW c \in Boots, Reaches(b)', Reaches(c)',
               WorkerOf[b] = WorkerOf[c]
        PROVE  b = c
    <2>1. (Reaches(b) \/ WorkerStart(b)) /\ (Reaches(c) \/ WorkerStart(c))
      BY <1>4, LivesOn, Zenon
    <2>2. QED
      BY <1>1, <1>3, <1>4, <2>1, Zenon DEF OneProcess
  <1>5. QED
    BY <1>4, Zenon DEF OneProcess

(* No other process is at work for the boot of the live one's worker.      *)
LEMMA StepSuperseded ==
  ASSUME Moves PROVE Superseded'
  <1>0. /\ TypeOK /\ ServerInOrder /\ [SysNext]_sysVars
        /\ RegistersOnce /\ WorkKnown /\ OneProcess /\ Superseded
    BY Zenon DEF Moves, CreditInOrder
  <1>1. ASSUME NEW b \in Boots, NEW c \in Boots, Reaches(c)', ~ Fresh(c)', b # c,
               WorkerOf[b] = WorkerOf[c], NEW f \in Flows, NEW k, Carries(b, f, k)',
               wboot'[WorkerOf[c]] = k
        PROVE  FALSE
    <2>1. Carries(b, f, k) \/ Sent(b, f, k)
      BY <1>0, <1>1, CarriedOn, Zenon
    <2>2. WorkerOf[c] \in Workers
      BY CoordinatorAssumption, Zenon
    <2>3. Known(k, WorkerOf[b])
      BY <1>0, <2>1, SentIsKnown, Zenon DEF WorkKnown
    <2>4. ASSUME NEW d \in Boots, HandleRegister(d), WorkerOf[d] = WorkerOf[c] PROVE FALSE
      <3>1. wboot'[WorkerOf[c]] = d
        BY <1>0, <2>2, <2>4, RegisterMoves, Zenon
      <3>2. Fresh(d)
        BY <1>0, <2>4, RegisterMakesKnown, Zenon
      <3>3. QED
        BY <1>1, <2>3, <3>1, <3>2, Zenon DEF Known
    <2>5. wboot[WorkerOf[c]] = k
      <3>1. ASSUME NEW d \in Boots, HandleRegister(d)
            PROVE  wboot'[WorkerOf[c]] = wboot[WorkerOf[c]]
        BY <1>0, <2>2, <2>4, <3>1, RegisterMoves, Zenon
      <3>2. UNCHANGED wboot \/ \E d \in Boots : HandleRegister(d)
        BY <1>0, GovernorMoves, Zenon
      <3>3. QED
        BY <1>1, <3>1, <3>2, Zenon
    <2>6. ~ Fresh(c)
      BY <1>0, <1>1, <2>4, KnownByRegister, Zenon
    <2>7. Reaches(c)
      <3>1. WorkerStart(c) => proc[c] = "down"
        BY Zenon DEF WorkerStart
      <3>2. QED
        BY <1>1, <2>6, <3>1, LivesOn, Zenon DEF Fresh
    <2>8. ~ Carries(b, f, k)
      BY <1>0, <1>1, <2>5, <2>6, <2>7, Zenon DEF Superseded
    <2>9. Reaches(b)
      BY <2>1, <2>8, Zenon DEF Sent
    <2>10. QED
      BY <1>0, <1>1, <2>7, <2>9, Zenon DEF OneProcess
  <1>2. QED
    BY <1>1, Zenon DEF Superseded

(* Nothing is known, carried or alive at the start.                        *)
LEMMA InitCredit == SysInit => CreditInOrder
  <1> SUFFICES ASSUME SysInit PROVE CreditInOrder
    BY Zenon
  <1>1. \A b \in Boots :
          /\ proc[b] = "down" /\ toWorker[b] = << >> /\ toCoord[b] = << >>
          /\ thread[b] = "read"
          /\ \A f \in Flows : jobs[b][f] = NoJob
    BY Zenon DEF SysInit
  <1>2. \A w \in Workers : ~ alive[w] /\ wboot[w] = NoBoot /\ slot[w] = NoBoot
    BY Zenon DEF SysInit, Init
  <1>3. \A f \in Flows : assigned[f] = NoWorker /\ table[f].worker = assigned[f]
    BY Zenon DEF SysInit, Init, FlowTable
  <1>4. \A w \in Workers : w # NoWorker
    BY ConstantsAssumption, Zenon
  <1>5. \A b \in Boots : ~ Reaches(b)
    BY <1>1, Zenon DEF Reaches
  <1>6. \A b \in Boots, f \in Flows : \A k : ~ Carries(b, f, k)
    <2>1. Len(<< >>) = 0 /\ \A i \in 1..0 : FALSE
      OBVIOUS
    <2>2. QED
      BY <1>1, <2>1, Zenon DEF Carries
  <1>7. RegistersOnce
    <2>1. Len(<< >>) = 0 /\ (\A i \in 1..0 : FALSE) /\ "down" # "up"
      OBVIOUS
    <2>2. QED
      BY <1>1, <2>1, Zenon DEF RegistersOnce
  <1>8. WorkersKnown
    BY <1>2 DEF WorkersKnown
  <1>9. FlowsKnown
    BY <1>3, <1>4, Zenon DEF FlowsKnown
  <1>10. WorkKnown /\ OneProcess /\ Superseded
    BY <1>5, <1>6, Zenon DEF WorkKnown, OneProcess, Superseded
  <1>11. QED
    BY <1>7, <1>8, <1>9, <1>10, Zenon DEF CreditInOrder

(* Every step keeps the credit in order.                                   *)
LEMMA StepCredit == Moves /\ ServerInOrder' => CreditInOrder'
  BY StepWorkersKnown, StepFlowsKnown, StepWorkKnown, StepRegistersOnce, StepOneProcess,
     StepSuperseded, Zenon
  DEF CreditInOrder

(* What CreditedToLiveProcess says of a step.                              *)
CreditedLive ==
  \A f \in Flows : Credited(f) =>
    \E b \in Boots :
      /\ toCoord'[b] # toCoord[b]
      /\ assigned[f] = WorkerOf[b]
      /\ \A c \in Boots \ {b} : WorkerOf[c] = WorkerOf[b] => proc[c] # "up"

(* Only a report that was let in credits a flow, and only the one it names. *)
LEMMA OnlyReportsCredit ==
  ASSUME TypeOK, ReservationHistory, ServerInOrder, [SysNext]_sysVars,
         NEW f \in Flows, Credited(f)
  PROVE  \E b \in Boots :
           /\ toCoord[b] # << >>
           /\ Head(toCoord[b]).type # "Register"
           /\ Head(toCoord[b]).flow = f
           /\ assigned[f] # NoWorker => wboot[assigned[f]] = Head(toCoord[b]).boot
           /\ Consume(b)
  <1>0. bytes[f] \in 0..MaxBytes /\ MaxBytes \in Nat
    BY ConstantsAssumption, Zenon DEF TypeOK
  <1>1. ASSUME bytes'[f] = bytes[f] \/ bytes'[f] = 0,
               fstate'[f] = fstate[f] \/ fstate'[f] # "Completed"
        PROVE  FALSE
    BY <1>0, <1>1 DEF Credited
  <1>2. CASE UNCHANGED vars
    BY <1>1, <1>2, Zenon DEF vars, flowVars
  <1>3. CASE ClientCall
    <2>1. CASE (\E r \in Resources : AddResource(r)) \/ (\E p \in Paths : AddPath(p))
      BY <1>1, <2>1, Zenon DEF flowVars, AddResource, AddPath
    <2>2. ASSUME NEW e \in Flows, NEW s \in Specs, SubmitFlow(e, s) PROVE FALSE
      <3>1. bytes' = bytes
        BY <2>2, Zenon DEF SubmitFlow
      <3>2. fstate'[f] = fstate[f] \/ fstate'[f] \in {"Queued", "Reserved"}
        BY <2>2, Zenon DEF SubmitFlow, SubmitDeferred, SubmitAdmitted, TypeOK
      <3>3. QED
        BY <1>1, <3>1, <3>2, Zenon
    <2>3. ASSUME NEW e \in Flows, CancelFlow(e) PROVE FALSE
      <3>1. bytes' = bytes /\ (fstate'[f] = fstate[f] \/ fstate'[f] = "Cancelled")
        BY <2>3, Zenon DEF CancelFlow, TypeOK
      <3>2. QED
        BY <1>1, <3>1, Zenon
    <2>4. QED
      BY <1>3, <2>1, <2>2, <2>3, Zenon DEF ClientCall
  <1>4. CASE Tick
    <2>1. bytes' = bytes /\ (fstate'[f] = fstate[f] \/ fstate'[f] # "Completed")
      BY <1>4, TickFlows, Zenon DEF Scheduled
    <2>2. QED
      BY <1>1, <2>1, Zenon
  <1>5. ASSUME NEW b \in Boots, HandleRegister(b) PROVE FALSE
    <2>1. WorkerOf[b] \in Workers /\ RegisterWorker(WorkerOf[b], b)
      BY <1>5, CoordinatorAssumption, Zenon DEF HandleRegister
    <2>2. /\ bytes'[f] = bytes[f] \/ bytes'[f] = 0
          /\ fstate'[f] = fstate[f] \/ fstate'[f] = "Reserved"
      BY <2>1, RegisterFlows, Zenon
    <2>3. QED
      BY <1>1, <2>2, Zenon
  <1>6. ASSUME NEW b \in Boots, HandleReport(b)
        PROVE  /\ toCoord[b] # << >>
               /\ Head(toCoord[b]).type # "Register"
               /\ Head(toCoord[b]).flow = f
               /\ assigned[f] # NoWorker => wboot[assigned[f]] = Head(toCoord[b]).boot
               /\ Consume(b)
    <2> DEFINE m == Head(toCoord[b])
    <2>1. /\ toCoord[b] # << >> /\ Consume(b)
          /\ m.type = "Progress" \/ m.type = "Completion"
          /\ \/ ReportProgress(m.flow, m.attempt, m.fgen, m.boot, m.bytes)
             \/ ReportCompletion(m.flow, m.attempt, m.fgen, m.boot, m.bytes)
      BY <1>6, Zenon DEF HandleReport, Incoming
    <2>2. m.type # "Register"
      BY <2>1, Zenon
    <2> HIDE DEF m
    <2>3. /\ Authorised(m.flow, m.attempt, m.fgen, m.boot)
          /\ bytes' = [bytes EXCEPT ![m.flow] = Larger(bytes[m.flow], m.bytes)]
          /\ fstate' = fstate \/ fstate' = [fstate EXCEPT ![m.flow] = "Completed"]
      BY <2>1, Zenon DEF ReportProgress, ReportCompletion
    <2>4. bytes = [e \in Flows |-> bytes[e]] /\ fstate = [e \in Flows |-> fstate[e]]
      BY Zenon DEF TypeOK
    <2>5. m.flow # f => bytes'[f] = bytes[f] /\ fstate'[f] = fstate[f]
      BY <2>3, <2>4, Zenon
    <2>6. m.flow = f
      BY <1>1, <2>5, Zenon
    <2>7. assigned[f] # NoWorker => wboot[assigned[f]] = m.boot
      BY <2>3, <2>6, Zenon DEF Authorised
    <2>8. QED
      BY <2>1, <2>2, <2>6, <2>7, Zenon DEF m
  <1>7. \/ UNCHANGED vars \/ ClientCall \/ Tick
        \/ \E b \in Boots : HandleRegister(b) \/ HandleReport(b)
    BY Zenon DEF SysNext, sysVars, Scheduler, SchedulerTick, SchedulerList, SchedulerSend,
         SchedulerClean, Connection, TakeSlot, SendRegisterAck, RejectReport, Disconnect,
         Worker, WorkerJoin, WorkerReceive, WorkerStep, WorkerDies, WorkerStart
  <1>8. QED
    BY <1>2, <1>3, <1>4, <1>5, <1>6, <1>7, Zenon

(* That report was sent by the process that is up, if any is.              *)
LEMMA StepCreditedLive == Moves => CreditedLive
  <1> SUFFICES ASSUME Moves, NEW f \in Flows, Credited(f)
               PROVE  \E b \in Boots :
                        /\ toCoord'[b] # toCoord[b]
                        /\ assigned[f] = WorkerOf[b]
                        /\ \A c \in Boots \ {b} : WorkerOf[c] = WorkerOf[b] => proc[c] # "up"
    BY Zenon DEF CreditedLive
  <1>0. /\ TypeOK /\ ReservationHistory /\ ServerInOrder /\ [SysNext]_sysVars
        /\ WorkersKnown /\ WorkKnown /\ RegistersOnce /\ Superseded
    BY Zenon DEF Moves, CreditInOrder
  <1>1. PICK b \in Boots :
          /\ toCoord[b] # << >>
          /\ Head(toCoord[b]).type # "Register"
          /\ Head(toCoord[b]).flow = f
          /\ assigned[f] # NoWorker => wboot[assigned[f]] = Head(toCoord[b]).boot
          /\ Consume(b)
    BY <1>0, OnlyReportsCredit, Zenon
  <1>2. PICK k : k = Head(toCoord[b]).boot
    BY Zenon
  <1>3. toCoord = [c \in Boots |-> toCoord[c]] /\ toCoord[b] \in Seq(UpFrames)
    BY <1>0, Zenon DEF ServerInOrder, UpInOrder
  <1>4. 1 \in 1..Len(toCoord[b]) /\ Head(toCoord[b]) = toCoord[b][1]
    BY <1>1, <1>3
  <1>5. Carries(b, f, k)
    BY <1>1, <1>2, <1>4, Zenon DEF Carries, ReportOf
  <1>6. Known(k, WorkerOf[b]) /\ assigned[f] # NoWorker
    BY <1>0, <1>5, Zenon DEF WorkKnown
  <1>7. assigned[f] \in Workers
    BY <1>0, <1>6, Zenon DEF TypeOK
  <1>8. wboot[assigned[f]] = k
    BY <1>1, <1>2, <1>6, Zenon
  <1>9. k # NoBoot
    BY <1>6, ConstantsAssumption, Zenon DEF Known
  <1>10. assigned[f] = WorkerOf[b]
    BY <1>0, <1>6, <1>7, <1>8, <1>9, Zenon DEF WorkersKnown, Known
  <1>11. toCoord'[b] # toCoord[b]
    <2>1. toCoord'[b] = Tail(toCoord[b])
      BY <1>1, <1>3, Zenon DEF Consume
    <2>2. Len(Tail(toCoord[b])) = Len(toCoord[b]) - 1 /\ Len(toCoord[b]) \in Nat
      BY <1>1, <1>3
    <2>3. \A n \in Nat : n - 1 # n
      OBVIOUS
    <2>4. QED
      BY <2>1, <2>2, <2>3, Zenon
  <1>12. ASSUME NEW c \in Boots \ {b}, WorkerOf[c] = WorkerOf[b], proc[c] = "up"
         PROVE  FALSE
    <2>1. Reaches(c) /\ c # b
      BY <1>12, Zenon DEF Reaches
    <2>2. ~ Fresh(c)
      BY <1>0, <1>12, Zenon DEF RegistersOnce
    <2>3. wboot[WorkerOf[c]] # k
      BY <1>0, <1>5, <1>12, <2>1, <2>2, Zenon DEF Superseded
    <2>4. QED
      BY <1>8, <1>10, <1>12, <2>3, Zenon
  <1>13. QED
    BY <1>10, <1>11, <1>12, Zenon

(* Behind the server the credit is always in order, ...                    *)
THEOREM CreditInvariant == SysSpec => []CreditInOrder
  <1>1. SysInit => CreditInOrder
    BY InitCredit, Zenon
  <1>2. SystemInOrder /\ SystemInOrder' /\ CreditInOrder /\ [SysNext]_sysVars
          => CreditInOrder'
    BY StepCredit, Zenon DEF SystemInOrder, Moves
  <1>3. QED
    BY <1>1, <1>2, SystemInvariant, PTL DEF SysSpec

(* ... so that CreditedToLiveProcess holds: what is credited to a flow was *)
(* sent by a process of the flow's worker beside which no other is up.     *)
THEOREM CreditGoesToLive == SysSpec => CreditedToLiveProcess
  <1>1. SystemInOrder /\ CreditInOrder /\ [SysNext]_sysVars => CreditedLive
    BY StepCreditedLive, Zenon DEF SystemInOrder, Moves
  <1>2. CreditedLive <=> \A f \in Flows : Credited(f) =>
        \E b \in Boots :
          /\ toCoord'[b] # toCoord[b]
          /\ assigned[f] = WorkerOf[b]
          /\ \A c \in Boots \ {b} :
               WorkerOf[c] = WorkerOf[b] => proc[c] # "up"
    BY Zenon DEF CreditedLive
  <1>3. QED
    BY <1>1, <1>2, SystemInvariant, CreditInvariant, PTL DEF SysSpec, CreditedToLiveProcess
===============================================================================
