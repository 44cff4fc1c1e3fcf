----------------------------- MODULE Coordinator -----------------------------
(***************************************************************************)
(* The governor behind its server (src/transport.cpp) and the worker       *)
(* processes it drives (workers/bgworker.cpp).  One thread per connection  *)
(* serves a worker's frames, the scheduler thread ticks and then sends     *)
(* dispatches and grants from a copy of the flow table, and a worker       *)
(* process may die and be started again under another boot.                *)
(*                                                                         *)
(* A process connects once, so a connection is named by the process's      *)
(* boot.  A connection carries a FIFO of frames each way; MaxFrames is the *)
(* room in the socket's buffer, and a sender waits for room.  The Ack that *)
(* answers a report is left out: a worker ignores it.  Every flow has      *)
(* MaxBytes bytes to move.  Capacity does not change here and the clients  *)
(* only submit and cancel.                                                 *)
(***************************************************************************)
EXTENDS Governor, Sequences

CONSTANTS
  WorkerOf,     \* WorkerOf[b]: the worker whose process has boot b
  MaxFrames,    \* bound: frames under way in one direction
  NoJob

ASSUME CoordinatorAssumption ==
  /\ WorkerOf \in [Boots -> Workers]
  /\ MaxFrames \in Nat \ {0}
  /\ MaxBytes # 0

VARIABLES
  proc,         \* proc[b]: "down", "joining", "up" or "dead"
  jobs,         \* jobs[b][f]: what process b does for flow f
  toWorker,     \* toWorker[b]: frames from the coordinator to b
  toCoord,      \* toCoord[b]: frames from b to the coordinator
  thread,       \* thread[b]: where the thread of b's connection is
  slot,         \* workers_: the connection that owns worker w's slot
  turn,         \* where the scheduler thread is
  table,        \* its copy of the flow table
  todo,         \* the flows of the copy it has not handled yet
  dispatched    \* dispatched_[f], -1 for none

workerSide == <<proc, jobs>>
channels   == <<toWorker, toCoord>>
schedVars  == <<turn, table, todo, dispatched>>
serverVars == <<workerSide, channels, thread, slot, schedVars>>
sysVars    == <<vars, serverVars>>

(* list_flows, as far as the scheduler reads it.                           *)
FlowTable ==
  [ f \in Flows |->
      [ state |-> fstate[f], worker |-> assigned[f], boot |-> assignedBoot[f],
        attempt |-> attempt[f], fgen |-> fgen[f], rate |-> granted[f],
        rsv |-> rsvOf[f] ] ]

SysInit ==
  /\ Init
  /\ proc = [b \in Boots |-> "down"]
  /\ jobs = [b \in Boots |-> [f \in Flows |-> NoJob]]
  /\ toWorker = [b \in Boots |-> <<>>]
  /\ toCoord = [b \in Boots |-> <<>>]
  /\ thread = [b \in Boots |-> "read"]
  /\ slot = [w \in Workers |-> NoBoot]
  /\ turn = "tick"
  /\ table = FlowTable
  /\ todo = {}
  /\ dispatched = [f \in Flows |-> -1]

-------------------------------------------------------------------------------
(* Calls of clients and of the operator.                                   *)

ClientCall ==
  /\ \/ \E r \in Resources : AddResource(r)
     \/ \E p \in Paths : AddPath(p)
     \/ \E f \in Flows, s \in Specs : SubmitFlow(f, s)
     \/ \E f \in Flows : CancelFlow(f)
  /\ UNCHANGED serverVars

-------------------------------------------------------------------------------
(* The scheduler thread                                                    *)

(* A frame to a process that has died is lost, and nobody notices: the     *)
(* sends return an error that is not looked at (FrameStream!SendFails says *)
(* on which platforms).                                                    *)
Reaches(b) == proc[b] \in {"joining", "up"}

SendTo(b, frame) ==
  IF Reaches(b)
  THEN /\ Len(toWorker[b]) < MaxFrames
       /\ toWorker' = [toWorker EXCEPT ![b] = Append(@, frame)]
  ELSE UNCHANGED toWorker

SchedulerTick ==
  /\ turn = "tick"
  /\ Tick
  /\ turn' = "list"
  /\ UNCHANGED <<workerSide, channels, thread, slot, table, todo, dispatched>>

(* After its sleep the thread copies the flow table.                       *)
SchedulerList ==
  /\ turn = "list"
  /\ table' = FlowTable
  /\ todo' = Flows
  /\ turn' = "send"
  /\ UNCHANGED <<vars, workerSide, channels, thread, slot, dispatched>>

Dispatchable(e) == e.state = "Running" /\ e.worker # NoWorker /\ e.rsv # 0

(* Faulty variant: a dispatch is sent every time.                          *)
DispatchAlways(f) == TRUE

(* The attempt in the copy is not the one last dispatched.                 *)
NeedDispatch(f) == dispatched[f] # table[f].attempt

(* One flow of the copy.  The connection is looked up and then written to  *)
(* without the lock; it is the connection that was found that counts, so   *)
(* both are one step.                                                      *)
SchedulerSend(f) ==
  LET e == table[f] IN
  /\ turn = "send"
  /\ f \in todo
  /\ todo' = todo \ {f}
  /\ IF ~ Dispatchable(e) \/ slot[e.worker] = NoBoot
     THEN UNCHANGED <<toWorker, dispatched>>
     ELSE IF NeedDispatch(f)
     THEN /\ SendTo(slot[e.worker],
                    [ type |-> "FlowDispatch", flow |-> f, attempt |-> e.attempt,
                      fgen |-> e.fgen, boot |-> e.boot, rate |-> e.rate ])
          /\ dispatched' = [dispatched EXCEPT ![f] = e.attempt]
     ELSE /\ SendTo(slot[e.worker],
                    [ type |-> "FlowGrant", flow |-> f, rate |-> e.rate ])
          /\ UNCHANGED dispatched
  /\ UNCHANGED <<vars, workerSide, toCoord, thread, slot, turn, table>>

(* Flows that were not running in the copy may be dispatched again later.  *)
SchedulerClean ==
  /\ turn = "send"
  /\ todo = {}
  /\ dispatched' = [f \in Flows |->
                      IF table[f].state = "Running" THEN dispatched[f] ELSE -1]
  /\ turn' = "tick"
  /\ UNCHANGED <<vars, workerSide, channels, thread, slot, table, todo>>

Scheduler ==
  \/ SchedulerTick
  \/ SchedulerList
  \/ \E f \in Flows : SchedulerSend(f)
  \/ SchedulerClean

-------------------------------------------------------------------------------
(* The thread of a connection                                              *)

Incoming(b, type) ==
  /\ thread[b] = "read"
  /\ toCoord[b] # <<>>
  /\ Head(toCoord[b]).type = type

Consume(b) == toCoord' = [toCoord EXCEPT ![b] = Tail(@)]

(* Register: the governor learns of the worker first, ...                  *)
HandleRegister(b) ==
  /\ Incoming(b, "Register")
  /\ Consume(b)
  /\ RegisterWorker(WorkerOf[b], b)
  /\ thread' = [thread EXCEPT ![b] = "registered"]
  /\ UNCHANGED <<workerSide, toWorker, slot, schedVars>>

(* ... then the connection takes the worker's slot, ...                    *)
TakeSlot(b) ==
  /\ thread[b] = "registered"
  /\ slot' = [slot EXCEPT ![WorkerOf[b]] = b]
  /\ thread' = [thread EXCEPT ![b] = "slotted"]
  /\ UNCHANGED <<vars, workerSide, channels, schedVars>>

(* ... and only then is the worker answered.                               *)
SendRegisterAck(b) ==
  /\ thread[b] = "slotted"
  /\ SendTo(b, [type |-> "RegisterAck"])
  /\ thread' = [thread EXCEPT ![b] = "read"]
  /\ UNCHANGED <<vars, workerSide, toCoord, slot, schedVars>>

HandleReport(b) ==
  LET m == Head(toCoord[b]) IN
  /\ \/ /\ Incoming(b, "Progress")
        /\ ReportProgress(m.flow, m.attempt, m.fgen, m.boot, m.bytes)
     \/ /\ Incoming(b, "Completion")
        /\ ReportCompletion(m.flow, m.attempt, m.fgen, m.boot, m.bytes)
  /\ Consume(b)
  /\ UNCHANGED <<workerSide, toWorker, thread, slot, schedVars>>

(* A report without authority changes nothing; the worker is told so and   *)
(* does not listen.                                                        *)
RejectReport(b) ==
  /\ Incoming(b, "Progress") \/ Incoming(b, "Completion")
  /\ LET m == Head(toCoord[b])
     IN  ~ Authorised(m.flow, m.attempt, m.fgen, m.boot)
  /\ Consume(b)
  /\ UNCHANGED <<vars, workerSide, toWorker, thread, slot, schedVars>>

(* The stream has ended: the slot is given up if it is still this          *)
(* connection's.  The governor is not told.                                *)
Disconnect(b) ==
  /\ thread[b] = "read"
  /\ proc[b] = "dead"
  /\ toCoord[b] = <<>>
  /\ thread' = [thread EXCEPT ![b] = "closed"]
  /\ slot' = [w \in Workers |-> IF slot[w] = b THEN NoBoot ELSE slot[w]]
  /\ UNCHANGED <<vars, workerSide, channels, schedVars>>

Connection(b) ==
  \/ HandleRegister(b) \/ TakeSlot(b) \/ SendRegisterAck(b)
  \/ HandleReport(b) \/ RejectReport(b) \/ Disconnect(b)

-------------------------------------------------------------------------------
(* A worker process                                                        *)

(* A process is started once the one before it has died.                   *)
WorkerStart(b) ==
  /\ proc[b] = "down"
  /\ \A c \in Boots : WorkerOf[c] = WorkerOf[b] => ~ Reaches(c)
  /\ proc' = [proc EXCEPT ![b] = "joining"]
  /\ toCoord' = [toCoord EXCEPT ![b] = <<[type |-> "Register"]>>]
  /\ UNCHANGED <<vars, jobs, toWorker, thread, slot, schedVars>>

(* The process is gone.  What it sent may or may not still arrive.         *)
Gone(b) ==
  /\ proc' = [proc EXCEPT ![b] = "dead"]
  /\ jobs' = [jobs EXCEPT ![b] = [f \in Flows |-> NoJob]]
  /\ toWorker' = [toWorker EXCEPT ![b] = <<>>]

WorkerDies(b) ==
  /\ Reaches(b)
  /\ Gone(b)
  /\ \E n \in 0..Len(toCoord[b]) :
       toCoord' = [toCoord EXCEPT ![b] = SubSeq(@, 1, n)]
  /\ UNCHANGED <<vars, thread, slot, schedVars>>

(* The first frame must be the RegisterAck; at any other the process exits. *)
WorkerJoin(b) ==
  /\ proc[b] = "joining"
  /\ toWorker[b] # <<>>
  /\ IF Head(toWorker[b]).type = "RegisterAck"
     THEN /\ proc' = [proc EXCEPT ![b] = "up"]
          /\ toWorker' = [toWorker EXCEPT ![b] = Tail(@)]
          /\ UNCHANGED jobs
     ELSE Gone(b)
  /\ UNCHANGED <<vars, toCoord, thread, slot, schedVars>>

NewJob(m) ==
  [ attempt |-> m.attempt, fgen |-> m.fgen, boot |-> m.boot, rate |-> m.rate,
    moved |-> 0, accum |-> 0 ]

(* Faulty variant: the backend goes on where the job before it stopped.    *)
JobContinued(j, m) ==
  [NewJob(m) EXCEPT !.moved = IF j = NoJob THEN 0 ELSE j.moved]

(* A dispatch replaces the job and starts the backend anew.                *)
JobFor(j, m) == NewJob(m)

(* A grant for a flow without a job is without effect: a dispatch brings   *)
(* its own.                                                                *)
WorkerReceive(b) ==
  LET m == Head(toWorker[b]) IN
  /\ proc[b] = "up"
  /\ toWorker[b] # <<>>
  /\ toWorker' = [toWorker EXCEPT ![b] = Tail(@)]
  /\ jobs' = [jobs EXCEPT ![b][m.flow] =
                IF m.type = "FlowDispatch" THEN JobFor(@, m)
                ELSE IF @ = NoJob THEN NoJob ELSE [@ EXCEPT !.rate = m.rate]]
  /\ UNCHANGED <<vars, proc, toCoord, thread, slot, schedVars>>

Report(type, f, j) ==
  [ type |-> type, flow |-> f, attempt |-> j.attempt, fgen |-> j.fgen,
    boot |-> j.boot, bytes |-> j.accum ]

(* Faulty variants: a job that is done is kept; any job that was reported  *)
(* on is forgotten.                                                        *)
JobKept(j) == j

JobForgotten(j) == NoJob

JobAfter(j) == IF j.moved = MaxBytes THEN NoJob ELSE j

(* The backend moves some bytes within the grant; the worker reports them, *)
(* and forgets the job once it is done.                                    *)
WorkerStep(b, f) ==
  /\ proc[b] = "up"
  /\ jobs[b][f] # NoJob
  /\ jobs[b][f].rate > 0
  /\ Len(toCoord[b]) < MaxFrames
  /\ \E n \in 1..(MaxBytes - jobs[b][f].moved) :
       LET j == [jobs[b][f] EXCEPT !.moved = @ + n, !.accum = @ + n]
           type == IF j.moved = MaxBytes THEN "Completion" ELSE "Progress"
       IN  /\ jobs' = [jobs EXCEPT ![b][f] = JobAfter(j)]
           /\ toCoord' = [toCoord EXCEPT ![b] = Append(@, Report(type, f, j))]
  /\ UNCHANGED <<vars, proc, toWorker, thread, slot, schedVars>>

Worker(b) == WorkerJoin(b) \/ WorkerReceive(b) \/ \E f \in Flows : WorkerStep(b, f)

SysNext ==
  \/ ClientCall
  \/ Scheduler
  \/ \E b \in Boots :
       Connection(b) \/ WorkerStart(b) \/ WorkerDies(b) \/ Worker(b)

SysSpec == SysInit /\ [][SysNext]_sysVars

(* The threads of the coordinator run on, and so does a worker process     *)
(* while it lives; nothing says that one is started, or dies, or that a    *)
(* client calls.                                                           *)
FairSysSpec ==
  /\ SysSpec
  /\ WF_sysVars(SchedulerTick)
  /\ WF_sysVars(SchedulerList)
  /\ \A f \in Flows : WF_sysVars(SchedulerSend(f))
  /\ WF_sysVars(SchedulerClean)
  /\ \A b \in Boots :
       /\ WF_sysVars(Connection(b))
       /\ WF_sysVars(WorkerJoin(b))
       /\ WF_sysVars(WorkerReceive(b))
       /\ \A f \in Flows : WF_sysVars(WorkerStep(b, f))

-------------------------------------------------------------------------------
(* Type invariant of the server and the workers.                           *)
SysTypeOK ==
  /\ proc \in [Boots -> {"down", "joining", "up", "dead"}]
  /\ thread \in [Boots -> {"read", "registered", "slotted", "closed"}]
  /\ slot \in [Workers -> Boots \cup {NoBoot}]
  /\ turn \in {"tick", "list", "send"}
  /\ todo \in SUBSET Flows
  /\ dispatched \in [Flows -> -1..MaxMint]
  /\ \A b \in Boots :
       /\ Len(toWorker[b]) <= MaxFrames
       /\ Len(toCoord[b]) <= MaxFrames
       /\ \A f \in Flows : jobs[b][f] # NoJob =>
            /\ proc[b] = "up"
            /\ jobs[b][f].moved \in 0..(MaxBytes - 1)

(* The governor marks a flow Completed on a worker's word and never        *)
(* compares byte counts.  All the same a completed flow has moved all its  *)
(* bytes, in one attempt, whatever was dispatched again, died or came late. *)
CompletedMeansTransferred ==
  \A f \in Flows : fstate[f] = "Completed" => bytes[f] = MaxBytes

(* Once a process is up, nothing that another process of its worker sent   *)
(* is credited to a flow, although what the dead have sent still arrives,  *)
(* registrations included, and jobs carry the boot the scheduler copied.   *)
Credited(f) == bytes'[f] > bytes[f] \/ (fstate'[f] = "Completed" /\ fstate[f] # "Completed")

CreditedToLiveProcess ==
  [][ \A f \in Flows : Credited(f) =>
        \E b \in Boots :
          /\ toCoord'[b] # toCoord[b]
          /\ assigned[f] = WorkerOf[b]
          /\ \A c \in Boots \ {b} :
               WorkerOf[c] = WorkerOf[b] => proc[c] # "up" ]_sysVars

(* tick() may throttle or preempt a flow with these demands.               *)
Interruptible(s) == s.min > 0 \/ s.preemptible

(* A process is given the attempts of a flow in order: no job is replaced  *)
(* by one of an earlier attempt, although the scheduler sends from a stale *)
(* copy.  Nor is it replaced by one of the same attempt, which starts the  *)
(* transfer over, unless the flow is one that tick() interrupts: those the *)
(* scheduler drops from dispatched_ while they are not running, to "allow  *)
(* re-dispatch later", and dispatches again when they are.                 *)
DispatchedOnce ==
  [][ \A b \in Boots, f \in Flows :
        jobs[b][f] # NoJob /\ jobs'[b][f] # NoJob =>
          \/ jobs'[b][f].attempt > jobs[b][f].attempt
          \/ /\ jobs'[b][f].attempt = jobs[b][f].attempt
             /\ jobs'[b][f].moved >= jobs[b][f].moved \/ Interruptible(spec[f]) ]_sysVars

(* The process that serves flow f, if there is one.                        *)
Serving(f) ==
  { b \in Boots : /\ fstate[f] = "Running"
                  /\ assigned[f] = WorkerOf[b]
                  /\ wboot[WorkerOf[b]] = b
                  /\ slot[WorkerOf[b]] = b
                  /\ proc[b] = "up" }

(* Once the process that serves a flow has the job of its current attempt, *)
(* retries included, the flow does not run there for ever: the worker      *)
(* reports its completion once and drops the job, so that report must not  *)
(* be lost or refused while the process serves the flow.                   *)
AtWork(f, b) ==
  b \in Serving(f) /\ jobs[b][f] # NoJob /\ jobs[b][f].attempt = attempt[f]

ServedFlowsSettle ==
  \A f \in Flows, b \in Boots : AtWork(f, b) ~> b \notin Serving(f)

(* What the comment in register_worker says of a flow whose worker was     *)
(* restarted: it "is re-queued for dispatch".  A running flow that was     *)
(* retried does not stay for ever without a job, and without a report      *)
(* under way, at the restarted process that serves it.                     *)
Stranded(f) ==
  /\ fgen[f] > 0
  /\ \E b \in Serving(f) : jobs[b][f] = NoJob /\ toCoord[b] = <<>>

RetriedWorkDispatched == \A f \in Flows : []<>(~ Stranded(f))
===============================================================================
