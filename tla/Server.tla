-------------------------------- MODULE Server --------------------------------
(***************************************************************************)
(* Who waits for whom in CoordinatorServer (src/transport.cpp): the thread *)
(* that accepts connections, one thread per connection, the scheduler, and *)
(* the caller of stop().  Threads block in accept, in recv, in send when   *)
(* the peer's buffer is full, on a mutex and in join.  The scheduler's     *)
(* look-up in the map of workers is taken apart: it takes workers_mutex_,  *)
(* looks and lets go.  The other threads, which do not block under it,     *)
(* wait until it is free and take it, change the map and let go in one     *)
(* step.  conn_mutex_ is wanted by accept_loop and, after it has ended, by *)
(* stop: a step under it is one action.                                    *)
(*                                                                         *)
(* What the frames say is left out (see Coordinator and FrameStream), but  *)
(* for Register, which takes the slot of a worker; every other request is  *)
(* answered by one frame.  Nothing makes a peer send, read or hang up.     *)
(***************************************************************************)
EXTENDS Integers, Sequences, Functions

CONSTANTS
  Conns,      \* connections that are ever made
  Workers,    \* identities under which peers register
  Identities, \* who the peers may be: functions from Conns to Workers
  NoConn,
  Room        \* frames a socket holds in each direction

ASSUME ServerAssumption ==
  /\ NoConn \notin Conns
  /\ Identities \subseteq [Conns -> Workers]
  /\ Room \in Nat \ {0}

VARIABLES
  running,    \* running_
  listening,  \* whether listen_ is open
  woken,      \* whether closing listen_ wakes the accept under way
  accepting,  \* the accept thread: "none", "accept" or "done"
  worker,     \* worker[c]: the identity the peer of c has
  peer,       \* peer[c]: "away", "silent", "joining", "joined" or "gone"
  inbox,      \* inbox[c]: frames of the peer the server has not read
  outbox,     \* outbox[c]: frames to the peer that it has not read
  shut,       \* connections that were shut down
  thread,     \* thread[c]: where the thread of c is
  writer,     \* writer[c]: who holds the write_mutex of c, "none", "conn" or "sched"
  slot,       \* workers_
  sched,      \* the scheduler: "none", "loop", "pick", "find", "lock", "send" or "done"
  target,     \* the connection it sends to
  workersMutex, \* who holds workers_mutex_ between two steps: "none" or "sched"
  stop        \* how far stop() is

peerVars == <<worker, peer>>
schedVars == <<sched, target, workersMutex>>
listenVars == <<listening, woken, accepting>>

vars == <<running, listenVars, peerVars, inbox, outbox, shut, thread, writer, slot,
          schedVars, stop>>

Init ==
  /\ running = FALSE
  /\ listening = TRUE
  /\ woken = FALSE
  /\ accepting = "none"
  /\ worker \in Identities
  /\ peer = [c \in Conns |-> "away"]
  /\ inbox = [c \in Conns |-> <<>>]
  /\ outbox = [c \in Conns |-> 0]
  /\ shut = {}
  /\ thread = [c \in Conns |-> "none"]
  /\ writer = [c \in Conns |-> "none"]
  /\ slot = [w \in Workers |-> NoConn]
  /\ sched = "none"
  /\ target = NoConn
  /\ workersMutex = "none"
  /\ stop = "idle"

Start ==
  /\ accepting = "none"
  /\ running' = TRUE
  /\ accepting' = "accept"
  /\ sched' = "loop"
  /\ UNCHANGED <<listening, woken, peerVars, inbox, outbox, shut, thread, writer, slot,
                 target, workersMutex, stop>>

-------------------------------------------------------------------------------
(* Peers: bgworker registers, waits for the answer and then reports and    *)
(* reads as it pleases.                                                    *)

Sends(c, frame) ==
  /\ c \notin shut
  /\ Len(inbox[c]) < Room
  /\ inbox' = [inbox EXCEPT ![c] = Append(@, frame)]

SendRegister(c) ==
  /\ peer[c] = "silent"
  /\ Sends(c, "Register")
  /\ peer' = [peer EXCEPT ![c] = "joining"]
  /\ UNCHANGED <<running, listenVars, worker, outbox, shut, thread, writer, slot,
                 schedVars, stop>>

SendReport(c) ==
  /\ peer[c] = "joined"
  /\ Sends(c, "Report")
  /\ UNCHANGED <<running, listenVars, peerVars, outbox, shut, thread, writer, slot,
                 schedVars, stop>>

Reads(c) ==
  /\ peer[c] \in {"joining", "joined"}
  /\ outbox[c] > 0
  /\ outbox' = [outbox EXCEPT ![c] = @ - 1]
  /\ peer' = [peer EXCEPT ![c] = "joined"]
  /\ UNCHANGED <<running, listenVars, worker, inbox, shut, thread, writer, slot,
                 schedVars, stop>>

(* The process ends, by itself or not, and its socket with it.             *)
HangUp(c) ==
  /\ peer[c] \in {"silent", "joining", "joined"}
  /\ peer' = [peer EXCEPT ![c] = "gone"]
  /\ outbox' = [outbox EXCEPT ![c] = 0]
  /\ UNCHANGED <<running, listenVars, worker, inbox, shut, thread, writer, slot,
                 schedVars, stop>>

Peer(c) == SendRegister(c) \/ SendReport(c) \/ Reads(c) \/ HangUp(c)

-------------------------------------------------------------------------------
(* accept_loop                                                             *)

(* A peer connects; accept() returns the connection and it gets a thread.  *)
Accept(c) ==
  /\ accepting = "accept"
  /\ peer[c] = "away"
  /\ listening \/ ~ woken
  /\ peer' = [peer EXCEPT ![c] = "silent"]
  /\ thread' = [thread EXCEPT ![c] = IF running THEN "recv" ELSE "leave"]
  /\ accepting' = IF running THEN "accept" ELSE "done"
  /\ UNCHANGED <<running, listening, woken, worker, inbox, outbox, shut, writer, slot,
                 schedVars, stop>>

(* accept() fails because listen_ was closed.                              *)
AcceptFails ==
  /\ accepting = "accept"
  /\ ~ listening
  /\ woken
  /\ accepting' = IF running THEN "accept" ELSE "done"
  /\ UNCHANGED <<running, listening, woken, peerVars, inbox, outbox, shut, thread, writer,
                 slot, schedVars, stop>>

-------------------------------------------------------------------------------
(* handle_connection                                                       *)

Goes(c, to) ==
  /\ thread' = [thread EXCEPT ![c] = to]
  /\ UNCHANGED <<running, listenVars, worker, shut, schedVars, stop>>

(* Nothing more comes or goes on the socket of c.                          *)
Dead(c) == c \in shut \/ peer[c] = "gone"

Recv(c) ==
  /\ thread[c] = "recv"
  /\ inbox[c] # <<>>
  /\ inbox' = [inbox EXCEPT ![c] = Tail(@)]
  /\ Goes(c, IF Head(inbox[c]) = "Register" THEN "register" ELSE "answer")
  /\ UNCHANGED <<peer, outbox, writer, slot>>

RecvEnds(c) ==
  /\ thread[c] = "recv"
  /\ Dead(c)
  /\ Goes(c, "leave")
  /\ UNCHANGED <<peer, inbox, outbox, writer, slot>>

(* Register: the connection takes over the slot of its worker.             *)
TakeSlot(c) ==
  /\ thread[c] = "register"
  /\ workersMutex = "none"
  /\ slot' = [slot EXCEPT ![worker[c]] = c]
  /\ Goes(c, "answer")
  /\ UNCHANGED <<peer, inbox, outbox, writer>>

(* Faulty variant: the answer is sent without the mutex.                   *)
AnswerUnlocked(c) ==
  /\ thread[c] = "answer"
  /\ Goes(c, "send")
  /\ UNCHANGED <<peer, inbox, outbox, writer, slot>>

(* send_on takes the connection's write_mutex.                             *)
LockWrite(c) ==
  /\ thread[c] = "answer"
  /\ writer[c] = "none"
  /\ writer' = [writer EXCEPT ![c] = "conn"]
  /\ Goes(c, "send")
  /\ UNCHANGED <<peer, inbox, outbox, slot>>

(* send_frame: it blocks while the buffer is full, and its failure is not  *)
(* looked at.                                                              *)
Sent(c) ==
  \/ Dead(c) /\ UNCHANGED outbox
  \/ ~ Dead(c) /\ outbox[c] < Room /\ outbox' = [outbox EXCEPT ![c] = @ + 1]

Answer(c) ==
  /\ thread[c] = "send"
  /\ Sent(c)
  /\ writer' = [writer EXCEPT ![c] = "none"]
  /\ Goes(c, IF running THEN "recv" ELSE "leave")
  /\ UNCHANGED <<peer, inbox, slot>>

(* The last thread to let go of a connection closes its socket.            *)
Closes(c) ==
  /\ peer' = [peer EXCEPT ![c] = "gone"]
  /\ inbox' = [inbox EXCEPT ![c] = <<>>]
  /\ outbox' = [outbox EXCEPT ![c] = 0]

Exits(c) ==
  /\ Goes(c, "exited")
  /\ IF target = c THEN UNCHANGED <<peer, inbox, outbox>> ELSE Closes(c)
  /\ UNCHANGED writer

(* Faulty variant: the slot of the worker is freed, whoever has it.        *)
LeaveWorker(c) ==
  /\ thread[c] = "leave"
  /\ workersMutex = "none"
  /\ slot' = [slot EXCEPT ![worker[c]] = NoConn]
  /\ Exits(c)

(* The thread frees the slots that are its own and returns.                *)
Leave(c) ==
  /\ thread[c] = "leave"
  /\ workersMutex = "none"
  /\ slot' = [w \in Workers |-> IF slot[w] = c THEN NoConn ELSE slot[w]]
  /\ Exits(c)

Thread(c) ==
  \/ Recv(c) \/ RecvEnds(c) \/ TakeSlot(c) \/ LockWrite(c) \/ Answer(c)
  \/ Leave(c)

-------------------------------------------------------------------------------
(* scheduler_loop: each turn ticks and then sends to the workers of the    *)
(* running flows, whichever they are.                                      *)

Turn ==
  /\ sched = "loop"
  /\ sched' = IF running THEN "pick" ELSE "done"
  /\ UNCHANGED <<running, listenVars, peerVars, inbox, outbox, shut, thread, writer, slot,
                 target, workersMutex, stop>>

(* A flow runs on some worker, whose connection is looked up.              *)
LockWorkers ==
  /\ sched = "pick"
  /\ Workers # {}
  /\ workersMutex = "none"
  /\ workersMutex' = "sched"
  /\ sched' = "find"
  /\ UNCHANGED <<running, listenVars, peerVars, inbox, outbox, shut, thread, writer, slot,
                 target, stop>>

(* The worker has a connection.                                            *)
Finds ==
  /\ sched = "find"
  /\ \E w \in Workers : slot[w] # NoConn /\ target' = slot[w]
  /\ sched' = "lock"
  /\ UNCHANGED <<running, listenVars, peerVars, inbox, outbox, shut, thread, writer, slot,
                 stop>>

(* A reference to the connection is taken, and the mutex is let go.        *)
Pick == Finds /\ workersMutex' = "none"

(* The worker has none.                                                    *)
Miss ==
  /\ sched = "find"
  /\ \E w \in Workers : slot[w] = NoConn
  /\ sched' = "pick"
  /\ workersMutex' = "none"
  /\ UNCHANGED <<running, listenVars, peerVars, inbox, outbox, shut, thread, writer, slot,
                 target, stop>>

(* No flow is left that runs on a worker.                                  *)
EndTurn ==
  /\ sched = "pick"
  /\ sched' = "loop"
  /\ UNCHANGED <<running, listenVars, peerVars, inbox, outbox, shut, thread, writer, slot,
                 target, workersMutex, stop>>

LockTarget ==
  /\ sched = "lock"
  /\ writer[target] = "none"
  /\ writer' = [writer EXCEPT ![target] = "sched"]
  /\ sched' = "send"
  /\ UNCHANGED <<running, listenVars, peerVars, inbox, outbox, shut, thread, slot,
                 target, workersMutex, stop>>

SendsTarget ==
  /\ sched = "send"
  /\ IF thread[target] = "exited"
     THEN (Dead(target) \/ outbox[target] < Room) /\ Closes(target)
     ELSE Sent(target) /\ UNCHANGED <<peer, inbox>>
  /\ writer' = [writer EXCEPT ![target] = "none"]
  /\ sched' = "pick"
  /\ target' = NoConn
  /\ UNCHANGED <<running, listenVars, worker, shut, thread, slot, stop>>

SendToTarget == SendsTarget /\ UNCHANGED workersMutex

(* Faulty variant: the frame is sent within the scope of the look-up's     *)
(* lock_guard, and the mutex is let go after it.                           *)
SchedulerHolding ==
  \/ Turn \/ LockWorkers \/ Miss \/ EndTurn \/ LockTarget
  \/ Finds /\ UNCHANGED workersMutex
  \/ SendsTarget /\ workersMutex' = "none"

Scheduler ==
  Turn \/ LockWorkers \/ Pick \/ Miss \/ EndTurn \/ LockTarget \/ SendToTarget

-------------------------------------------------------------------------------
(* stop()                                                                  *)

Stop ==
  /\ running
  /\ running' = FALSE
  /\ stop' = "close"
  /\ UNCHANGED <<listenVars, peerVars, inbox, outbox, shut, thread, writer, slot,
                 schedVars>>

(* Whether closing a socket wakes a thread that is already in accept()     *)
(* depends on the platform.                                                *)
CloseListen ==
  /\ stop = "close"
  /\ listening' = FALSE
  /\ woken' \in IF accepting = "accept" THEN BOOLEAN ELSE {TRUE}
  /\ stop' = "join accept"
  /\ UNCHANGED <<running, accepting, peerVars, inbox, outbox, shut, thread, writer, slot,
                 schedVars>>

JoinAccept ==
  /\ stop = "join accept"
  /\ accepting = "done"
  /\ stop' = "join scheduler"
  /\ UNCHANGED <<running, listenVars, peerVars, inbox, outbox, shut, thread, writer, slot,
                 schedVars>>

JoinScheduler ==
  /\ stop = "join scheduler"
  /\ sched = "done"
  /\ stop' = "shut down"
  /\ UNCHANGED <<running, listenVars, peerVars, inbox, outbox, shut, thread, writer, slot,
                 schedVars>>

(* Faulty variant: no socket is shut down.                                 *)
KeepSockets ==
  /\ stop = "shut down"
  /\ stop' = "join threads"
  /\ UNCHANGED <<running, listenVars, peerVars, inbox, outbox, shut, thread, writer, slot,
                 schedVars>>

(* The sockets in the map are shut down, and no others.                    *)
ShutdownSockets ==
  /\ stop = "shut down"
  /\ workersMutex = "none"
  /\ shut' = shut \cup (Range(slot) \ {NoConn})
  /\ stop' = "join threads"
  /\ UNCHANGED <<running, listenVars, peerVars, inbox, outbox, thread, writer, slot,
                 schedVars>>

JoinThreads ==
  /\ stop = "join threads"
  /\ \A c \in Conns : thread[c] \in {"none", "exited"}
  /\ stop' = "done"
  /\ UNCHANGED <<running, listenVars, peerVars, inbox, outbox, shut, thread, writer, slot,
                 schedVars>>

Stopper == CloseListen \/ JoinAccept \/ JoinScheduler \/ ShutdownSockets \/ JoinThreads

Next ==
  \/ Start
  \/ \E c \in Conns : Accept(c) \/ Peer(c) \/ Thread(c)
  \/ AcceptFails
  \/ Scheduler
  \/ Stop
  \/ Stopper

(* A thread that is not blocked goes on, and one that waits for the        *)
(* workers_mutex_ gets it if it is free again and again: the scheduler     *)
(* sleeps for 5 ms in every turn without it.  Nothing is asked of the      *)
(* peers.                                                                  *)
Fairness ==
  /\ WF_vars(Scheduler)
  /\ \A c \in Conns : WF_vars(Thread(c)) /\ SF_vars(TakeSlot(c))

Spec == Init /\ [][Next]_vars /\ Fairness

-------------------------------------------------------------------------------
(* Type invariant; whoever sends on a connection holds its write_mutex, so *)
(* that the frames of two threads do not interleave.                       *)
TypeOK ==
  /\ \A c \in Conns :
       /\ thread[c] = "send" <=> writer[c] = "conn"
       /\ (sched = "send" /\ target = c) <=> writer[c] = "sched"
       /\ outbox[c] \in 0..Room
  /\ workersMutex \in {"none", "sched"}
  /\ slot \in [Workers -> Conns \cup {NoConn}]
  /\ shut \subseteq Conns

(* "On disconnect, unregister this connection from the worker map if it is *)
(* ours": the end of a connection, of one that was replaced included,      *)
(* never takes the slot from the connection that has it, and a slot is     *)
(* never left with a connection whose thread has ended.                    *)
SlotsKept ==
  [][ \A w \in Workers :
        slot[w] # NoConn =>
          /\ slot'[w] = NoConn => thread[slot[w]] = "leave"
          /\ slot'[w] # NoConn => thread'[slot'[w]] # "exited" ]_vars

(* "So a blocking send cannot stall every other connection registration"   *)
(* (scheduler_loop): a Register that has arrived takes its slot, although  *)
(* the scheduler and any other thread may be blocked for ever in a send to *)
(* a peer that does not read.                                              *)
RegistrationServed ==
  \A c \in Conns :
    (running /\ thread[c] # "none" /\ peer[c] = "joining" /\ inbox[c] # <<>>)
      ~> (slot[worker[c]] = c \/ ~ running \/ peer[c] = "gone")

(* The ways in which stop() can be kept waiting: an accept that closing    *)
(* the socket did not wake; a peer that does not read what the scheduler   *)
(* sends, or what its thread sends while the scheduler waits for it; a     *)
(* connection that is not in the map.                                      *)
AcceptBlocked == accepting = "accept" /\ ~ woken

SchedulerBlocked == sched \in {"lock", "send"} /\ outbox[target] = Room

NotInMap(c) == thread[c] \in {"recv", "send"} /\ c \notin Range(slot)

(* Whether a thread of the server can move: what each of them waits for.   *)
ThreadReady(c) ==
  \/ thread[c] \in {"register", "leave"} /\ workersMutex = "none"
  \/ thread[c] = "recv" /\ (inbox[c] # <<>> \/ Dead(c))
  \/ thread[c] = "answer" /\ writer[c] = "none"
  \/ thread[c] = "send" /\ (Dead(c) \/ outbox[c] < Room)

SchedulerReady ==
  \/ sched \in {"loop", "pick", "find"}
  \/ sched = "lock" /\ writer[target] = "none"
  \/ sched = "send" /\ (Dead(target) \/ outbox[target] < Room)

StopperReady ==
  \/ stop = "close"
  \/ stop = "shut down" /\ workersMutex = "none"
  \/ stop = "join accept" /\ accepting = "done"
  \/ stop = "join scheduler" /\ sched = "done"
  \/ stop = "join threads" /\ \A c \in Conns : thread[c] \in {"none", "exited"}

Ready ==
  \/ accepting = "accept" /\ ~ listening /\ woken
  \/ SchedulerReady
  \/ StopperReady
  \/ \E c \in Conns : ThreadReady(c)

(* A thread that can move has a step to take.                              *)
ReadyEnables ==
  Ready => ENABLED (AcceptFails \/ Scheduler \/ Stopper \/ \E c \in Conns : Thread(c))

(* "A worker connection thread must be able to exit promptly instead of    *)
(* sitting in recv forever" (stop): when no thread of the server can move  *)
(* and stop() has not returned, it is one of these that holds it up, and   *)
(* never the connection of a registered worker, idle or blocked.           *)
StopHeldUp ==
  /\ ReadyEnables
  /\ stop \notin {"idle", "done"} =>
       \/ Ready
       \/ stop = "join accept" /\ AcceptBlocked
       \/ stop = "join scheduler" /\ SchedulerBlocked
       \/ stop = "join threads" /\ \E c \in Conns : NotInMap(c)
===============================================================================
