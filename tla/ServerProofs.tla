----------------------------- MODULE ServerProofs -----------------------------
(***************************************************************************)
(* The coordinator's server around the governor, for any number of         *)
(* connections, workers, messages and saves: its threads and whom they     *)
(* wait for (Server), the byte streams they write and read (FrameStream)   *)
(* and the state file that Save requests write (StateFile).                *)
(***************************************************************************)
EXTENDS Server, FrameStream, StateFile, SequenceTheorems, TLAPS

-------------------------------------------------------------------------------
(* The threads of the server                                               *)

(* The places where each thread can be.                                    *)
Places ==
  /\ thread \in [Conns -> {"none", "recv", "register", "answer", "send", "leave", "exited"}]
  /\ writer \in [Conns -> {"none", "conn", "sched"}]
  /\ peer \in [Conns -> {"away", "silent", "joining", "joined", "gone"}]
  /\ inbox \in [Conns -> Seq({"Register", "Report"})]
  /\ outbox \in [Conns -> 0..Room]
  /\ worker \in [Conns -> Workers]
  /\ slot \in [Workers -> Conns \cup {NoConn}]
  /\ target \in Conns \cup {NoConn}
  /\ shut \subseteq Conns
  /\ sched \in {"none", "loop", "pick", "find", "lock", "send", "done"}
  /\ workersMutex \in {"none", "sched"}
  /\ accepting \in {"none", "accept", "done"}
  /\ stop \in {"idle", "close", "join accept", "join scheduler", "shut down",
               "join threads", "done"}
  /\ running \in BOOLEAN
  /\ listening \in BOOLEAN
  /\ woken \in BOOLEAN

(* Who sends on a connection holds its mutex, and the scheduler has a      *)
(* target just while it locks and sends, and workers_mutex_ just while it  *)
(* looks a connection up.                                                  *)
MutexHeld ==
  /\ \A c \in Conns : thread[c] = "send" <=> writer[c] = "conn"
  /\ \A c \in Conns : (sched = "send" /\ target = c) <=> writer[c] = "sched"
  /\ sched \in {"lock", "send"} <=> target # NoConn
  /\ workersMutex = "sched" <=> sched = "find"

(* A connection has no thread before it is made, and a slot is held by a   *)
(* connection whose thread has not ended.                                  *)
SlotsLive ==
  /\ \A c \in Conns : peer[c] = "away" => thread[c] = "none"
  /\ \A w \in Workers : slot[w] # NoConn => thread[slot[w]] \notin {"none", "exited"}

(* Nothing has been sent to c: it has not registered yet.                  *)
Unserved(c) ==
  /\ outbox[c] = 0
  /\ target # c
  /\ peer[c] # "joined"
  /\ \A w \in Workers : slot[w] # c

(* A peer registers once, and first.                                       *)
RegistersFirst(c) ==
  /\ peer[c] \in {"away", "silent"} =>
       Len(inbox[c]) = 0 /\ thread[c] \in {"none", "recv", "leave", "exited"} /\ Unserved(c)
  /\ \A i \in 1..Len(inbox[c]) : inbox[c][i] = "Register" =>
       Len(inbox[c]) = 1 /\ thread[c] \in {"none", "recv", "leave", "exited"} /\ Unserved(c)
  /\ thread[c] = "register" => Len(inbox[c]) = 0 /\ Unserved(c)

(* How far stop() is says who has ended.                                   *)
StopProgress ==
  /\ accepting = "none" <=> sched = "none"
  /\ accepting = "none" => stop = "idle" /\ ~ running
  /\ stop # "idle" => ~ running
  /\ stop \notin {"idle", "close"} => ~ listening
  /\ stop \in {"join scheduler", "shut down", "join threads", "done"} => accepting = "done"
  /\ stop \in {"shut down", "join threads", "done"} => sched = "done"

(* Once the sockets in the map were shut down, a connection that is in the *)
(* map registered too late for that, and is at its first answer.           *)
LateInMap ==
  stop \in {"join threads", "done"} =>
    \A w \in Workers : slot[w] # NoConn =>
      \/ slot[w] \in shut
      \/ thread[slot[w]] = "leave"
      \/ thread[slot[w]] \in {"answer", "send"} /\ outbox[slot[w]] = 0

(* The inductive invariant.                                                *)
ServerInv ==
  /\ Places
  /\ MutexHeld
  /\ SlotsLive
  /\ \A c \in Conns : RegistersFirst(c)
  /\ StopProgress
  /\ LateInMap
-------------------------------------------------------------------------------
(* What the threads do to the queues of a connection keeps their types.    *)

(* A frame is sent, or lost because the peer is gone (send_frame).         *)
LEMMA SentType ==
  ASSUME Places, NEW c \in Conns, Sent(c)
  PROVE  /\ outbox' \in [Conns -> 0..Room]
         /\ \A d \in Conns : d # c => outbox'[d] = outbox[d]
  <1>1. outbox \in [Conns -> 0..Room] /\ Room \in Nat
    BY ServerAssumption, Zenon DEF Places
  <1>2. CASE UNCHANGED outbox
    BY <1>1, <1>2
  <1>3. CASE outbox[c] < Room /\ outbox' = [outbox EXCEPT ![c] = @ + 1]
    <2>1. outbox[c] + 1 \in 0..Room
      BY <1>1, <1>3
    <2>2. QED
      BY <1>1, <1>3, <2>1
  <1>4. QED
    BY <1>2, <1>3 DEF Sent

(* A socket is closed.                                                     *)
LEMMA ClosesType ==
  ASSUME Places, NEW c \in Conns, Closes(c)
  PROVE  /\ peer' \in [Conns -> {"away", "silent", "joining", "joined", "gone"}]
         /\ inbox' \in [Conns -> Seq({"Register", "Report"})]
         /\ outbox' \in [Conns -> 0..Room]
         /\ peer'[c] = "gone" /\ inbox'[c] = <<>> /\ outbox'[c] = 0
         /\ \A d \in Conns : d # c =>
              peer'[d] = peer[d] /\ inbox'[d] = inbox[d] /\ outbox'[d] = outbox[d]
  <1>1. 0 \in 0..Room
    BY ServerAssumption
  <1>2. <<>> \in Seq({"Register", "Report"})
    OBVIOUS
  <1>3. QED
    BY <1>1, <1>2, Zenon DEF Closes, Places

(* A peer sends a frame.                                                   *)
LEMMA SendsType ==
  ASSUME Places, NEW c \in Conns, NEW frame \in {"Register", "Report"}, Sends(c, frame)
  PROVE  /\ inbox' \in [Conns -> Seq({"Register", "Report"})]
         /\ inbox'[c] = Append(inbox[c], frame)
         /\ \A d \in Conns : d # c => inbox'[d] = inbox[d]
  <1>1. inbox \in [Conns -> Seq({"Register", "Report"})]
    BY Zenon DEF Places
  <1>2. Append(inbox[c], frame) \in Seq({"Register", "Report"})
    BY <1>1
  <1>3. QED
    BY <1>1, <1>2 DEF Sends

(* Peers stay where a peer can be.                                         *)
LEMMA PeerPlaces == ASSUME Places, NEW c \in Conns, Peer(c) PROVE Places'
  <1> USE DEF listenVars, peerVars, schedVars
  <1>1. CASE SendRegister(c)
    <2>1. inbox' \in [Conns -> Seq({"Register", "Report"})]
      BY <1>1, SendsType DEF SendRegister
    <2>2. QED
      BY <1>1, <2>1, Zenon DEF SendRegister, Places
  <1>2. CASE SendReport(c)
    <2>1. inbox' \in [Conns -> Seq({"Register", "Report"})]
      BY <1>2, SendsType DEF SendReport
    <2>2. QED
      BY <1>2, <2>1, Zenon DEF SendReport, Places
  <1>3. CASE Reads(c)
    <2>1. outbox[c] - 1 \in 0..Room
      <3>1. outbox[c] \in 0..Room /\ outbox[c] > 0
        BY <1>3, Zenon DEF Reads, Places
      <3>2. QED
        BY <3>1, ServerAssumption
    <2>2. outbox' \in [Conns -> 0..Room]
      BY <1>3, <2>1, Zenon DEF Reads, Places
    <2>3. QED
      BY <1>3, <2>2, Zenon DEF Reads, Places
  <1>4. CASE HangUp(c)
    <2>1. 0 \in 0..Room
      BY ServerAssumption
    <2>2. outbox' \in [Conns -> 0..Room]
      BY <1>4, <2>1, Zenon DEF HangUp, Places
    <2>3. QED
      BY <1>4, <2>2, Zenon DEF HangUp, Places
  <1>5. QED
    BY <1>1, <1>2, <1>3, <1>4 DEF Peer

(* So do connection threads.                                               *)
LEMMA ThreadPlaces == ASSUME Places, NEW c \in Conns, Thread(c) PROVE Places'
  <1> USE DEF listenVars, schedVars, Goes
  <1>1. CASE Recv(c)
    <2>1. Tail(inbox[c]) \in Seq({"Register", "Report"})
      <3>1. inbox[c] \in Seq({"Register", "Report"}) /\ inbox[c] # <<>>
        BY <1>1, Zenon DEF Recv, Places
      <3>2. QED
        BY <3>1
    <2>2. inbox' \in [Conns -> Seq({"Register", "Report"})]
      BY <1>1, <2>1, Zenon DEF Recv, Places
    <2>3. QED
      BY <1>1, <2>2, Zenon DEF Recv, Places
  <1>2. CASE RecvEnds(c)
    BY <1>2, Zenon DEF RecvEnds, Places
  <1>3. CASE TakeSlot(c)
    BY <1>3, Zenon DEF TakeSlot, Places
  <1>4. CASE LockWrite(c)
    BY <1>4, Zenon DEF LockWrite, Places
  <1>5. CASE Answer(c)
    <2>1. outbox' \in [Conns -> 0..Room]
      BY <1>5, SentType DEF Answer
    <2>2. QED
      BY <1>5, <2>1, Zenon DEF Answer, Places
  <1>6. CASE Leave(c)
    <2>1. /\ peer' \in [Conns -> {"away", "silent", "joining", "joined", "gone"}]
          /\ inbox' \in [Conns -> Seq({"Register", "Report"})]
          /\ outbox' \in [Conns -> 0..Room]
      <3>1. CASE target = c
        BY <1>6, <3>1, Zenon DEF Leave, Exits, Places
      <3>2. CASE target # c
        BY <1>6, <3>2, ClosesType DEF Leave, Exits
      <3>3. QED
        BY <3>1, <3>2
    <2>2. slot' \in [Workers -> Conns \cup {NoConn}]
      BY <1>6, Zenon DEF Leave, Places
    <2>3. QED
      BY <1>6, <2>1, <2>2, Zenon DEF Leave, Exits, Places
  <1>7. QED
    BY <1>1, <1>2, <1>3, <1>4, <1>5, <1>6 DEF Thread

(* So does the scheduler.                                                  *)
LEMMA SchedulerPlaces ==
  ASSUME Places, Scheduler, sched = "send" => target # NoConn
  PROVE  Places'
  <1> USE DEF listenVars, peerVars
  <1>1. CASE Turn
    BY <1>1, Zenon DEF Turn, Places
  <1>2. CASE LockWorkers \/ Pick \/ Miss
    BY <1>2, Zenon DEF LockWorkers, Pick, Finds, Miss, Places
  <1>3. CASE EndTurn
    BY <1>3, Zenon DEF EndTurn, Places
  <1>4. CASE LockTarget
    BY <1>4, Zenon DEF LockTarget, Places
  <1>5. CASE SendToTarget
    <2>1. target \in Conns
      BY <1>5, Zenon DEF SendToTarget, SendsTarget, Places
    <2>2. /\ peer' \in [Conns -> {"away", "silent", "joining", "joined", "gone"}]
          /\ inbox' \in [Conns -> Seq({"Register", "Report"})]
          /\ outbox' \in [Conns -> 0..Room]
      <3>1. CASE thread[target] = "exited"
        BY <1>5, <2>1, <3>1, ClosesType DEF SendToTarget, SendsTarget
      <3>2. CASE thread[target] # "exited"
        BY <1>5, <2>1, <3>2, SentType, Zenon DEF SendToTarget, SendsTarget, Places
      <3>3. QED
        BY <3>1, <3>2
    <2>3. QED
      BY <1>5, <2>1, <2>2, Zenon DEF SendToTarget, SendsTarget, Places
  <1>6. QED
    BY <1>1, <1>2, <1>3, <1>4, <1>5 DEF Scheduler

(* So do start, accept_loop and stop.                                      *)
LEMMA StopPlaces ==
  ASSUME Places, Start \/ AcceptFails \/ Stop \/ Stopper \/ \E c \in Conns : Accept(c)
  PROVE  Places'
  <1> USE DEF listenVars, peerVars, schedVars
  <1>1. CASE Start
    BY <1>1, Zenon DEF Start, Places
  <1>2. CASE AcceptFails
    BY <1>2, Zenon DEF AcceptFails, Places
  <1>3. CASE Stop
    BY <1>3, Zenon DEF Stop, Places
  <1>4. CASE CloseListen
    BY <1>4, Zenon DEF CloseListen, Places
  <1>5. CASE JoinAccept
    BY <1>5, Zenon DEF JoinAccept, Places
  <1>6. CASE JoinScheduler
    BY <1>6, Zenon DEF JoinScheduler, Places
  <1>7. CASE ShutdownSockets
    <2>1. shut' \subseteq Conns
      <3>1. shut' = shut \cup (Range(slot) \ {NoConn})
        BY <1>7, Zenon DEF ShutdownSockets
      <3>2. shut \subseteq Conns /\ slot \in [Workers -> Conns \cup {NoConn}]
        BY Zenon DEF Places
      <3>3. QED
        BY <3>1, <3>2 DEF Range
    <2>2. QED
      BY <1>7, <2>1, Zenon DEF ShutdownSockets, Places
  <1>8. CASE JoinThreads
    BY <1>8, Zenon DEF JoinThreads, Places
  <1>9. ASSUME NEW c \in Conns, Accept(c) PROVE Places'
    BY <1>9, Zenon DEF Accept, Places
  <1>10. QED
    BY <1>1, <1>2, <1>3, <1>4, <1>5, <1>6, <1>7, <1>8, <1>9 DEF Stopper

(* The mutex of a connection stays with whoever sends on it (send_on).     *)
LEMMA MutexKept == ASSUME ServerInv, Next PROVE MutexHeld'
  <1> USE DEF ServerInv, Places, MutexHeld, listenVars, peerVars, schedVars, Goes
  <1>1. CASE Start
    <2>1. /\ sched = "none" /\ sched' = "loop"
          /\ UNCHANGED <<thread, writer, target, workersMutex>>
      BY <1>1 DEF Start, StopProgress
    <2>2. QED
      BY <2>1, Zenon
  <1>2. ASSUME NEW c \in Conns, Accept(c) PROVE MutexHeld'
    <2>1. thread[c] = "none"
      BY <1>2, Zenon DEF Accept, SlotsLive
    <2>2. /\ thread' = [thread EXCEPT ![c] = IF running THEN "recv" ELSE "leave"]
          /\ UNCHANGED <<writer, sched, target, workersMutex>>
      BY <1>2, Zenon DEF Accept
    <2>3. QED
      BY <2>1, <2>2, Zenon
  <1>3. ASSUME NEW c \in Conns, Peer(c) PROVE MutexHeld'
    BY <1>3, Zenon DEF Peer, SendRegister, SendReport, Reads, HangUp
  <1>4. ASSUME NEW c \in Conns, Thread(c) PROVE MutexHeld'
    <2>1. CASE Recv(c) \/ RecvEnds(c) \/ TakeSlot(c)
      BY <2>1, Zenon DEF Recv, RecvEnds, TakeSlot
    <2>2. CASE LockWrite(c)
      BY <2>2, Zenon DEF LockWrite
    <2>3. CASE Answer(c)
      BY <2>3, Zenon DEF Answer
    <2>4. CASE Leave(c)
      BY <2>4, Zenon DEF Leave, Exits
    <2>5. QED
      BY <1>4, <2>1, <2>2, <2>3, <2>4, Zenon DEF Thread
  <1>5. CASE AcceptFails \/ Stop \/ Stopper
    BY <1>5, Zenon DEF AcceptFails, Stop, Stopper, CloseListen, JoinAccept, JoinScheduler,
                ShutdownSockets, JoinThreads
  <1>6. CASE Scheduler
    <2>1. CASE Turn \/ LockWorkers \/ Miss \/ EndTurn
      BY <2>1, Zenon DEF Turn, LockWorkers, Miss, EndTurn
    <2>2. CASE Pick
      BY <2>2, ServerAssumption, Zenon DEF Pick, Finds
    <2>3. CASE LockTarget
      BY <2>3, Zenon DEF LockTarget
    <2>4. CASE SendToTarget
      BY <2>4, Zenon DEF SendToTarget, SendsTarget
    <2>5. QED
      BY <1>6, <2>1, <2>2, <2>3, <2>4, Zenon DEF Scheduler
  <1>7. QED
    BY <1>1, <1>2, <1>3, <1>4, <1>5, <1>6, Zenon DEF Next

(* A slot stays with a connection whose thread runs (the end of            *)
(* handle_connection), and a connection that is not made has no thread.    *)
LEMMA SlotsLiveKept == ASSUME ServerInv, Next PROVE SlotsLive'
  <1> USE DEF ServerInv, Places, SlotsLive, listenVars, peerVars, schedVars, Goes
  <1>1. CASE Start \/ AcceptFails \/ Stop \/ Stopper
    BY <1>1, Zenon DEF Start, AcceptFails, Stop, Stopper, CloseListen, JoinAccept, JoinScheduler,
                ShutdownSockets, JoinThreads
  <1>2. ASSUME NEW c \in Conns, Accept(c) PROVE SlotsLive'
    BY <1>2, Zenon DEF Accept
  <1>3. ASSUME NEW c \in Conns, Peer(c) PROVE SlotsLive'
    <2>1. UNCHANGED <<thread, slot>>
      BY <1>3, Zenon DEF Peer, SendRegister, SendReport, Reads, HangUp
    <2>2. \A d \in Conns : peer'[d] = "away" => peer[d] = "away"
      BY <1>3, Zenon DEF Peer, SendRegister, SendReport, Reads, HangUp
    <2>3. QED
      BY <2>1, <2>2, Zenon
  <1>4. ASSUME NEW c \in Conns, Thread(c) PROVE SlotsLive'
    <2>1. CASE Recv(c) \/ RecvEnds(c) \/ LockWrite(c) \/ Answer(c)
      <3>1. /\ UNCHANGED <<peer, slot>>
            /\ thread[c] # "none"
            /\ \E to \in {"register", "answer", "leave", "send", "recv"} :
                 thread' = [thread EXCEPT ![c] = to]
        BY <2>1, Zenon DEF Recv, RecvEnds, LockWrite, Answer
      <3>2. QED
        BY <3>1, Zenon
    <2>2. CASE TakeSlot(c)
      BY <2>2, Zenon DEF TakeSlot
    <2>3. CASE Leave(c)
      <3>1. /\ thread[c] = "leave"
            /\ thread' = [thread EXCEPT ![c] = "exited"]
            /\ slot' = [w \in Workers |-> IF slot[w] = c THEN NoConn ELSE slot[w]]
        BY <2>3, Zenon DEF Leave, Exits
      <3>2. \A d \in Conns : peer'[d] = "away" => d # c /\ peer[d] = "away"
        BY <2>3, Zenon DEF Leave, Exits, Closes
      <3>3. QED
        BY <3>1, <3>2, Zenon
    <2>4. QED
      BY <1>4, <2>1, <2>2, <2>3, Zenon DEF Thread
  <1>5. CASE Scheduler
    <2>1. UNCHANGED <<thread, slot>>
      BY <1>5, Zenon DEF Scheduler, Turn, LockWorkers, Pick, Finds, Miss, EndTurn, LockTarget,
                  SendToTarget, SendsTarget
    <2>2. \A d \in Conns : peer'[d] = "away" => peer[d] = "away"
      BY <1>5, Zenon DEF Scheduler, Turn, LockWorkers, Pick, Finds, Miss, EndTurn, LockTarget,
                  SendToTarget, SendsTarget, Closes
    <2>3. QED
      BY <2>1, <2>2, Zenon
  <1>6. QED
    BY <1>1, <1>2, <1>3, <1>4, <1>5, Zenon DEF Next

(* stop() goes on only when those it waits for have ended.                 *)
LEMMA StopProgressKept == ASSUME ServerInv, Next PROVE StopProgress'
  <1> USE DEF ServerInv, Places, StopProgress, listenVars, peerVars, schedVars, Goes
  <1>1. CASE Start
    BY <1>1 DEF Start
  <1>2. ASSUME NEW c \in Conns, Accept(c) PROVE StopProgress'
    BY <1>2, Zenon DEF Accept
  <1>3. ASSUME NEW c \in Conns, Peer(c) \/ Thread(c) PROVE StopProgress'
    <2>1. UNCHANGED <<running, listenVars, sched, stop>>
      BY <1>3, Zenon DEF Peer, SendRegister, SendReport, Reads, HangUp, Thread, Recv, RecvEnds,
                  TakeSlot, LockWrite, Answer, Leave, Exits
    <2>2. QED
      BY <2>1, Zenon
  <1>4. CASE AcceptFails
    BY <1>4, Zenon DEF AcceptFails
  <1>5. CASE Scheduler
    <2>1. CASE Turn
      BY <2>1, Zenon DEF Turn
    <2>2. CASE LockWorkers \/ Pick \/ Miss \/ EndTurn \/ LockTarget \/ SendToTarget
      <3>1. /\ sched \notin {"none", "done"} /\ sched' \notin {"none", "done"}
            /\ UNCHANGED <<running, listenVars, stop>>
        BY <2>2, Zenon DEF LockWorkers, Pick, Finds, Miss, EndTurn, LockTarget, SendToTarget,
                    SendsTarget
      <3>2. QED
        BY <3>1, Zenon
    <2>3. QED
      BY <1>5, <2>1, <2>2, Zenon DEF Scheduler
  <1>6. CASE Stop
    BY <1>6, Zenon DEF Stop
  <1>7. CASE Stopper
    <2>1. CASE CloseListen
      BY <2>1, Zenon DEF CloseListen
    <2>2. CASE JoinAccept
      BY <2>2, Zenon DEF JoinAccept
    <2>3. CASE JoinScheduler
      BY <2>3, Zenon DEF JoinScheduler
    <2>4. CASE ShutdownSockets
      BY <2>4, Zenon DEF ShutdownSockets
    <2>5. CASE JoinThreads
      BY <2>5, Zenon DEF JoinThreads
    <2>6. QED
      BY <1>7, <2>1, <2>2, <2>3, <2>4, <2>5, Zenon DEF Stopper
  <1>8. QED
    BY <1>1, <1>2, <1>3, <1>4, <1>5, <1>6, <1>7, Zenon DEF Next

(* What is said of a connection that has not registered stays true as long *)
(* as nothing happens to it.                                               *)
LEMMA RegistersFrame ==
  ASSUME NEW d \in Conns, RegistersFirst(d),
         peer'[d] = peer[d], inbox'[d] = inbox[d], thread'[d] = thread[d],
         outbox'[d] = outbox[d] \/ outbox'[d] = 0,
         target' = d => target = d \/ \E w \in Workers : slot[w] = d,
         \A w \in Workers : slot'[w] = d => slot[w] = d
  PROVE  RegistersFirst(d)'
  BY DEF RegistersFirst, Unserved

(* A peer registers once, before it is sent anything (bgworker's start and *)
(* the Register case of handle_connection): what peers do.                 *)
LEMMA PeerRegistersFirst ==
  ASSUME Places, NEW c \in Conns, Peer(c), NEW d \in Conns, RegistersFirst(d)
  PROVE  RegistersFirst(d)'
  <1> USE DEF listenVars, peerVars, schedVars
  <1>1. UNCHANGED <<thread, target, slot>>
    BY DEF Peer, SendRegister, SendReport, Reads, HangUp
  <1>2. CASE d # c
    <2>1. peer'[d] = peer[d] /\ inbox'[d] = inbox[d] /\ outbox'[d] = outbox[d]
      BY <1>2, Zenon DEF Peer, SendRegister, SendReport, Reads, HangUp, Sends, Places
    <2>2. QED
      BY <1>1, <2>1, RegistersFrame
  <1>3. CASE d = c /\ SendRegister(c)
    <2>1. Len(inbox[d]) = 0 /\ thread[d] \in {"none", "recv", "leave", "exited"} /\ Unserved(d)
      BY <1>3 DEF SendRegister, RegistersFirst
    <2>2. Len(inbox'[d]) = 1
      <3>1. inbox'[d] = Append(inbox[d], "Register") /\ inbox[d] \in Seq({"Register", "Report"})
        BY <1>3, SendsType, Zenon DEF SendRegister, Places
      <3>2. QED
        BY <2>1, <3>1
    <2>3. peer'[d] = "joining" /\ UNCHANGED outbox
      BY <1>3, Zenon DEF SendRegister, Places
    <2>4. QED
      BY <1>1, <2>1, <2>2, <2>3 DEF RegistersFirst, Unserved
  <1>4. CASE d = c /\ SendReport(c)
    <2>1. /\ inbox'[d] = Append(inbox[d], "Report") /\ inbox[d] \in Seq({"Register", "Report"})
          /\ peer[d] = "joined" /\ UNCHANGED <<peer, outbox>>
      BY <1>4, SendsType, Zenon DEF SendReport, Places
    <2>2. thread[d] # "register" /\ \A i \in 1..Len(inbox[d]) : inbox[d][i] # "Register"
      BY <2>1 DEF RegistersFirst, Unserved
    <2>3. \A i \in 1..Len(inbox'[d]) : inbox'[d][i] # "Register"
      BY <2>1, <2>2
    <2>4. QED
      BY <1>1, <2>1, <2>2, <2>3 DEF RegistersFirst
  <1>5. CASE d = c /\ Reads(c)
    <2>1. /\ outbox[d] # 0 /\ peer[d] \notin {"away", "silent"}
          /\ peer'[d] = "joined" /\ UNCHANGED inbox
      <3>1. outbox[d] > 0 /\ outbox[d] \in 0..Room
        BY <1>5, Zenon DEF Reads, Places
      <3>2. outbox[d] # 0
        BY <3>1
      <3>3. QED
        BY <1>5, <3>2, Zenon DEF Reads, Places
    <2>2. thread[d] # "register" /\ \A i \in 1..Len(inbox[d]) : inbox[d][i] # "Register"
      BY <2>1 DEF RegistersFirst, Unserved
    <2>3. QED
      BY <1>1, <2>1, <2>2 DEF RegistersFirst
  <1>6. CASE d = c /\ HangUp(c)
    <2>1. outbox'[d] = 0 /\ peer'[d] = "gone" /\ UNCHANGED inbox
      BY <1>6, Zenon DEF HangUp, Places
    <2>2. QED
      BY <1>1, <2>1 DEF RegistersFirst, Unserved
  <1>7. QED
    BY <1>2, <1>3, <1>4, <1>5, <1>6 DEF Peer

(* What connection threads do.                                             *)
LEMMA ThreadRegistersFirst ==
  ASSUME Places, NEW c \in Conns, Thread(c), NEW d \in Conns, RegistersFirst(d)
  PROVE  RegistersFirst(d)'
  <1> USE DEF listenVars, schedVars, Goes
  <1>1. UNCHANGED target
    BY DEF Thread, Recv, RecvEnds, TakeSlot, LockWrite, Answer, Leave, Exits
  <1>2. CASE Recv(c)
    <2>1. /\ UNCHANGED <<peer, outbox, slot>>
          /\ thread[c] = "recv" /\ inbox[c] # <<>>
          /\ inbox' = [inbox EXCEPT ![c] = Tail(@)]
          /\ thread' = [thread EXCEPT
                          ![c] = IF Head(inbox[c]) = "Register" THEN "register" ELSE "answer"]
          /\ inbox[c] \in Seq({"Register", "Report"})
      BY <1>2, Zenon DEF Recv, Places
    <2>2. CASE d # c
      BY <1>1, <2>1, <2>2, RegistersFrame, Zenon DEF Places
    <2>3. CASE d = c /\ Head(inbox[c]) = "Register"
      <3>1. Len(inbox[d]) = 1 /\ Unserved(d)
        BY <2>1, <2>3 DEF RegistersFirst
      <3>2. Len(inbox'[d]) = 0 /\ thread'[d] = "register"
        <4>1. inbox'[d] = Tail(inbox[d]) /\ thread'[d] = "register"
          BY <2>1, <2>3, Zenon DEF Places
        <4>2. Len(Tail(inbox[d])) = 0
          BY <2>1, <2>3, <3>1
        <4>3. QED
          BY <4>1, <4>2
      <3>3. peer[d] \notin {"away", "silent"}
        BY <2>1, <2>3 DEF RegistersFirst
      <3>4. QED
        BY <1>1, <2>1, <3>1, <3>2, <3>3 DEF RegistersFirst, Unserved
    <2>4. CASE d = c /\ Head(inbox[c]) # "Register"
      <3>1. inbox'[d] = Tail(inbox[d]) /\ thread'[d] = "answer"
        BY <2>1, <2>4, Zenon DEF Places
      <3>2. peer[d] \notin {"away", "silent"}
        BY <2>1, <2>4 DEF RegistersFirst
      <3>3. \A i \in 1..Len(inbox[d]) : inbox[d][i] # "Register"
        BY <2>1, <2>4 DEF RegistersFirst
      <3>4. \A i \in 1..Len(inbox'[d]) : inbox'[d][i] # "Register"
        BY <2>1, <2>4, <3>1, <3>3
      <3>5. QED
        BY <2>1, <3>1, <3>2, <3>4 DEF RegistersFirst
    <2>5. QED
      BY <2>2, <2>3, <2>4
  <1>3. CASE RecvEnds(c) \/ LockWrite(c)
    <2>1. /\ UNCHANGED <<peer, inbox, outbox, slot>>
          /\ d # c => thread'[d] = thread[d]
          /\ d = c => \/ thread[d] = "recv" /\ thread'[d] = "leave"
                      \/ thread[d] = "answer" /\ thread'[d] = "send"
      <3>1. CASE RecvEnds(c)
        BY <3>1, Zenon DEF RecvEnds, Places
      <3>2. CASE LockWrite(c)
        BY <3>2, Zenon DEF LockWrite, Places
      <3>3. QED
        BY <1>3, <3>1, <3>2
    <2>2. QED
      BY <1>1, <2>1 DEF RegistersFirst, Unserved
  <1>4. CASE TakeSlot(c)
    <2>1. /\ UNCHANGED <<peer, inbox, outbox>>
          /\ thread[c] = "register"
          /\ thread' = [thread EXCEPT ![c] = "answer"]
          /\ slot' = [slot EXCEPT ![worker[c]] = c]
      BY <1>4 DEF TakeSlot
    <2>2. CASE d # c
      BY <1>1, <2>1, <2>2, RegistersFrame, Zenon DEF Places
    <2>3. CASE d = c
      <3>1. Len(inbox[d]) = 0 /\ peer[d] \notin {"away", "silent"}
        BY <2>1, <2>3 DEF RegistersFirst
      <3>2. thread'[d] = "answer"
        BY <2>1, <2>3, Zenon DEF Places
      <3>3. QED
        BY <2>1, <3>1, <3>2 DEF RegistersFirst
    <2>4. QED
      BY <2>2, <2>3
  <1>5. CASE Answer(c)
    <2>1. /\ UNCHANGED <<peer, inbox, slot>>
          /\ thread[c] = "send"
          /\ thread' = [thread EXCEPT ![c] = IF running THEN "recv" ELSE "leave"]
          /\ \A e \in Conns : e # c => outbox'[e] = outbox[e]
      BY <1>5, SentType DEF Answer
    <2>2. CASE d # c
      BY <1>1, <2>1, <2>2, RegistersFrame, Zenon DEF Places
    <2>3. CASE d = c
      <3>1. /\ peer[d] \notin {"away", "silent"}
            /\ \A i \in 1..Len(inbox[d]) : inbox[d][i] # "Register"
        BY <2>1, <2>3 DEF RegistersFirst
      <3>2. thread'[d] # "register"
        BY <2>1, <2>3, Zenon DEF Places
      <3>3. QED
        BY <2>1, <3>1, <3>2 DEF RegistersFirst
    <2>4. QED
      BY <2>2, <2>3
  <1>6. CASE Leave(c)
    <2>1. /\ thread[c] = "leave"
          /\ thread' = [thread EXCEPT ![c] = "exited"]
          /\ \A w \in Workers : slot'[w] = d => slot[w] = d
          /\ IF target = c THEN UNCHANGED <<peer, inbox, outbox>> ELSE Closes(c)
      BY <1>6, ServerAssumption DEF Leave, Exits
    <2>2. CASE target # c
      <3>1. CASE d = c
        <4>1. peer'[d] = "gone" /\ inbox'[d] = <<>> /\ thread'[d] = "exited"
          BY <2>1, <2>2, <3>1, ClosesType, Zenon DEF Places
        <4>2. QED
          BY <4>1 DEF RegistersFirst
      <3>2. CASE d # c
        <4>1. /\ peer'[d] = peer[d] /\ inbox'[d] = inbox[d] /\ outbox'[d] = outbox[d]
              /\ thread'[d] = thread[d]
          BY <2>1, <2>2, <3>2, ClosesType, Zenon DEF Places
        <4>2. QED
          BY <1>1, <2>1, <4>1, RegistersFrame
      <3>3. QED
        BY <3>1, <3>2
    <2>3. CASE target = c
      <3>1. CASE d # c
        <4>1. thread'[d] = thread[d]
          BY <2>1, <3>1, Zenon DEF Places
        <4>2. QED
          BY <1>1, <2>1, <2>3, <4>1, RegistersFrame, Zenon
      <3>2. CASE d = c
        <4>1. thread'[d] = "exited" /\ thread[d] = "leave"
          BY <2>1, <3>2, Zenon DEF Places
        <4>2. \A w \in Workers : slot[w] # d => slot'[w] # d
          BY <2>1
        <4>3. QED
          BY <1>1, <2>1, <2>3, <4>1, <4>2, Zenon DEF RegistersFirst, Unserved
      <3>3. QED
        BY <3>1, <3>2
    <2>4. QED
      BY <2>2, <2>3
  <1>7. QED
    BY <1>2, <1>3, <1>4, <1>5, <1>6 DEF Thread

(* Every step of the server.                                               *)
LEMMA RegistersFirstKept ==
  ASSUME ServerInv, Next, NEW d \in Conns
  PROVE  RegistersFirst(d)'
  <1> USE DEF listenVars, peerVars, schedVars
  <1>1. RegistersFirst(d) /\ Places /\ MutexHeld
    BY DEF ServerInv
  <1>2. CASE Start \/ AcceptFails \/ Stop \/ Stopper
    <2>1. UNCHANGED <<peer, inbox, thread, outbox, target, slot>>
      BY <1>2, Zenon DEF Start, AcceptFails, Stop, Stopper, CloseListen, JoinAccept, JoinScheduler,
                  ShutdownSockets, JoinThreads
    <2>2. QED
      BY <1>1, <2>1, RegistersFrame
  <1>3. ASSUME NEW c \in Conns, Accept(c) PROVE RegistersFirst(d)'
    <2>1. CASE d = c
      <3>1. Len(inbox[d]) = 0 /\ Unserved(d)
        BY <1>1, <1>3, <2>1 DEF Accept, RegistersFirst
      <3>2. /\ peer'[d] = "silent" /\ thread'[d] \in {"recv", "leave"}
            /\ UNCHANGED <<inbox, outbox, target, slot>>
        BY <1>1, <1>3, <2>1, Zenon DEF Accept, Places
      <3>3. QED
        BY <3>1, <3>2 DEF RegistersFirst, Unserved
    <2>2. CASE d # c
      <3>1. /\ peer'[d] = peer[d] /\ thread'[d] = thread[d]
            /\ UNCHANGED <<inbox, outbox, target, slot>>
        BY <1>1, <1>3, <2>2, Zenon DEF Accept, Places
      <3>2. QED
        BY <1>1, <3>1, RegistersFrame
    <2>3. QED
      BY <2>1, <2>2
  <1>4. CASE Turn \/ LockWorkers \/ Miss \/ EndTurn \/ LockTarget
    <2>1. UNCHANGED <<peer, inbox, thread, outbox, target, slot>>
      BY <1>4, Zenon DEF Turn, LockWorkers, Miss, EndTurn, LockTarget
    <2>2. QED
      BY <1>1, <2>1, RegistersFrame
  <1>5. CASE Pick
    <2>1. /\ UNCHANGED <<peer, inbox, thread, outbox, slot>>
          /\ \E w \in Workers : target' = slot[w]
      BY <1>5, Zenon DEF Pick, Finds
    <2>2. QED
      BY <1>1, <2>1, RegistersFrame
  <1>6. CASE SendToTarget
    <2>1. /\ target \in Conns /\ target' # d
          /\ UNCHANGED <<thread, slot>>
          /\ \/ thread[target] = "exited" /\ Closes(target)
             \/ Sent(target) /\ UNCHANGED <<peer, inbox>>
      BY <1>1, <1>6, ServerAssumption, Zenon DEF SendToTarget, SendsTarget, MutexHeld, Places
    <2>2. CASE d # target
      <3>1. peer'[d] = peer[d] /\ inbox'[d] = inbox[d] /\ outbox'[d] = outbox[d]
        BY <1>1, <2>1, <2>2, ClosesType, SentType
      <3>2. QED
        BY <1>1, <2>1, <3>1, RegistersFrame, Zenon
    <2>3. CASE d = target
      <3>1. /\ peer[d] \notin {"away", "silent"} /\ thread[d] # "register"
            /\ \A i \in 1..Len(inbox[d]) : inbox[d][i] # "Register"
        BY <1>1, <2>3 DEF RegistersFirst, Unserved
      <3>2. \/ peer'[d] = "gone" /\ inbox'[d] = <<>>
            \/ UNCHANGED <<peer, inbox>>
        BY <1>1, <2>1, <2>3, ClosesType
      <3>3. QED
        BY <2>1, <3>1, <3>2 DEF RegistersFirst
    <2>4. QED
      BY <2>2, <2>3
  <1>7. QED
    BY <1>1, <1>2, <1>3, <1>4, <1>5, <1>6, PeerRegistersFirst, ThreadRegistersFirst
    DEF Next, Scheduler

(* What a peer does leaves a connection with nothing to read empty.        *)
LEMMA PeerKeepsEmpty ==
  ASSUME Places, NEW c \in Conns, Peer(c), NEW d \in Conns, outbox[d] = 0
  PROVE  outbox'[d] = 0
  <1>1. outbox \in [Conns -> 0..Room]
    BY Zenon DEF Places
  <1>2. \/ UNCHANGED outbox
        \/ outbox[c] > 0 /\ outbox' = [outbox EXCEPT ![c] = @ - 1]
        \/ outbox' = [outbox EXCEPT ![c] = 0]
    BY DEF Peer, SendRegister, SendReport, Reads, HangUp
  <1>3. QED
    BY <1>1, <1>2

(* A connection that registers after the sockets were shut down answers    *)
(* once and leaves (stop and handle_connection).                           *)
LEMMA LateInMapKept == ASSUME ServerInv, Next PROVE LateInMap'
  <1> SUFFICES ASSUME stop' \in {"join threads", "done"},
                      NEW w \in Workers, slot'[w] # NoConn
               PROVE  \/ slot'[w] \in shut'
                      \/ thread'[slot'[w]] = "leave"
                      \/ thread'[slot'[w]] \in {"answer", "send"} /\ outbox'[slot'[w]] = 0
    BY Zenon DEF LateInMap
  <1> USE DEF listenVars, peerVars, schedVars, Goes
  <1>1. Places /\ StopProgress /\ MutexHeld /\ LateInMap /\ SlotsLive
        /\ \A d \in Conns : RegistersFirst(d)
    BY Zenon DEF ServerInv
  <1>2. CASE ShutdownSockets
    BY <1>1, <1>2, Zenon DEF ShutdownSockets, Places, Range
  <1>3. CASE ~ ShutdownSockets
    <2>1. stop \in {"join threads", "done"}
      BY <1>3, Zenon DEF Next, Start, Accept, Peer, SendRegister, SendReport, Reads, HangUp, Thread,
                  Recv, RecvEnds, TakeSlot, LockWrite, Answer, Leave, Exits, AcceptFails,
                  Scheduler, Turn, LockWorkers, Pick, Finds, Miss, EndTurn, LockTarget,
                  SendToTarget, SendsTarget, Stop, Stopper,
                  CloseListen, JoinAccept, JoinScheduler, JoinThreads
    <2>2. accepting = "done" /\ sched = "done" /\ ~ running
      BY <1>1, <2>1, Zenon DEF StopProgress
    <2>3. CASE JoinThreads
      BY <1>1, <2>1, <2>3, Zenon DEF JoinThreads, LateInMap
    <2>4. ASSUME NEW c \in Conns, Peer(c)
          PROVE  \/ slot'[w] \in shut'
                 \/ thread'[slot'[w]] = "leave"
                 \/ thread'[slot'[w]] \in {"answer", "send"} /\ outbox'[slot'[w]] = 0
      <3>1. UNCHANGED <<slot, shut, thread>>
        BY <2>4, Zenon DEF Peer, SendRegister, SendReport, Reads, HangUp
      <3>2. slot[w] \in Conns
        BY <1>1, <3>1, Zenon DEF Places
      <3>3. outbox[slot[w]] = 0 => outbox'[slot[w]] = 0
        BY <1>1, <2>4, <3>2, PeerKeepsEmpty, Zenon
      <3>4. QED
        BY <1>1, <2>1, <3>1, <3>3, Zenon DEF LateInMap
    <2>5. ASSUME NEW c \in Conns, Thread(c)
          PROVE  \/ slot'[w] \in shut'
                 \/ thread'[slot'[w]] = "leave"
                 \/ thread'[slot'[w]] \in {"answer", "send"} /\ outbox'[slot'[w]] = 0
      <3>1. CASE Recv(c)
        <4>1. /\ UNCHANGED <<slot, shut, outbox>> /\ thread[c] = "recv"
              /\ \A d \in Conns : d # c => thread'[d] = thread[d]
          BY <1>1, <3>1, Zenon DEF Recv, Places
        <4>2. QED
          BY <1>1, <2>1, <4>1, Zenon DEF LateInMap, Places
      <3>2. CASE RecvEnds(c)
        BY <1>1, <2>1, <3>2, Zenon DEF RecvEnds, LateInMap, Places
      <3>3. CASE TakeSlot(c)
        <4>1. outbox[c] = 0 /\ UNCHANGED <<shut, outbox>>
          BY <1>1, <3>3, Zenon DEF TakeSlot, RegistersFirst, Unserved
        <4>2. /\ thread'[c] = "answer" /\ \A d \in Conns : d # c => thread'[d] = thread[d]
              /\ slot'[w] = c \/ slot'[w] = slot[w]
          BY <1>1, <3>3, Zenon DEF TakeSlot, Places
        <4>3. CASE slot'[w] = c
          BY <4>1, <4>2, <4>3, Zenon
        <4>4. CASE slot'[w] # c
          <5>1. slot'[w] = slot[w] /\ slot[w] \in Conns /\ thread'[slot[w]] = thread[slot[w]]
            BY <1>1, <4>2, <4>4, Zenon DEF Places
          <5>2. QED
            BY <1>1, <2>1, <4>1, <5>1, Zenon DEF LateInMap
        <4>5. QED
          BY <4>3, <4>4, Zenon
      <3>4. CASE LockWrite(c)
        BY <1>1, <2>1, <3>4, Zenon DEF LockWrite, LateInMap, Places
      <3>5. CASE Answer(c)
        <4>1. /\ UNCHANGED <<slot, shut>> /\ thread'[c] = "leave"
              /\ \A d \in Conns : d # c => thread'[d] = thread[d] /\ outbox'[d] = outbox[d]
          BY <1>1, <2>2, <3>5, SentType, Zenon DEF Answer, Places
        <4>2. QED
          BY <1>1, <2>1, <4>1, Zenon DEF LateInMap, Places
      <3>6. CASE Leave(c)
        <4>1. /\ UNCHANGED shut /\ slot'[w] = slot[w] /\ slot[w] # c
              /\ \A d \in Conns : d # c => thread'[d] = thread[d]
          BY <1>1, <3>6, Zenon DEF Leave, Exits, Places
        <4>2. \A d \in Conns : d # c => outbox'[d] = outbox[d]
          BY <1>1, <3>6, ClosesType, Zenon DEF Leave, Exits
        <4>3. slot[w] \in Conns
          BY <1>1, <4>1, Zenon DEF Places
        <4>4. QED
          BY <1>1, <2>1, <4>1, <4>2, <4>3, Zenon DEF LateInMap
      <3>7. QED
        BY <2>5, <3>1, <3>2, <3>3, <3>4, <3>5, <3>6, Zenon DEF Thread
    <2>6. QED
      BY <1>3, <2>1, <2>2, <2>3, <2>4, <2>5, Zenon
      DEF Next, Start, Accept, AcceptFails, Scheduler, Turn, LockWorkers, Pick, Finds, Miss,
          EndTurn, LockTarget, SendToTarget, SendsTarget, Stop, Stopper, CloseListen,
          JoinAccept, JoinScheduler, StopProgress
  <1>4. QED
    BY <1>2, <1>3, Zenon

-------------------------------------------------------------------------------
(* The inductive invariant holds whatever the peers do and however stop()  *)
(* meets the threads.                                                      *)
THEOREM ServerInOrder == Spec => []ServerInv
  <1>1. Init => ServerInv
    <2> SUFFICES ASSUME Init PROVE ServerInv
      OBVIOUS
    <2>1. Places
      <3>1. 0 \in 0..Room /\ <<>> \in Seq({"Register", "Report"})
        BY ServerAssumption
      <3>2. worker \in [Conns -> Workers]
        BY ServerAssumption DEF Init
      <3>3. QED
        BY <3>1, <3>2, Zenon DEF Init, Places
    <2>2. MutexHeld /\ SlotsLive /\ StopProgress /\ LateInMap
      BY ServerAssumption DEF Init, MutexHeld, SlotsLive, StopProgress, LateInMap
    <2>3. ASSUME NEW c \in Conns PROVE RegistersFirst(c)
      BY ServerAssumption DEF Init, RegistersFirst, Unserved
    <2>4. QED
      BY <2>1, <2>2, <2>3 DEF ServerInv
  <1>2. ServerInv /\ [Next]_vars => ServerInv'
    <2> SUFFICES ASSUME ServerInv, [Next]_vars PROVE ServerInv'
      OBVIOUS
    <2>1. CASE UNCHANGED vars
      <3> USE <2>1 DEF vars, listenVars, peerVars, schedVars, ServerInv
      <3>1. Places'
        BY Zenon DEF Places
      <3>2. MutexHeld' /\ SlotsLive'
        BY Zenon DEF MutexHeld, SlotsLive
      <3>3. ASSUME NEW d \in Conns PROVE RegistersFirst(d)'
        BY DEF RegistersFirst, Unserved
      <3>4. StopProgress' /\ LateInMap'
        BY Zenon DEF StopProgress, LateInMap
      <3>5. QED
        BY <3>1, <3>2, <3>3, <3>4
    <2>2. CASE Next
      <3>1. Places'
        BY <2>2, PeerPlaces, ThreadPlaces, SchedulerPlaces, StopPlaces
        DEF Next, ServerInv, MutexHeld
      <3>2. \A d \in Conns : RegistersFirst(d)'
        BY <2>2, RegistersFirstKept
      <3>3. QED
        BY <2>2, <3>1, <3>2, MutexKept, SlotsLiveKept, StopProgressKept, LateInMapKept
        DEF ServerInv
    <2>3. QED
      BY <2>1, <2>2
  <1>3. QED
    BY <1>1, <1>2, PTL DEF Spec

(* Whoever sends on a connection holds its write_mutex (send_on), for any  *)
(* number of connections and any room in the sockets.                      *)
THEOREM MutexProtects == Spec => []TypeOK
  <1>1. ServerInv => TypeOK
    BY Zenon DEF ServerInv, Places, MutexHeld, TypeOK
  <1>2. QED
    BY <1>1, ServerInOrder, PTL

(* The end of a connection never takes the slot of its worker from another *)
(* connection, and no slot is left with one that has ended (the end of     *)
(* handle_connection).                                                     *)
THEOREM SlotsAreKept == Spec => SlotsKept
  <1> DEFINE Kept == \A w \in Workers :
                       slot[w] # NoConn =>
                         /\ slot'[w] = NoConn => thread[slot[w]] = "leave"
                         /\ slot'[w] # NoConn => thread'[slot'[w]] # "exited"
  <1>1. ServerInv /\ ServerInv' /\ [Next]_vars => [Kept]_vars
    <2> SUFFICES ASSUME ServerInv, ServerInv', Next, NEW w \in Workers, slot[w] # NoConn
                 PROVE  /\ slot'[w] = NoConn => thread[slot[w]] = "leave"
                        /\ slot'[w] # NoConn => thread'[slot'[w]] # "exited"
      BY DEF Kept
    <2>1. slot'[w] # NoConn => thread'[slot'[w]] # "exited"
      BY DEF ServerInv, SlotsLive
    <2>2. ASSUME slot'[w] = NoConn PROVE thread[slot[w]] = "leave"
      <3>1. slot' # slot
        BY <2>2
      <3>2. \E c \in Conns : TakeSlot(c) \/ Leave(c)
        BY <3>1, Zenon DEF Next, Start, Accept, Peer, SendRegister, SendReport, Reads, HangUp,
                    Thread, Recv, RecvEnds, LockWrite, Answer, AcceptFails, Scheduler, Turn,
                    LockWorkers, Pick, Finds, Miss, EndTurn, LockTarget, SendToTarget,
                    SendsTarget, Stop, Stopper, CloseListen, JoinAccept, JoinScheduler,
                    ShutdownSockets, JoinThreads
      <3>3. PICK c \in Conns : TakeSlot(c) \/ Leave(c)
        BY <3>2
      <3>4. CASE TakeSlot(c)
        BY <2>2, <3>4, ServerAssumption, Zenon DEF TakeSlot, ServerInv, Places
      <3>5. CASE Leave(c)
        BY <2>2, <3>5 DEF Leave
      <3>6. QED
        BY <3>3, <3>4, <3>5
    <2>3. QED
      BY <2>1, <2>2
  <1>2. QED
    BY <1>1, ServerInOrder, PTL DEF Spec, SlotsKept

(* Among any number of connections, when no thread of the server can move  *)
(* stop() waits for an accept that was not woken, for a peer that does not *)
(* read what the scheduler sends, or for a connection that is not in the   *)
(* map; never for a registered worker.  That a thread which is ready has a *)
(* step to take, ReadyEnables, is left to the model checker.               *)
THEOREM StopIsAccountedFor == Spec => [](ReadyEnables => StopHeldUp)
  <1>1. ServerInv => (ReadyEnables => StopHeldUp)
    <2> SUFFICES ASSUME ServerInv, stop \notin {"idle", "done"}, ~ Ready
                 PROVE  \/ stop = "join accept" /\ AcceptBlocked
                        \/ stop = "join scheduler" /\ SchedulerBlocked
                        \/ stop = "join threads" /\ \E c \in Conns : NotInMap(c)
      BY Zenon DEF StopHeldUp
    <2>1. Places /\ MutexHeld /\ StopProgress /\ LateInMap
      BY DEF ServerInv
    <2>2. workersMutex = "none"
      BY <2>1, Zenon DEF Ready, SchedulerReady, MutexHeld, Places
    <2>3. stop \in {"join accept", "join scheduler", "join threads"}
      BY <2>1, <2>2, Zenon DEF Ready, StopperReady, Places
    <2>4. CASE stop = "join accept"
      BY <2>1, <2>4, Zenon DEF Ready, StopperReady, StopProgress, AcceptBlocked, Places
    <2>5. CASE stop = "join scheduler"
      <3>1. sched \in {"lock", "send"} /\ target \in Conns
        BY <2>1, <2>5, Zenon DEF Ready, StopperReady, SchedulerReady, StopProgress, MutexHeld, Places
      <3>2. outbox[target] \in 0..Room /\ Room \in Nat
        BY <2>1, <3>1, ServerAssumption, Zenon DEF Places
      <3>3. ~ (outbox[target] < Room)
        <4>1. CASE sched = "send"
          BY <4>1 DEF Ready, SchedulerReady
        <4>2. CASE sched = "lock"
          <5>1. writer[target] = "conn"
            BY <2>1, <3>1, <4>2, Zenon DEF Ready, SchedulerReady, MutexHeld, Places
          <5>2. thread[target] = "send"
            BY <2>1, <3>1, <5>1 DEF MutexHeld
          <5>3. QED
            BY <3>1, <5>2 DEF Ready, ThreadReady
        <4>3. QED
          BY <3>1, <4>1, <4>2
      <3>4. outbox[target] = Room
        BY <3>2, <3>3
      <3>5. QED
        BY <2>5, <3>1, <3>4, Zenon DEF SchedulerBlocked
    <2>6. CASE stop = "join threads"
      <3>1. PICK c \in Conns : thread[c] \notin {"none", "exited"}
        BY <2>6, Zenon DEF Ready, StopperReady
      <3>2. sched = "done" /\ writer[c] # "sched"
        BY <2>1, <2>6, Zenon DEF StopProgress, MutexHeld
      <3>3. thread[c] \in {"recv", "send"} /\ ~ Dead(c) /\ (thread[c] = "send" => ~ (outbox[c] < Room))
        BY <2>1, <2>2, <3>1, <3>2, Zenon DEF Ready, ThreadReady, MutexHeld, Places
      <3>4. ASSUME NEW w \in Workers, slot[w] = c PROVE FALSE
        <4>1. thread[c] = "send" /\ outbox[c] = 0
          BY <2>1, <2>6, <3>3, <3>4, ServerAssumption, Zenon DEF LateInMap, Dead
        <4>2. QED
          BY <3>3, <4>1, ServerAssumption
      <3>5. c \notin Range(slot)
        BY <2>1, <3>4, Zenon DEF Range, Places
      <3>6. QED
        BY <2>6, <3>3, <3>5, Zenon DEF NotInMap
    <2>7. QED
      BY <2>3, <2>4, <2>5, <2>6, Zenon
  <1>2. QED
    BY <1>1, ServerInOrder, PTL

-------------------------------------------------------------------------------
(* The state file                                                          *)

Blocks == Seq((-1..MaxVersion) \X Nat)

(* The first n blocks of the encoding of version v.                        *)
Prefix(v, n) == [k \in 1..n |-> <<v, k>>]

(* What saver s knows of the temporary file at each of its steps.          *)
SaverKnows(s) ==
  /\ pc[s] = "write" =>
       /\ tmp # NoFile
       /\ handle[s] = tmp
       /\ pos[s] \in 0..Size[buf[s]]
       /\ content[tmp] = Prefix(buf[s], pos[s])
  /\ pc[s] \in {"check", "rename"} =>
       /\ tmp # NoFile
       /\ content[tmp] = Encoding(buf[s])

(* The inductive invariant: the two names refer to different files, the    *)
(* saver's blocks are a prefix of its encoding, path is whole.             *)
FilesInOrder ==
  /\ FileTypeOK
  /\ pos = [s \in Savers |-> pos[s]]
  /\ tmp # NoFile => tmp # path
  /\ AtomicReplace
  /\ \A s \in Savers : SaverKnows(s)

(* A prefix of an encoding is a sequence of blocks of that length.         *)
LEMMA PrefixType ==
  ASSUME NEW v \in Versions, NEW n \in Nat
  PROVE  /\ Prefix(v, n) \in Blocks
         /\ Len(Prefix(v, n)) = n
         /\ n = Size[v] => Prefix(v, n) = Encoding(v)
  BY StateFileAssumption DEF Prefix, Blocks, Versions, Encoding

(* Writing the next block of a prefix gives the next prefix.               *)
LEMMA WriteExtends ==
  ASSUME NEW v \in Versions, NEW n \in Nat
  PROVE  WriteAt(Prefix(v, n), n + 1, <<v, n + 1>>) = Prefix(v, n + 1)
  <1>1. Len(Prefix(v, n)) = n
    BY PrefixType
  <1>2. QED
    BY <1>1 DEF WriteAt, Prefix

(* One thread at a time serves Save requests.                              *)
OneSaver == \A s, t \in Savers : s = t

(* Encoding the state and opening, emptying and writing path.tmp keep the  *)
(* files in order.                                                         *)
LEMMA WritingInOrder ==
  ASSUME OneSaver, FilesInOrder, NEW s \in Savers,
         Save(s) \/ OpenTemporary(s) \/ WriteBlock(s)
  PROVE  FilesInOrder'
  <1> USE DEF FilesInOrder, FileTypeOK
  <1>1. CASE Save(s)
    BY <1>1, StateFileAssumption DEF Save, SaverKnows, AtomicReplace, OneSaver, Versions
  <1>2. CASE OpenTemporary(s)
    <2>1. PICK i \in Inodes :
            /\ IF tmp = NoFile THEN Unused(i) ELSE i = tmp
            /\ tmp' = i
            /\ content' = [content EXCEPT ![i] = <<>>]
            /\ handle' = [handle EXCEPT ![s] = i]
      BY <1>2, Zenon DEF OpenTemporary
    <2>2. /\ pos' = [pos EXCEPT ![s] = 0]
          /\ pc' = [pc EXCEPT ![s] = "write"]
          /\ UNCHANGED <<version, path, buf, saved>>
      BY <1>2 DEF OpenTemporary
    <2>3. i # path /\ i # NoFile
      BY <2>1, StateFileAssumption DEF Unused
    <2>4. <<>> = Prefix(buf[s], 0)
      BY DEF Prefix
    <2>5. AtomicReplace'
      BY <2>1, <2>2, <2>3 DEF AtomicReplace
    <2>6. SaverKnows(s)'
      BY <2>1, <2>2, <2>3, <2>4, StateFileAssumption DEF SaverKnows, Versions
    <2>7. FileTypeOK'
      BY <2>1, <2>2, StateFileAssumption DEF OneSaver, Versions
    <2>8. QED
      BY <2>1, <2>2, <2>3, <2>5, <2>6, <2>7 DEF OneSaver
  <1>3. CASE WriteBlock(s)
    <2> DEFINE n == pos[s]
    <2>1. /\ n \in Nat /\ n < Size[buf[s]]
          /\ buf[s] \in Versions /\ Size[buf[s]] \in Nat
          /\ content[tmp] = Prefix(buf[s], n)
          /\ tmp \in Inodes /\ tmp # path /\ handle[s] = tmp
      BY <1>3, StateFileAssumption DEF WriteBlock, SaverKnows, Versions
    <2>2. /\ pos' = [pos EXCEPT ![s] = n + 1]
          /\ UNCHANGED <<version, tmp, path, pc, buf, handle, saved>>
      BY <1>3 DEF WriteBlock
    <2>3. content' = [content EXCEPT ![tmp] = Prefix(buf[s], n + 1)]
      BY <1>3, <2>1, WriteExtends, Zenon DEF WriteBlock
    <2>4. Prefix(buf[s], n + 1) \in Blocks
      BY <2>1, PrefixType
    <2>5. AtomicReplace'
      BY <2>1, <2>2, <2>3 DEF AtomicReplace
    <2>6. SaverKnows(s)'
      BY <1>3, <2>1, <2>2, <2>3 DEF SaverKnows, WriteBlock
    <2>7. FileTypeOK'
      BY <2>1, <2>2, <2>3, <2>4 DEF OneSaver, Blocks
    <2>8. QED
      BY <2>1, <2>2, <2>5, <2>6, <2>7 DEF OneSaver
  <1>4. QED
    BY <1>1, <1>2, <1>3

(* Failing, closing, checking and renaming keep the files in order.        *)
LEMMA ReplacingInOrder ==
  ASSUME OneSaver, FilesInOrder, NEW s \in Savers,
         SaveFails(s) \/ Close(s) \/ CheckSize(s) \/ Rename(s)
  PROVE  FilesInOrder'
  <1> USE DEF FilesInOrder, FileTypeOK
  <1>1. CASE SaveFails(s)
    BY <1>1 DEF SaveFails, SaverKnows, AtomicReplace, OneSaver
  <1>2. CASE Close(s)
    <2>1. content[tmp] = Encoding(buf[s]) /\ tmp # NoFile
      <3>1. /\ pos[s] = Size[buf[s]] /\ content[tmp] = Prefix(buf[s], pos[s])
            /\ buf[s] \in Versions /\ pos[s] \in Nat /\ tmp # NoFile
        BY <1>2, StateFileAssumption DEF Close, SaverKnows, Versions
      <3>2. QED
        BY <3>1, PrefixType
    <2>2. QED
      BY <1>2, <2>1 DEF Close, SaverKnows, AtomicReplace, OneSaver
  <1>3. CASE CheckSize(s)
    BY <1>3 DEF CheckSize, SaverKnows, AtomicReplace, OneSaver
  <1>4. CASE Rename(s)
    <2>1. tmp # NoFile /\ content[tmp] = Encoding(buf[s]) /\ buf[s] \in Versions
      BY <1>4 DEF Rename, SaverKnows
    <2>2. /\ path' = tmp /\ tmp' = NoFile /\ saved' = buf[s]
          /\ pc' = [pc EXCEPT ![s] = "idle"]
          /\ UNCHANGED <<version, content, buf, handle, pos>>
      BY <1>4, <2>1 DEF Rename
    <2>3. AtomicReplace'
      BY <2>1, <2>2, StateFileAssumption DEF AtomicReplace, Versions, Encoding
    <2>4. FileTypeOK'
      BY <2>1, <2>2, StateFileAssumption DEF Versions
    <2>5. QED
      BY <2>2, <2>3, <2>4 DEF SaverKnows, OneSaver
  <1>5. QED
    BY <1>1, <1>2, <1>3, <1>4

(* Every step keeps the files in order.                                    *)
LEMMA StepInOrder == OneSaver /\ FilesInOrder /\ [FileNext]_fileVars => FilesInOrder'
  <1> SUFFICES ASSUME OneSaver, FilesInOrder, [FileNext]_fileVars PROVE FilesInOrder'
    OBVIOUS
  <1>1. CASE UNCHANGED fileVars
    BY <1>1 DEF fileVars, FilesInOrder, FileTypeOK, SaverKnows, AtomicReplace
  <1>2. CASE Mutate
    BY <1>2, StateFileAssumption
    DEF Mutate, FilesInOrder, FileTypeOK, SaverKnows, AtomicReplace, Versions
  <1>3. CASE Load
    <2>1. Decoded(content[path]) \in Versions
      BY <1>3 DEF Load, Decodes, Decoded
    <2>2. QED
      BY <1>3, <2>1 DEF Load, FilesInOrder, FileTypeOK, SaverKnows, AtomicReplace
  <1>4. CASE Crash
    BY <1>4, StateFileAssumption
    DEF Crash, FilesInOrder, FileTypeOK, SaverKnows, AtomicReplace, Versions
  <1>5. QED
    BY <1>1, <1>2, <1>3, <1>4, WritingInOrder, ReplacingInOrder DEF FileNext

(* The inductive invariant holds however saves fail and processes die.     *)
THEOREM FilesStayInOrder == ASSUME OneSaver PROVE FileSpec => []FilesInOrder
  <1>1. FileInit => FilesInOrder
    BY StateFileAssumption
    DEF FileInit, FilesInOrder, FileTypeOK, AtomicReplace, SaverKnows, Versions
  <1>2. FilesInOrder /\ [FileNext]_fileVars => FilesInOrder'
    BY StepInOrder
  <1>3. QED
    BY <1>1, <1>2, PTL DEF FileSpec

(* With one thread saving, path always holds the whole state written by    *)
(* the last save that returned, whatever save was cut short (save_file).   *)
THEOREM ReplaceIsAtomic == ASSUME OneSaver PROVE FileSpec => []AtomicReplace
  <1>1. FilesInOrder => AtomicReplace
    BY DEF FilesInOrder
  <1>2. QED
    BY <1>1, FilesStayInOrder, PTL

(* With one thread saving, a leftover path.tmp never makes a save fail its *)
(* size check (the truncation in save_file).                               *)
THEOREM SizeChecksPass == ASSUME OneSaver PROVE FileSpec => []SizeCheckPasses
  <1>1. FilesInOrder => SizeCheckPasses
    <2> SUFFICES ASSUME FilesInOrder, NEW s \in Savers, pc[s] = "check"
                 PROVE  tmp # NoFile /\ Len(content[tmp]) = Size[buf[s]]
      BY DEF SizeCheckPasses
    <2>1. buf[s] \in Versions /\ Size[buf[s]] \in Nat
      BY StateFileAssumption DEF FilesInOrder, FileTypeOK, Versions
    <2>2. content[tmp] = Prefix(buf[s], Size[buf[s]]) /\ tmp # NoFile
      BY Zenon DEF FilesInOrder, SaverKnows, Encoding, Prefix
    <2>3. Len(Prefix(buf[s], Size[buf[s]])) = Size[buf[s]]
      BY <2>1, PrefixType, Zenon
    <2>4. QED
      BY <2>2, <2>3, Zenon
  <1>2. QED
    BY <1>1, FilesStayInOrder, PTL

(* With one thread saving, the saver's state is well typed; it never       *)
(* writes past its encoding (save_file).                                   *)
THEOREM FilesTyped == ASSUME OneSaver PROVE FileSpec => []FileTypeOK
  <1>1. FilesInOrder => FileTypeOK
    BY DEF FilesInOrder
  <1>2. QED
    BY <1>1, FilesStayInOrder, PTL

-------------------------------------------------------------------------------
(* The byte stream of a connection                                         *)

CellPairs == Nat \X Nat

(* The cells of a connection that are still to be read: what the reader    *)
(* has, what is on its way, and what is left to send of the frame under    *)
(* the mutex, if the socket still takes it.                                *)
Unsent == IF open /\ write_mutex # Nobody THEN left[write_mutex] ELSE <<>>

Stream == (got \o wire) \o Unsent

(* Sizes[j]: cells of the j-th frame sent.                                 *)
SizesOf(sent) == [j \in 1..Len(sent) |-> Len(Frame[sent[j]])]

Sizes == SizesOf(order)

(* Before the j-th frame at[j] cells were sent; sz are the sizes of the    *)
(* frames.                                                                 *)
Offsets(at, sz) ==
  /\ \A j \in 1..Len(sz) : sz[j] \in Nat /\ at[j + 1] = at[j] + sz[j]
  /\ \A j \in 1..(Len(sz) + 1) : at[j] \in Nat
  /\ \A j, k \in 1..(Len(sz) + 1) : j <= k => at[j] <= at[k]

(* The k-th cell of frame j.                                              *)
IsCell(cell, j, k) == cell[1] = j /\ cell[2] = k

(* The cells s are those that follow the first d frames, each in its place *)
(* and none left out.                                                      *)
InStep(s, sz, d, at) ==
  \A i \in 1..Len(s) :
    /\ s[i][1] \in (d + 1)..Len(sz)
    /\ s[i][2] \in 1..sz[s[i][1]]
    /\ at[s[i][1]] + s[i][2] = at[d + 1] + i

(* They reach to the end of the last frame sent.                           *)
Complete(s, sz, d, at) == at[Len(sz) + 1] = at[d + 1] + Len(s)

(* The sequence s begins with t; t is what s has after its first z cells;  *)
(* t is s and the l cells of frame j.                                      *)
Begins(s, t) == Len(t) <= Len(s) /\ \A i \in 1..Len(t) : t[i] = s[i]

Ends(s, t, z) == Len(s) = z + Len(t) /\ \A i \in 1..Len(t) : t[i] = s[z + i]

Extends(t, s, j, l) ==
  /\ Len(t) = Len(s) + l
  /\ \A i \in 1..Len(s) : t[i] = s[i]
  /\ \A k \in 1..l : t[Len(s) + k] = <<j, k>>

(* The sizes sw are sz and one more, l, and bt their offsets.              *)
Grown(sz, sw, l, at, bt) ==
  /\ Len(sw) = Len(sz) + 1
  /\ sw[Len(sz) + 1] = l
  /\ \A j \in 1..Len(sz) : sw[j] = sz[j]
  /\ \A j \in 1..(Len(sz) + 1) : bt[j] = at[j]
  /\ bt[Len(sz) + 2] = at[Len(sz) + 1] + l

(* What a reader may make of message m.                                    *)
Readings(m) ==
  { [type |-> Catalogue[m].type, body |-> read.rec] :
      read \in DecodePayload(Catalogue[m].type, EncodePayload(Catalogue[m])) }

StreamPlaces ==
  /\ script \in [Writers -> Seq(DOMAIN Catalogue)]
  /\ write_mutex \in Writers \cup {Nobody}
  /\ left \in [Writers -> Seq(CellPairs)]
  /\ order \in Seq(DOMAIN Catalogue)
  /\ open \in BOOLEAN
  /\ wire \in Seq(CellPairs)
  /\ Len(wire) <= SocketRoom
  /\ got \in Seq(CellPairs)
  /\ reader \in {"reading", "ended", "failed"}
  /\ delivered \in Seq(UNION { Readings(m) : m \in DOMAIN Catalogue })

(* A writer that has the mutex has something to send, and only it has a    *)
(* frame under way.                                                        *)
WriterAlone ==
  /\ \A w \in Writers : left[w] # <<>> => write_mutex = w
  /\ write_mutex # Nobody => script[write_mutex] # <<>>

(* The messages read are those sent, in order, as their readers see them.  *)
ReadInOrder ==
  /\ Len(delivered) <= Len(order)
  /\ \A i \in 1..Len(delivered) : delivered[i] \in Readings(order[i])

(* What is to be read is what was sent and was not read yet, or as much of *)
(* it as was under way when the connection broke.                          *)
StreamInStep ==
  \E at : /\ Offsets(at, Sizes)
          /\ InStep(Stream, Sizes, Len(delivered), at)
          /\ open => Complete(Stream, Sizes, Len(delivered), at)

(* The reader never takes more than its frame, and gives up only on a      *)
(* message that it does not take.                                          *)
WithinFrame == Len(got) > 0 => Len(got) <= Sizes[Len(delivered) + 1]

FailsOnLong ==
  reader = "failed" => /\ Len(delivered) + 1 \in 1..Len(order)
                       /\ TooLong(order[Len(delivered) + 1])

(* The inductive invariant.                                                *)
StreamInv ==
  /\ StreamPlaces
  /\ WriterAlone
  /\ ReadInOrder
  /\ StreamInStep
  /\ WithinFrame
  /\ FailsOnLong

-------------------------------------------------------------------------------
(* Cells in step                                                           *)

(* Cells in step that are cut short still are (Break).                     *)
LEMMA CutInStep ==
  ASSUME NEW s, NEW t, Len(s) \in Nat, Len(t) \in Nat, Begins(s, t),
         NEW sz, NEW d, NEW at, InStep(s, sz, d, at)
  PROVE  InStep(t, sz, d, at)
  <1>1. \A i \in 1..Len(t) : i \in 1..Len(s) /\ t[i] = s[i]
    BY DEF Begins
  <1>2. QED
    BY <1>1, Zenon DEF InStep

(* The offsets of one more frame.                                          *)
LEMMA OffsetsGrow ==
  ASSUME NEW sz, NEW sw, NEW at, NEW bt, NEW l \in Nat, NEW n \in Nat, n = Len(sz),
         Offsets(at, sz), Grown(sz, sw, l, at, bt)
  PROVE  Offsets(bt, sw)
  <1>1. /\ \A j \in 1..n : sz[j] \in Nat /\ at[j + 1] = at[j] + sz[j]
        /\ \A j \in 1..(n + 1) : at[j] \in Nat
        /\ \A j, k \in 1..(n + 1) : j <= k => at[j] <= at[k]
    BY Zenon DEF Offsets
  <1>2. /\ Len(sw) = n + 1 /\ sw[n + 1] = l
        /\ \A j \in 1..n : sw[j] = sz[j]
        /\ \A j \in 1..(n + 1) : bt[j] = at[j]
        /\ bt[n + 2] = at[n + 1] + l
    BY Zenon DEF Grown
  <1>3. ASSUME NEW j \in 1..(n + 1)
        PROVE  sw[j] \in Nat /\ bt[j + 1] = bt[j] + sw[j]
    <2>1. CASE j = n + 1
      BY <2>1, <1>2
    <2>2. CASE j \in 1..n
      BY <2>2, <1>1, <1>2
    <2>3. QED
      BY <2>1, <2>2
  <1>4. \A j \in 1..(n + 2) : bt[j] \in Nat
    <2>1. bt[n + 2] \in Nat
      BY <1>1, <1>2
    <2>2. \A j \in 1..(n + 2) : j \in 1..(n + 1) \/ j = n + 2
      OBVIOUS
    <2>3. QED
      BY <2>1, <2>2, <1>1, <1>2, Zenon
  <1>5. ASSUME NEW j \in 1..(n + 2), NEW k \in 1..(n + 2), j <= k
        PROVE  bt[j] <= bt[k]
    <2>1. CASE k \in 1..(n + 1)
      BY <1>1, <1>2, <1>5, <2>1
    <2>2. CASE k = n + 2 /\ j = n + 2
      BY <2>2, <1>4
    <2>3. CASE k = n + 2 /\ j \in 1..(n + 1)
      <3>1. at[j] <= at[n + 1] /\ at[j] \in Nat /\ at[n + 1] \in Nat
        BY <2>3, <1>1
      <3>2. bt[j] = at[j] /\ bt[k] = at[n + 1] + l
        BY <2>3, <1>2
      <3>3. QED
        BY <3>1, <3>2
    <2>4. QED
      BY <2>1, <2>2, <2>3, <1>5
  <1>6. Len(sw) + 1 = n + 2
    BY <1>2
  <1>7. QED
    BY <1>2, <1>3, <1>4, <1>5, <1>6, Zenon DEF Offsets

(* Cells in step are, among more frames, too (SendFrame, broken socket).   *)
LEMMA GrowsInStep ==
  ASSUME NEW s, NEW sz, NEW sw, NEW d \in Nat, NEW l \in Nat, NEW at, NEW bt,
         NEW n \in Nat, n = Len(sz), d <= n,
         InStep(s, sz, d, at), Grown(sz, sw, l, at, bt)
  PROVE  InStep(s, sw, d, bt)
  <1> SUFFICES ASSUME NEW i \in 1..Len(s)
               PROVE  /\ s[i][1] \in (d + 1)..Len(sw)
                      /\ s[i][2] \in 1..sw[s[i][1]]
                      /\ bt[s[i][1]] + s[i][2] = bt[d + 1] + i
    BY Zenon DEF InStep
  <1> DEFINE j == s[i][1]
             k == s[i][2]
  <1>1. j \in (d + 1)..n /\ k \in 1..sz[j] /\ at[j] + k = at[d + 1] + i
    BY Zenon DEF InStep
  <1> HIDE DEF j, k
  <1>2. j \in 1..n /\ j \in 1..(n + 1) /\ d + 1 \in 1..(n + 1) /\ j \in (d + 1)..(n + 1)
    BY <1>1
  <1>3. Len(sw) = n + 1 /\ sw[j] = sz[j] /\ bt[j] = at[j] /\ bt[d + 1] = at[d + 1]
    BY <1>2, Zenon DEF Grown
  <1>4. QED
    BY <1>1, <1>2, <1>3, Zenon DEF j, k

(* A whole frame put behind all the cells sent is in step with them.       *)
LEMMA ExtendsInStep ==
  ASSUME NEW s, NEW t, NEW sz, NEW sw, NEW d \in Nat, NEW l \in Nat, NEW at, NEW bt,
         NEW n \in Nat, n = Len(sz), d <= n, NEW p \in Nat, p = Len(s),
         Offsets(at, sz), InStep(s, sz, d, at), Complete(s, sz, d, at),
         Grown(sz, sw, l, at, bt), Extends(t, s, n + 1, l)
  PROVE  InStep(t, sw, d, bt) /\ Complete(t, sw, d, bt)
  <1>1. /\ Len(sw) = n + 1 /\ sw[n + 1] = l
        /\ \A j \in 1..(n + 1) : bt[j] = at[j]
        /\ bt[n + 2] = at[n + 1] + l
    BY Zenon DEF Grown
  <1>2. d + 1 \in 1..(n + 1) /\ n + 1 \in 1..(n + 1) /\ (n + 1) + 1 = n + 2
    OBVIOUS
  <1>3. PICK a \in Nat : a = at[d + 1] /\ at[n + 1] = a + p
    BY <1>2, Zenon DEF Offsets, Complete
  <1>4. bt[d + 1] = a /\ bt[n + 1] = a + p /\ bt[n + 2] = (a + p) + l
    BY <1>1, <1>2, <1>3, Zenon
  <1>5. /\ Len(t) = p + l
        /\ \A i \in 1..p : t[i] = s[i]
        /\ \A k \in 1..l : t[p + k] = <<n + 1, k>>
    BY Zenon DEF Extends
  <1>6. bt[n + 2] = bt[d + 1] + Len(t)
    <2>1. (a + p) + l = a + (p + l)
      OBVIOUS
    <2>2. QED
      BY <2>1, <1>4, <1>5, Zenon
  <1>7. Complete(t, sw, d, bt)
    BY <1>1, <1>2, <1>6, Zenon DEF Complete
  <1>8. InStep(s, sw, d, bt)
    BY GrowsInStep, Zenon
  <1>9. ASSUME NEW i \in 1..Len(t)
        PROVE  /\ t[i][1] \in (d + 1)..Len(sw)
               /\ t[i][2] \in 1..sw[t[i][1]]
               /\ bt[t[i][1]] + t[i][2] = bt[d + 1] + i
    <2>1. CASE i \in 1..p
      BY <2>1, <1>5, <1>8, Zenon DEF InStep
    <2>2. CASE i > p
      <3>1. i - p \in 1..l /\ p + (i - p) = i /\ i \in Nat
        BY <2>2, <1>5
      <3>2. t[i] = <<n + 1, i - p>>
        BY <3>1, <1>5, Zenon
      <3>3. t[i][1] = n + 1 /\ t[i][2] = i - p
        BY <3>2
      <3>4. (a + p) + (i - p) = a + i
        BY <3>1
      <3>5. n + 1 \in (d + 1)..(n + 1)
        OBVIOUS
      <3>6. QED
        BY <3>1, <3>3, <3>4, <3>5, <1>1, <1>4, Zenon
    <2>3. QED
      BY <2>1, <2>2, <1>5
  <1>10. QED
    BY <1>7, <1>9, Zenon DEF InStep

(* The first cells in step are those of the first frame to read.           *)
LEMMA StartInStep ==
  ASSUME NEW s, NEW sz, NEW d \in Nat, NEW at, NEW n \in Nat, n = Len(sz),
         Offsets(at, sz), InStep(s, sz, d, at), NEW i \in 1..Len(s), i \in Nat
  PROVE  /\ d + 1 \in 1..n
         /\ i <= sz[d + 1] => IsCell(s[i], d + 1, i)
         /\ i > sz[d + 1] => s[i][1] \in (d + 2)..n
  <1> DEFINE j == s[i][1]
             k == s[i][2]
  <1>1. j \in (d + 1)..n /\ k \in 1..sz[j] /\ at[j] + k = at[d + 1] + i
    BY Zenon DEF InStep
  <1> HIDE DEF j, k
  <1>2. /\ d + 1 \in 1..n /\ (d + 1) + 1 = d + 2 /\ d + 2 \in 1..(n + 1)
        /\ d + 1 \in 1..(n + 1) /\ j \in 1..(n + 1) /\ j \in 1..n
    BY <1>1
  <1>3. /\ at[d + 2] = at[d + 1] + sz[d + 1]
        /\ at[d + 1] \in Nat /\ at[j] \in Nat /\ sz[d + 1] \in Nat /\ sz[j] \in Nat
    BY <1>2, Zenon DEF Offsets
  <1>4. CASE j = d + 1
    <2>1. k = i /\ ~ (i > sz[d + 1])
      BY <1>1, <1>3, <1>4
    <2>2. QED
      BY <2>1, <1>2, <1>4, Zenon DEF j, k, IsCell
  <1>5. CASE j # d + 1
    <2>1. j \in (d + 2)..n /\ d + 2 <= j
      BY <1>1, <1>5
    <2>2. at[d + 2] <= at[j]
      BY <2>1, <1>2, Zenon DEF Offsets
    <2>3. ~ (i <= sz[d + 1])
      BY <2>2, <1>1, <1>3
    <2>4. QED
      BY <2>1, <2>3, <1>2, Zenon DEF j
  <1>6. QED
    BY <1>4, <1>5, Zenon

(* Once the first frame is read, the rest is in step.                      *)
LEMMA DropsInStep ==
  ASSUME NEW s, NEW t, NEW sz, NEW d \in Nat, NEW at, NEW n \in Nat, n = Len(sz),
         NEW p \in Nat, p = Len(t), NEW z \in Nat, z = sz[d + 1], d + 1 <= n,
         Offsets(at, sz), InStep(s, sz, d, at), Ends(s, t, z)
  PROVE  /\ InStep(t, sz, d + 1, at)
         /\ Complete(s, sz, d, at) => Complete(t, sz, d + 1, at)
  <1>1. d + 1 \in 1..n /\ d + 1 \in 1..(n + 1) /\ (d + 1) + 1 = d + 2
    OBVIOUS
  <1>2. at[d + 2] = at[d + 1] + z /\ at[d + 1] \in Nat
    BY <1>1, Zenon DEF Offsets
  <1>3. Len(s) = z + p /\ \A i \in 1..p : t[i] = s[z + i]
    BY Zenon DEF Ends
  <1>4. at[d + 1] + (z + p) = at[d + 2] + p
    BY <1>2
  <1>5. Complete(s, sz, d, at) => Complete(t, sz, d + 1, at)
    BY <1>1, <1>3, <1>4, Zenon DEF Complete
  <1>6. ASSUME NEW i \in 1..p
        PROVE  /\ t[i][1] \in (d + 2)..n
               /\ t[i][2] \in 1..sz[t[i][1]]
               /\ at[t[i][1]] + t[i][2] = at[d + 2] + i
    <2>1. z + i \in 1..Len(s) /\ z + i > sz[d + 1] /\ z + i \in Nat
      BY <1>3
    <2>2. t[i] = s[z + i]
      BY <1>3, Zenon
    <2>3. t[i][1] \in (d + 2)..n
      <3>1. PICK q \in 1..Len(s) : q = z + i
        BY <2>1, Zenon
      <3>2. q \in Nat /\ q > sz[d + 1] /\ t[i] = s[q]
        BY <2>1, <2>2, <3>1, Zenon
      <3>3. s[q][1] \in (d + 2)..n
        BY <3>2, StartInStep, Zenon
      <3>4. QED
        BY <3>2, <3>3, Zenon
    <2>4. t[i][2] \in 1..sz[t[i][1]] /\ at[t[i][1]] + t[i][2] = at[d + 1] + (z + i)
      BY <2>1, <2>2, Zenon DEF InStep
    <2>5. at[d + 1] + (z + i) = at[d + 2] + i
      BY <1>2
    <2>6. QED
      BY <2>3, <2>4, <2>5, Zenon
  <1>7. QED
    BY <1>1, <1>5, <1>6, Zenon DEF InStep

-------------------------------------------------------------------------------
(* Sequences and frames                                                    *)

(* The first n elements of a sequence, and the others.                     *)
LEMMA Cut ==
  ASSUME NEW S, NEW b \in Seq(S), NEW n \in 0..Len(b)
  PROVE  /\ SubSeq(b, 1, n) \in Seq(S) /\ Len(SubSeq(b, 1, n)) = n
         /\ \A i \in 1..n : SubSeq(b, 1, n)[i] = b[i]
         /\ SubSeq(b, n + 1, Len(b)) \in Seq(S)
         /\ Len(SubSeq(b, n + 1, Len(b))) = Len(b) - n
  <1>1. Len(b) \in Nat /\ \A i \in 1..Len(b) : b[i] \in S
    BY LenProperties
  <1>2. n \in Int /\ n + 1 \in Int /\ Len(b) \in Int /\ 0 <= n /\ n <= Len(b)
    BY <1>1
  <1>3. \A i \in 1..n : b[i] \in S
    BY <1>1
  <1>4. \A i \in (n + 1)..Len(b) : b[i] \in S
    BY <1>1
  <1>5. /\ SubSeq(b, 1, n) \in Seq(S) /\ Len(SubSeq(b, 1, n)) = n
        /\ \A i \in 1..n : SubSeq(b, 1, n)[i] = b[i]
    BY <1>2, <1>3, SubSeqProperties
  <1>6. SubSeq(b, n + 1, Len(b)) \in Seq(S) /\ Len(SubSeq(b, n + 1, Len(b))) = Len(b) - n
    BY <1>2, <1>4, SubSeqProperties
  <1>7. QED
    BY <1>5, <1>6, Zenon

(* What is taken off the front of b and put behind a stays in order.       *)
LEMMA Moved ==
  ASSUME NEW S, NEW a \in Seq(S), NEW b \in Seq(S), NEW n \in 1..Len(b)
  PROVE  (a \o SubSeq(b, 1, n)) \o SubSeq(b, n + 1, Len(b)) = a \o b
  <1>1. Len(b) \in Nat /\ n \in 0..Len(b)
    BY LenProperties
  <1>2. SubSeq(b, 1, n) \o SubSeq(b, n + 1, Len(b)) = SubSeq(b, 1, Len(b))
    <2>1. 1 \in 1..(Len(b) + 1) /\ n \in (1 - 1)..Len(b) /\ Len(b) \in n..Len(b)
      BY <1>1
    <2>2. QED
      BY <2>1, ConcatAdjacentSubSeq
  <1>3. SubSeq(b, 1, Len(b)) = b
    BY SubSeqFull
  <1>4. PICK u \in Seq(S), v \in Seq(S) : u = SubSeq(b, 1, n) /\ v = SubSeq(b, n + 1, Len(b))
    BY <1>1, Cut, Zenon
  <1>5. (a \o u) \o v = a \o (u \o v)
    BY ConcatAssociative
  <1>6. QED
    BY <1>2, <1>3, <1>4, <1>5, Zenon

(* Sequence q with e appended.                                             *)
Longer(q, r, e) == Len(r) = Len(q) + 1 /\ r[Len(q) + 1] = e /\ \A i \in 1..Len(q) : r[i] = q[i]

(* Append puts e behind q, and leaves q alone.                             *)
LEMMA AppendShape ==
  ASSUME NEW S, NEW q \in Seq(S), NEW e \in S
  PROVE  Longer(q, Append(q, e), e)
  BY AppendProperties DEF Longer

(* Cells put together in either order are the same.                        *)
LEMMA CellsAssociate ==
  ASSUME NEW a \in Seq(CellPairs), NEW b \in Seq(CellPairs), NEW c \in Seq(CellPairs)
  PROVE  (a \o b) \o c = a \o (b \o c)
  BY ConcatAssociative

(* A header of four cells, a body and one more cell.                       *)
LEMMA Framed ==
  ASSUME NEW S, NEW a \in S, NEW b \in S, NEW c \in S, NEW e \in S, NEW x \in S,
         NEW body \in Seq(S), NEW l \in Nat, l = Len(body),
         NEW f, f = (<<a, b, c, e>> \o body) \o <<x>>
  PROVE  /\ f \in Seq(S) /\ Len(f) = l + 5
         /\ f[1] = a /\ f[2] = b /\ f[3] = c /\ f[4] = e
         /\ \A i \in 1..l : f[4 + i] = body[i]
         /\ f[l + 5] = x
  <1> DEFINE h == <<a, b, c, e>>
             y == <<x>>
  <1>1. /\ h \in Seq(S) /\ Len(h) = 4 /\ h[1] = a /\ h[2] = b /\ h[3] = c /\ h[4] = e
        /\ y \in Seq(S) /\ Len(y) = 1 /\ y[1] = x
    OBVIOUS
  <1>2. f = (h \o body) \o y
    BY Zenon
  <1> HIDE DEF h, y
  <1>3. /\ h \o body \in Seq(S) /\ Len(h \o body) = 4 + l
        /\ \A i \in 1..(4 + l) : (h \o body)[i] = IF i <= 4 THEN h[i] ELSE body[i - 4]
    <2>1. /\ h \o body \in Seq(S) /\ Len(h \o body) = Len(h) + Len(body)
          /\ \A i \in 1..(Len(h) + Len(body)) :
               (h \o body)[i] = IF i <= Len(h) THEN h[i] ELSE body[i - Len(h)]
      BY <1>1, ConcatProperties, Zenon
    <2>2. QED
      BY <2>1, <1>1, Zenon
  <1>4. PICK g \in Seq(S) : g = h \o body
    BY <1>3, Zenon
  <1>5. Len(g) = 4 + l /\ \A i \in 1..(4 + l) : g[i] = IF i <= 4 THEN h[i] ELSE body[i - 4]
    BY <1>3, <1>4, Zenon
  <1>6. /\ f \in Seq(S) /\ Len(f) = l + 5
        /\ \A i \in 1..(l + 5) : f[i] = IF i <= 4 + l THEN g[i] ELSE y[i - (4 + l)]
    BY <1>1, <1>2, <1>4, <1>5, ConcatProperties
  <1>7. f[1] = h[1] /\ f[2] = h[2] /\ f[3] = h[3] /\ f[4] = h[4]
    BY <1>5, <1>6
  <1>8. ASSUME NEW i \in 1..l
        PROVE  f[4 + i] = body[i]
    <2>1. /\ 4 + i \in 1..(l + 5) /\ 4 + i \in 1..(4 + l)
          /\ 4 + i <= 4 + l /\ ~ (4 + i <= 4) /\ (4 + i) - 4 = i
      OBVIOUS
    <2>2. f[4 + i] = g[4 + i] /\ g[4 + i] = body[(4 + i) - 4]
      BY <2>1, <1>5, <1>6, Zenon
    <2>3. QED
      BY <2>1, <2>2, Zenon
  <1>9. f[l + 5] = x
    <2>1. l + 5 \in 1..(l + 5) /\ ~ (l + 5 <= 4 + l) /\ (l + 5) - (4 + l) = 1
      OBVIOUS
    <2>2. f[l + 5] = y[(l + 5) - (4 + l)]
      BY <2>1, <1>6, Zenon
    <2>3. QED
      BY <2>1, <2>2, <1>1, Zenon
  <1>10. QED
    BY <1>1, <1>6, <1>7, <1>8, <1>9, Zenon

(* What is where in the frame of a message (encode_frame).                 *)
FrameIs(f, type, p) ==
  /\ Len(f) = Len(p) + 5
  /\ f[1] = <<"magic">> /\ f[2] = <<"version">>
  /\ f[3] = <<"type", type>> /\ f[4] = <<"length", Len(p)>>
  /\ \A i \in 1..Len(p) : f[4 + i] = <<"data", p[i]>>
  /\ f[Len(p) + 5] = frame_crc(type, p)
  /\ p = [i \in 1..Len(p) |-> p[i]]

(* What encode_frame makes of a message of the catalogue is such a frame.  *)
LEMMA FrameShape ==
  ASSUME NEW m \in DOMAIN Catalogue
  PROVE  /\ Len(EncodePayload(Catalogue[m])) \in Nat
         /\ FrameIs(Frame[m], Catalogue[m].type, EncodePayload(Catalogue[m]))
  <1>1. PICK p, type, f : /\ p = EncodePayload(Catalogue[m]) /\ type = Catalogue[m].type
                          /\ f = Frame[m]
    BY Zenon
  <1>2. PICK l \in Nat : l = Len(p) /\ p = [i \in 1..l |-> p[i]]
    BY <1>1, CatalogueAssumption, Zenon
  <1> DEFINE body == [i \in DOMAIN p |-> <<"data", p[i]>>]
             crc  == frame_crc(type, p)
             S == {<<"magic">>, <<"version">>, <<"type", type>>, <<"length", l>>, crc}
                    \cup {<<"data", p[i]>> : i \in 1..l}
  <1>3. DOMAIN p = 1..l
    BY <1>2, Zenon
  <1>4. f = (<<<<"magic">>, <<"version">>, <<"type", type>>, <<"length", l>>>> \o body) \o <<crc>>
    BY <1>1, <1>2, Zenon DEF Frame, encode_frame
  <1>5. PICK a \in S, b \in S, c \in S, e \in S, x \in S :
          /\ a = <<"magic">> /\ b = <<"version">> /\ c = <<"type", type>> /\ e = <<"length", l>>
          /\ x = crc
    BY Zenon
  <1>6. body = [i \in 1..l |-> <<"data", p[i]>>] /\ \A i \in 1..l : <<"data", p[i]>> \in S
    BY <1>3, Zenon
  <1>7. \A i \in 1..l : body[i] = <<"data", p[i]>>
    BY <1>6, Zenon
  <1> HIDE DEF body, S, crc
  <1>8. body \in [1..l -> S]
    BY <1>6, Zenon
  <1>9. body \in Seq(S) /\ l = Len(body)
    BY <1>8
  <1>10. f = (<<a, b, c, e>> \o body) \o <<x>>
    BY <1>4, <1>5, Zenon
  <1>11. /\ Len(f) = l + 5
         /\ f[1] = a /\ f[2] = b /\ f[3] = c /\ f[4] = e
         /\ \A i \in 1..l : f[4 + i] = body[i]
         /\ f[l + 5] = x
    BY <1>9, <1>10, Framed
  <1>12. FrameIs(f, type, p)
    BY <1>2, <1>5, <1>7, <1>11, Zenon DEF crc, FrameIs
  <1>13. QED
    BY <1>1, <1>2, <1>12, Zenon

-------------------------------------------------------------------------------
(* What the reader sees                                                    *)

(* The frames sent, and their sizes.                                       *)
LEMMA SizesOfShape ==
  ASSUME NEW sent \in Seq(DOMAIN Catalogue)
  PROVE  /\ Len(SizesOf(sent)) = Len(sent) /\ Len(sent) \in Nat
         /\ \A j \in 1..Len(sent) :
              /\ sent[j] \in DOMAIN Catalogue
              /\ SizesOf(sent)[j] = Len(Frame[sent[j]])
              /\ SizesOf(sent)[j] \in Nat
  <1>1. Len(sent) \in Nat /\ \A j \in 1..Len(sent) : sent[j] \in DOMAIN Catalogue
    BY LenProperties, Zenon
  <1>2. \A j \in 1..Len(sent) : SizesOf(sent)[j] = Len(Frame[sent[j]])
    BY Zenon DEF SizesOf
  <1>3. \A j \in 1..Len(sent) : SizesOf(sent)[j] \in Nat
    <2> SUFFICES ASSUME NEW j \in 1..Len(sent)
                 PROVE  SizesOf(sent)[j] \in Nat
      OBVIOUS
    <2>1. PICK l \in Nat : Len(Frame[sent[j]]) = l + 5
      BY <1>1, FrameShape, Zenon DEF FrameIs
    <2>2. l + 5 \in Nat
      OBVIOUS
    <2>3. QED
      BY <2>1, <2>2, <1>2, Zenon
  <1>4. Len(SizesOf(sent)) = Len(sent)
    <2>1. DOMAIN SizesOf(sent) = 1..Len(sent)
      BY Zenon DEF SizesOf
    <2>2. SizesOf(sent) \in [1..Len(sent) -> Nat]
      BY <1>3, Zenon DEF SizesOf
    <2>3. QED
      BY <1>1, <2>2
  <1>5. QED
    BY <1>1, <1>2, <1>3, <1>4, Zenon

(* The same of the frames sent so far.                                     *)
LEMMA SizesShape ==
  ASSUME order \in Seq(DOMAIN Catalogue)
  PROVE  /\ Len(Sizes) = Len(order) /\ Len(order) \in Nat
         /\ \A j \in 1..Len(order) :
              /\ order[j] \in DOMAIN Catalogue
              /\ Sizes[j] = Len(Frame[order[j]])
              /\ Sizes[j] \in Nat
  BY SizesOfShape, Zenon DEF Sizes

(* The stream begins with what the reader has.                             *)
LEMMA StreamShape ==
  ASSUME StreamPlaces
  PROVE  /\ Unsent \in Seq(CellPairs) /\ got \o wire \in Seq(CellPairs)
         /\ Stream \in Seq(CellPairs) /\ Len(Stream) \in Nat /\ Len(got) \in Nat
         /\ Len(Stream) = (Len(got) + Len(wire)) + Len(Unsent)
         /\ \A i \in 1..Len(got) : i \in 1..Len(Stream) /\ Stream[i] = got[i]
  <1>1. got \in Seq(CellPairs) /\ wire \in Seq(CellPairs) /\ Unsent \in Seq(CellPairs)
    BY Zenon, EmptySeq DEF StreamPlaces, Unsent
  <1>2. /\ got \o wire \in Seq(CellPairs) /\ Len(got \o wire) = Len(got) + Len(wire)
        /\ \A i \in 1..(Len(got) + Len(wire)) :
             (got \o wire)[i] = IF i <= Len(got) THEN got[i] ELSE wire[i - Len(got)]
    BY <1>1, ConcatProperties, Zenon
  <1>3. PICK g \in Seq(CellPairs), u \in Seq(CellPairs) : g = got \o wire /\ u = Unsent
    BY <1>1, <1>2, Zenon
  <1>4. /\ g \o u \in Seq(CellPairs) /\ Len(g \o u) = Len(g) + Len(u)
        /\ \A i \in 1..(Len(g) + Len(u)) :
             (g \o u)[i] = IF i <= Len(g) THEN g[i] ELSE u[i - Len(g)]
    BY ConcatProperties, Zenon
  <1>5. Stream = g \o u
    BY <1>3, Zenon DEF Stream
  <1>6. Len(got) \in Nat /\ Len(wire) \in Nat /\ Len(u) \in Nat
    BY <1>1, LenProperties, Zenon
  <1>7. Len(Stream) = (Len(got) + Len(wire)) + Len(Unsent)
    BY <1>2, <1>3, <1>4, <1>5, Zenon
  <1>8. ASSUME NEW i \in 1..Len(got)
        PROVE  i \in 1..Len(Stream) /\ Stream[i] = got[i]
    <2>1. /\ i \in 1..(Len(got) + Len(wire)) /\ i \in 1..((Len(got) + Len(wire)) + Len(u))
          /\ i <= Len(got) /\ i <= Len(got) + Len(wire)
      BY <1>6
    <2>2. (g \o u)[i] = g[i] /\ g[i] = got[i]
      BY <2>1, <1>2, <1>3, <1>4, Zenon
    <2>3. QED
      BY <2>1, <2>2, <1>3, <1>5, <1>7, Zenon
  <1>9. Len(Stream) \in Nat
    BY <1>4, <1>5, LenProperties, Zenon
  <1>10. QED
    BY <1>1, <1>2, <1>4, <1>5, <1>6, <1>7, <1>8, <1>9, Zenon

(* The message to be read next.                                            *)
Due == order[Len(delivered) + 1]

DueLength == Len(EncodePayload(Catalogue[Due]))

(* The reader has the first cells of the next frame.                       *)
LEMMA GotCells ==
  ASSUME StreamInv
  PROVE  /\ Len(delivered) \in Nat /\ Len(got) \in Nat
         /\ Len(got) > 0 => Len(delivered) + 1 \in 1..Len(order)
         /\ \A i \in 1..Len(got) : Held(got[i]) = Frame[Due][i]
  <1>1. PICK d \in Nat : d = Len(delivered)
    BY LenProperties, Zenon DEF StreamInv, StreamPlaces
  <1>2. PICK at : Offsets(at, Sizes) /\ InStep(Stream, Sizes, d, at)
    BY <1>1, Zenon DEF StreamInv, StreamInStep
  <1>3. PICK n \in Nat : n = Len(Sizes) /\ n = Len(order)
    BY SizesShape, Zenon DEF StreamInv, StreamPlaces
  <1>4. /\ Len(got) \in Nat
        /\ \A i \in 1..Len(got) : i \in 1..Len(Stream) /\ Stream[i] = got[i]
    BY StreamShape, Zenon DEF StreamInv
  <1>5. ASSUME NEW i \in 1..Len(got)
        PROVE  d + 1 \in 1..n /\ got[i][1] = d + 1 /\ got[i][2] = i
    <2>1. i \in Nat /\ i <= Len(got) /\ Len(got) > 0
      BY <1>4
    <2>2. n = Len(Sizes) /\ i \in 1..Len(Stream)
      BY <1>3, <1>4, Zenon
    <2>3. d + 1 \in 1..n /\ (i <= Sizes[d + 1] => IsCell(Stream[i], d + 1, i))
      BY <2>1, <2>2, <1>2, StartInStep, Zenon
    <2>4. Len(got) <= Sizes[d + 1] /\ Sizes[d + 1] \in Nat
      BY <2>1, <2>3, <1>1, <1>3, SizesShape, Zenon DEF StreamInv, StreamPlaces, WithinFrame
    <2>5. i <= Sizes[d + 1]
      BY <2>1, <2>4, <1>4
    <2>6. QED
      BY <2>3, <2>5, <1>4, Zenon DEF IsCell
  <1>6. Len(got) > 0 => 1 \in 1..Len(got)
    BY <1>4
  <1>7. QED
    BY <1>1, <1>3, <1>4, <1>5, <1>6, Zenon DEF Held, Due

(* Once it has the header, it knows what it waits for.                     *)
LEMMA HeaderSeen ==
  ASSUME StreamInv, HeaderRead
  PROVE  /\ Len(delivered) + 1 \in 1..Len(order)
         /\ Due \in DOMAIN Catalogue /\ DueLength \in Nat
         /\ LengthIn(got) = DueLength /\ TypeIn(got) = Catalogue[Due].type
         /\ Len(got) \in Nat /\ Len(got) <= DueLength + 5
         /\ Sizes[Len(delivered) + 1] = DueLength + 5
         /\ Needed(got) = (DueLength + 5) - Len(got)
         /\ GoodHeader(got) <=> ~ TooLong(Due)
  <1>1. Len(got) \in Nat /\ Len(got) >= 4
    BY GotCells, Zenon DEF HeaderRead, HeaderLength
  <1>2. /\ 1 \in 1..Len(got) /\ 2 \in 1..Len(got) /\ 3 \in 1..Len(got)
        /\ 4 \in 1..Len(got) /\ Len(got) > 0
    BY <1>1
  <1>3. PICK f : f = Frame[Due]
    BY Zenon
  <1>4. /\ Len(delivered) + 1 \in 1..Len(order)
        /\ Held(got[1]) = f[1] /\ Held(got[2]) = f[2] /\ Held(got[3]) = f[3] /\ Held(got[4]) = f[4]
    BY <1>2, <1>3, GotCells, Zenon
  <1>5. Due \in DOMAIN Catalogue /\ Sizes[Len(delivered) + 1] = Len(f)
    BY <1>3, <1>4, SizesShape, Zenon DEF StreamInv, StreamPlaces, Due
  <1>6. PICK l \in Nat : l = DueLength
    BY <1>5, FrameShape, Zenon DEF DueLength
  <1>7. /\ Len(f) = l + 5 /\ f[1] = <<"magic">> /\ f[2] = <<"version">>
        /\ f[3] = <<"type", Catalogue[Due].type>> /\ f[4] = <<"length", l>>
    BY <1>3, <1>5, <1>6, FrameShape, Zenon DEF FrameIs, DueLength
  <1>8. <<"type", Catalogue[Due].type>>[2] = Catalogue[Due].type /\ <<"length", l>>[2] = l
    OBVIOUS
  <1>9. LengthIn(got) = l /\ TypeIn(got) = Catalogue[Due].type
    BY <1>4, <1>7, <1>8, Zenon DEF LengthIn, TypeIn
  <1>10. Len(got) <= l + 5
    BY <1>2, <1>5, <1>7, Zenon DEF StreamInv, WithinFrame
  <1>11. Needed(got) = (l + 5) - Len(got)
    <2>1. ~ (Len(got) < 4) /\ (4 + l + 1) - Len(got) = (l + 5) - Len(got)
      BY <1>1
    <2>2. Needed(got) = (4 + l + 1) - Len(got)
      BY <2>1, <1>9 DEF Needed, HeaderLength
    <2>3. QED
      BY <2>1, <2>2, Zenon
  <1>12. GoodHeader(got) <=> l <= MaxLength
    BY <1>4, <1>7, <1>9, Zenon DEF GoodHeader
  <1>13. l > MaxLength <=> ~ (l <= MaxLength)
    BY StreamAssumption
  <1>14. QED
    BY <1>1, <1>4, <1>5, <1>6, <1>7, <1>9, <1>10, <1>11, <1>12, <1>13, Zenon DEF TooLong, DueLength

(* A whole frame is what was sent: its payload, and a checksum that        *)
(* agrees.                                                                 *)
LEMMA FrameSeen ==
  ASSUME StreamInv, FrameRead
  PROVE  /\ Len(delivered) + 1 \in 1..Len(order) /\ Due \in DOMAIN Catalogue
         /\ Len(got) = Sizes[Len(delivered) + 1] /\ Len(got) > 0
         /\ TypeIn(got) = Catalogue[Due].type
         /\ Body(got) = EncodePayload(Catalogue[Due])
         /\ GoodChecksum(got)
  <1>1. HeaderRead /\ Needed(got) = 0
    BY Zenon DEF FrameRead
  <1>2. PICK l \in Nat : l = DueLength
    BY <1>1, HeaderSeen, Zenon
  <1>3. PICK p, f : p = EncodePayload(Catalogue[Due]) /\ f = Frame[Due]
    BY Zenon
  <1>4. /\ Len(delivered) + 1 \in 1..Len(order) /\ Due \in DOMAIN Catalogue
        /\ LengthIn(got) = l /\ TypeIn(got) = Catalogue[Due].type
        /\ Len(got) \in Nat /\ Sizes[Len(delivered) + 1] = l + 5
        /\ Needed(got) = (l + 5) - Len(got)
    BY <1>1, <1>2, HeaderSeen, Zenon
  <1>5. Len(got) = l + 5 /\ Len(got) > 0 /\ Len(got) \in 1..Len(got)
    BY <1>1, <1>4
  <1>6. /\ \A i \in 1..l : f[4 + i] = <<"data", p[i]>>
        /\ f[l + 5] = frame_crc(Catalogue[Due].type, p)
        /\ p = [i \in 1..l |-> p[i]]
    BY <1>2, <1>3, <1>4, FrameShape, Zenon DEF FrameIs, DueLength
  <1>7. ASSUME NEW i \in 1..l
        PROVE  Held(got[4 + i])[2] = p[i]
    <2>1. 4 + i \in 1..Len(got)
      BY <1>5
    <2>2. Held(got[4 + i]) = f[4 + i]
      BY <2>1, <1>3, GotCells, Zenon
    <2>3. Held(got[4 + i]) = <<"data", p[i]>>
      BY <2>2, <1>6, Zenon
    <2>4. QED
      BY <2>3
  <1>8. Body(got) = p
    <2>1. Body(got) = [i \in 1..l |-> Held(got[4 + i])[2]]
      BY <1>4, Zenon DEF Body, HeaderLength
    <2>2. QED
      BY <2>1, <1>6, <1>7, Zenon
  <1>9. Held(got[Len(got)]) = f[l + 5]
    BY <1>3, <1>5, GotCells, Zenon
  <1>10. GoodChecksum(got)
    BY <1>4, <1>6, <1>8, <1>9, Zenon DEF GoodChecksum
  <1>11. QED
    BY <1>3, <1>4, <1>5, <1>8, <1>10, Zenon

-------------------------------------------------------------------------------
(* Every step keeps the stream in step                                     *)

(* The cells of a frame as they are handed to the socket.                  *)
LEMMA CellsShape ==
  ASSUME NEW j \in Nat, NEW m \in DOMAIN Catalogue, NEW l, l = Len(Frame[m])
  PROVE  /\ Cells(j, m) \in Seq(CellPairs)
         /\ l \in Nat /\ Len(Cells(j, m)) = l
         /\ \A k \in 1..l : Cells(j, m)[k] = <<j, k>>
  <1>1. l \in Nat
    <2>1. PICK x \in Nat : l = x + 5
      BY FrameShape, Zenon DEF FrameIs
    <2>2. QED
      BY <2>1
  <1>2. Cells(j, m) = [k \in 1..l |-> <<j, k>>]
    BY Zenon DEF Cells
  <1>3. \A k \in 1..l : <<j, k>> \in CellPairs
    BY <1>1 DEF CellPairs
  <1>4. Cells(j, m) \in [1..l -> CellPairs]
    BY <1>2, <1>3, Zenon
  <1>5. Cells(j, m) \in Seq(CellPairs) /\ Len(Cells(j, m)) = l
    BY <1>1, <1>4
  <1>6. QED
    BY <1>1, <1>2, <1>5, Zenon

(* A script that is not empty has a first message and a rest.              *)
LEMMA ScriptShape ==
  ASSUME StreamPlaces, NEW w \in Writers, script[w] # <<>>
  PROVE  Head(script[w]) \in DOMAIN Catalogue /\ Tail(script[w]) \in Seq(DOMAIN Catalogue)
  <1>1. PICK q \in Seq(DOMAIN Catalogue) : q = script[w]
    BY Zenon DEF StreamPlaces
  <1>2. Head(q) \in DOMAIN Catalogue /\ Tail(q) \in Seq(DOMAIN Catalogue)
    BY <1>1, HeadTailProperties, Zenon
  <1>3. QED
    BY <1>1, <1>2, Zenon

(* A writer's step leaves every variable in its place; send_all hands the  *)
(* socket no more than it has room for.                                    *)
LEMMA WritingPlaces ==
  ASSUME StreamPlaces, NEW w \in Writers, Writing(w), WriterAlone
  PROVE  StreamPlaces'
  <1>1. CASE SendFrame(w)
    <2>1. Head(script[w]) \in DOMAIN Catalogue
      BY <1>1, ScriptShape, Zenon DEF SendFrame
    <2>2. Len(order) + 1 \in Nat
      BY LenProperties DEF StreamPlaces
    <2>3. Cells(Len(order) + 1, Head(script[w])) \in Seq(CellPairs)
      BY <2>1, <2>2, CellsShape, Zenon
    <2>4. left' \in [Writers -> Seq(CellPairs)]
      BY <1>1, <2>3, Zenon DEF StreamPlaces, SendFrame
    <2>5. order' \in Seq(DOMAIN Catalogue)
      BY <1>1, <2>1, AppendProperties, Zenon DEF StreamPlaces, SendFrame
    <2>6. QED
      BY <1>1, <2>4, <2>5, Zenon DEF StreamPlaces, SendFrame
  <1>2. CASE SendSome(w)
    <2>1. PICK n \in 1..Len(left[w]) :
            /\ Len(wire) + n <= SocketRoom
            /\ wire' = wire \o SubSeq(left[w], 1, n)
            /\ left' = [left EXCEPT ![w] = SubSeq(left[w], n + 1, Len(left[w]))]
      BY <1>2, Zenon DEF SendSome
    <2>2. wire \in Seq(CellPairs) /\ left[w] \in Seq(CellPairs)
      BY Zenon DEF StreamPlaces
    <2>3. n \in 0..Len(left[w])
      BY <2>2, LenProperties
    <2>4. /\ SubSeq(left[w], 1, n) \in Seq(CellPairs) /\ Len(SubSeq(left[w], 1, n)) = n
          /\ SubSeq(left[w], n + 1, Len(left[w])) \in Seq(CellPairs)
      BY <2>2, <2>3, Cut, Zenon
    <2>5. wire' \in Seq(CellPairs) /\ Len(wire') = Len(wire) + n
      BY <2>1, <2>2, <2>4, ConcatProperties, Zenon
    <2>6. left' \in [Writers -> Seq(CellPairs)]
      BY <2>1, <2>4, Zenon DEF StreamPlaces
    <2>7. QED
      BY <1>2, <2>1, <2>5, <2>6, Zenon DEF StreamPlaces, SendSome
  <1>3. CASE SendFails(w)
    <2>1. left' \in [Writers -> Seq(CellPairs)]
      BY <1>3, EmptySeq, Zenon DEF StreamPlaces, SendFails
    <2>2. QED
      BY <1>3, <2>1, Zenon DEF StreamPlaces, SendFails
  <1>4. CASE Unlock(w)
    <2>1. script[w] # <<>>
      BY <1>4, StreamAssumption, Zenon DEF Unlock, WriterAlone
    <2>2. script' \in [Writers -> Seq(DOMAIN Catalogue)]
      BY <1>4, <2>1, ScriptShape, Zenon DEF Unlock, StreamPlaces
    <2>3. QED
      BY <1>4, <2>2, Zenon DEF StreamPlaces, Unlock
  <1>5. QED
    BY <1>1, <1>2, <1>3, <1>4, Zenon DEF Writing

(* Break leaves every variable in its place; cells under way are lost.     *)
LEMMA BreakPlaces ==
  ASSUME StreamPlaces, Break
  PROVE  /\ StreamPlaces'
         /\ Len(wire') \in Nat /\ Len(wire') <= Len(wire)
         /\ \A i \in 1..Len(wire') : wire'[i] = wire[i]
  <1>1. PICK n \in 0..Len(wire) : wire' = SubSeq(wire, 1, n)
    BY Zenon DEF Break
  <1>2. Len(wire) \in Nat /\ \A i \in 1..Len(wire) : wire[i] \in CellPairs
    BY LenProperties, Zenon DEF StreamPlaces
  <1>3. n \in Nat /\ n <= Len(wire)
    BY <1>2
  <1>4. /\ wire' \in Seq(CellPairs) /\ Len(wire') = n
        /\ \A i \in 1..n : wire'[i] = wire[i]
    BY <1>1, Cut, Zenon DEF StreamPlaces
  <1>5. Len(wire') <= SocketRoom
    BY <1>2, <1>3, <1>4, StreamAssumption DEF StreamPlaces
  <1>6. StreamPlaces'
    BY <1>4, <1>5, Zenon DEF StreamPlaces, Break
  <1>7. QED
    BY <1>3, <1>4, <1>6, Zenon

(* The frames do not change when none is added.                            *)
LEMMA SameStream ==
  ASSUME StreamInStep, Stream' = Stream, order' = order, delivered' = delivered, open' = open
  PROVE  StreamInStep'
  <1>1. Sizes' = Sizes
    BY Zenon DEF Sizes, SizesOf
  <1>2. QED
    BY <1>1, Zenon DEF StreamInStep

(* SendFrame: the frame goes behind all that was sent before.              *)
LEMMA SendFrameInStep ==
  ASSUME StreamInv, NEW w \in Writers, SendFrame(w)
  PROVE  StreamInStep'
  <1>1. PICK d \in Nat, n \in Nat : d = Len(delivered) /\ n = Len(Sizes) /\ n = Len(order) /\ d <= n
    BY SizesShape, LenProperties, Zenon DEF StreamInv, StreamPlaces, ReadInOrder
  <1>2. PICK m \in DOMAIN Catalogue : m = Head(script[w])
    BY ScriptShape, Zenon DEF StreamInv, SendFrame
  <1>3. PICK l : l = Len(Frame[m])
    BY Zenon
  <1>4. n + 1 \in Nat
    OBVIOUS
  <1>5. PICK c \in Seq(CellPairs) : c = Cells(n + 1, m)
    BY <1>4, CellsShape, Zenon
  <1>6. l \in Nat /\ Len(c) = l /\ \A k \in 1..l : c[k] = <<n + 1, k>>
    BY <1>3, <1>4, <1>5, CellsShape, Zenon
  <1>7. PICK at : /\ Offsets(at, Sizes) /\ InStep(Stream, Sizes, d, at)
                  /\ open => Complete(Stream, Sizes, d, at)
    BY <1>1, Zenon DEF StreamInv, StreamInStep
  <1> DEFINE bt == [j \in 1..(n + 2) |-> IF j = n + 2 THEN at[n + 1] + l ELSE at[j]]
  <1>8. Grown(Sizes, Sizes', l, at, bt)
    <2>1. /\ order' = Append(order, m) /\ order \in Seq(DOMAIN Catalogue)
          /\ order' \in Seq(DOMAIN Catalogue)
      BY <1>2, AppendProperties, Zenon DEF SendFrame, StreamInv, StreamPlaces
    <2>2. Len(order') = n + 1 /\ order'[n + 1] = m /\ \A j \in 1..n : order'[j] = order[j]
      <3>1. Longer(order, Append(order, m), m)
        BY <2>1, AppendShape, Zenon
      <3>2. QED
        BY <3>1, <2>1, <1>1, Zenon DEF Longer
    <2>3. Len(Sizes') = n + 1 /\ \A j \in 1..(n + 1) : Sizes'[j] = Len(Frame[order'[j]])
      <3>1. PICK sent \in Seq(DOMAIN Catalogue) : sent = order' /\ Sizes' = SizesOf(sent)
        BY <2>1, Zenon DEF Sizes
      <3>2. QED
        BY <3>1, <2>2, SizesOfShape, Zenon
    <2>4. n + 1 \in 1..(n + 1) /\ (\A j \in 1..n : j \in 1..(n + 1))
      OBVIOUS
    <2>5. Sizes'[n + 1] = l /\ \A j \in 1..n : Sizes'[j] = Sizes[j]
      BY <2>1, <2>2, <2>3, <2>4, <1>1, <1>3, SizesShape, Zenon
    <2>6. /\ \A j \in 1..(n + 1) : j \in 1..(n + 2) /\ j # n + 2
          /\ n + 2 \in 1..(n + 2)
      OBVIOUS
    <2>7. bt[n + 2] = at[n + 1] + l /\ \A j \in 1..(n + 1) : bt[j] = at[j]
      BY <2>6, Zenon
    <2> HIDE DEF bt
    <2>8. QED
      BY <2>3, <2>5, <2>7, <1>1, Zenon DEF Grown
  <1> HIDE DEF bt
  <1>9. Offsets(bt, Sizes')
    BY <1>1, <1>6, <1>7, <1>8, OffsetsGrow, Zenon
  <1>10. delivered' = delivered /\ open' = open /\ got' = got /\ wire' = wire
    BY Zenon DEF SendFrame
  <1>11. got \o wire \in Seq(CellPairs) /\ Unsent = <<>> /\ Stream = got \o wire
    <2>1. Unsent = <<>>
      BY Zenon DEF SendFrame, Unsent
    <2>2. got \o wire \in Seq(CellPairs)
      BY StreamShape, Zenon DEF StreamInv
    <2>3. QED
      BY <2>1, <2>2, ConcatEmptySeq, Zenon DEF Stream
  <1>12. CASE ~ open
    <2>1. Unsent' = <<>>
      BY <1>10, <1>12, Zenon DEF Unsent
    <2>2. Stream' = Stream
      BY <2>1, <1>10, <1>11, Zenon DEF Stream
    <2>3. InStep(Stream', Sizes', d, bt)
      BY <2>2, <1>1, <1>6, <1>7, <1>8, GrowsInStep, Zenon
    <2>4. QED
      BY <2>3, <1>1, <1>9, <1>10, <1>12, Zenon DEF StreamInStep
  <1>13. CASE open
    <2>1. Unsent' = c
      <3>1. write_mutex' = w /\ w # Nobody /\ left'[w] = c
        BY <1>1, <1>2, <1>5, StreamAssumption, Zenon DEF SendFrame, StreamInv, StreamPlaces
      <3>2. QED
        BY <3>1, <1>10, <1>13, Zenon DEF Unsent
    <2>2. PICK s \in Seq(CellPairs) : s = Stream /\ Stream' = s \o c
      BY <2>1, <1>10, <1>11, Zenon DEF Stream
    <2>3. PICK p \in Nat : p = Len(s)
      BY LenProperties, Zenon
    <2>4. Extends(s \o c, s, n + 1, l)
      <3>1. /\ Len(s \o c) = p + l
            /\ \A i \in 1..(p + l) : (s \o c)[i] = IF i <= p THEN s[i] ELSE c[i - p]
        BY <2>3, <1>6, ConcatProperties, Zenon
      <3>2. \A i \in 1..p : i \in 1..(p + l) /\ i <= p
        BY <1>6
      <3>3. \A k \in 1..l : p + k \in 1..(p + l) /\ ~ (p + k <= p) /\ (p + k) - p = k
        BY <1>6
      <3>4. \A i \in 1..p : (s \o c)[i] = s[i]
        BY <3>1, <3>2, Zenon
      <3>5. \A k \in 1..l : (s \o c)[p + k] = c[k]
        BY <3>1, <3>3, Zenon
      <3>6. QED
        BY <3>1, <3>4, <3>5, <2>3, <1>6, Zenon DEF Extends
    <2>5. InStep(s, Sizes, d, at) /\ Complete(s, Sizes, d, at)
      BY <2>2, <1>7, <1>13, Zenon
    <2>6. InStep(s \o c, Sizes', d, bt) /\ Complete(s \o c, Sizes', d, bt)
      BY <2>3, <2>4, <2>5, <1>1, <1>6, <1>7, <1>8, ExtendsInStep, Zenon
    <2>7. QED
      BY <2>2, <2>6, <1>1, <1>9, <1>10, Zenon DEF StreamInStep
  <1>14. QED
    BY <1>12, <1>13, Zenon

(* SendSome moves cells from a writer to the socket.                       *)
LEMMA SendSomeInStep ==
  ASSUME StreamInv, NEW w \in Writers, SendSome(w)
  PROVE  StreamInStep'
  <1>1. PICK n \in 1..Len(left[w]) :
          /\ wire' = wire \o SubSeq(left[w], 1, n)
          /\ left' = [left EXCEPT ![w] = SubSeq(left[w], n + 1, Len(left[w]))]
    BY Zenon DEF SendSome
  <1>2. PICK g \in Seq(CellPairs), x \in Seq(CellPairs), b \in Seq(CellPairs) :
          g = got /\ x = wire /\ b = left[w]
    BY Zenon DEF StreamInv, StreamPlaces
  <1>3. /\ open /\ open' = open /\ write_mutex = w /\ write_mutex' = w /\ w # Nobody
        /\ got' = got /\ order' = order /\ delivered' = delivered
    BY StreamAssumption, Zenon DEF SendSome, StreamInv, WriterAlone
  <1>4. n \in 1..Len(b) /\ n \in 0..Len(b)
    BY <1>2, LenProperties
  <1>5. PICK u \in Seq(CellPairs), v \in Seq(CellPairs) :
          u = SubSeq(b, 1, n) /\ v = SubSeq(b, n + 1, Len(b))
    BY <1>4, Cut, Zenon
  <1>6. Unsent = b /\ Unsent' = v /\ wire' = x \o u
    BY <1>1, <1>2, <1>3, <1>5, Zenon DEF Unsent, StreamInv, StreamPlaces
  <1>7. Stream = (g \o x) \o b /\ Stream' = (g \o (x \o u)) \o v
    BY <1>2, <1>3, <1>6, Zenon DEF Stream
  <1>8. PICK y \in Seq(CellPairs) : y = g \o x
    BY ConcatProperties, Zenon
  <1>9. (g \o x) \o u = g \o (x \o u)
    BY CellsAssociate, Zenon
  <1>10. (y \o u) \o v = y \o b
    BY <1>4, <1>5, Moved, Zenon
  <1>11. Stream' = Stream
    BY <1>7, <1>8, <1>9, <1>10, Zenon
  <1>12. QED
    BY <1>3, <1>11, SameStream, Zenon DEF StreamInv

(* RecvSome: the reader asks for no more than its frame has left.          *)
LEMMA RecvSomeKept ==
  ASSUME StreamInv, RecvSome
  PROVE  StreamPlaces' /\ StreamInStep' /\ WithinFrame'
  <1>1. PICK n \in 1..Len(wire) : /\ n <= Needed(got)
                                  /\ got' = got \o SubSeq(wire, 1, n)
                                  /\ wire' = SubSeq(wire, n + 1, Len(wire))
    BY Zenon DEF RecvSome
  <1>2. PICK g \in Seq(CellPairs), x \in Seq(CellPairs) : g = got /\ x = wire
    BY Zenon DEF StreamInv, StreamPlaces
  <1>3. n \in 1..Len(x) /\ n \in 0..Len(x) /\ n \in Nat /\ Len(g) \in Nat /\ Len(x) \in Nat
    BY <1>2, LenProperties
  <1>4. PICK u \in Seq(CellPairs), v \in Seq(CellPairs) :
          /\ u = SubSeq(x, 1, n) /\ v = SubSeq(x, n + 1, Len(x))
          /\ Len(u) = n /\ Len(v) = Len(x) - n
    <2>1. SubSeq(x, 1, n) \in Seq(CellPairs) /\ SubSeq(x, n + 1, Len(x)) \in Seq(CellPairs)
      BY <1>3, Cut, Zenon
    <2>2. Len(SubSeq(x, 1, n)) = n /\ Len(SubSeq(x, n + 1, Len(x))) = Len(x) - n
      BY <1>3, Cut, Zenon
    <2>3. QED
      BY <2>1, <2>2, Zenon
  <1>5. got' = g \o u /\ wire' = v
    BY <1>1, <1>2, <1>4, Zenon
  <1>6. got' \in Seq(CellPairs) /\ Len(got') = Len(g) + n
    BY <1>4, <1>5, ConcatProperties, Zenon
  <1>7. Unsent' = Unsent
    BY Zenon DEF RecvSome, Unsent
  <1>8. (g \o u) \o v = g \o x
    BY <1>3, <1>4, Moved, Zenon
  <1>9. Stream' = Stream
    BY <1>2, <1>5, <1>7, <1>8, Zenon DEF Stream
  <1>10. StreamInStep'
    BY <1>9, SameStream, Zenon DEF RecvSome, StreamInv
  <1>11. Len(wire') <= SocketRoom
    <2>1. Len(x) <= SocketRoom
      BY <1>2, Zenon DEF StreamInv, StreamPlaces
    <2>2. Len(x) - n <= SocketRoom
      BY <2>1, <1>3, StreamAssumption
    <2>3. QED
      BY <2>2, <1>4, <1>5, Zenon
  <1>12. StreamPlaces'
    BY <1>5, <1>6, <1>11, Zenon DEF RecvSome, StreamInv, StreamPlaces
  <1>13. Len(got') <= Sizes[Len(delivered) + 1]
    <2>1. CASE HeaderRead
      <3>1. PICK z \in Nat : /\ Sizes[Len(delivered) + 1] = z + 5
                             /\ Needed(got) = (z + 5) - Len(g)
        BY <2>1, <1>2, HeaderSeen, Zenon
      <3>2. n <= (z + 5) - Len(g)
        BY <3>1, <1>1, Zenon
      <3>3. Len(g) + n <= z + 5
        BY <3>2, <1>3
      <3>4. QED
        BY <3>1, <3>3, <1>6, Zenon
    <2>2. CASE ~ HeaderRead
      <3>1. Len(g) < 4
        BY <2>2, <1>2, <1>3 DEF HeaderRead, HeaderLength
      <3>2. n <= 4 - Len(g)
        BY <3>1, <1>1, <1>2, Zenon DEF Needed, HeaderLength
      <3>3. Len(g) + n <= 4
        BY <3>2, <1>3
      <3>4. PICK d \in Nat, k \in Nat : d = Len(delivered) /\ k = Len(Sizes) /\ k = Len(order)
        BY SizesShape, LenProperties, Zenon DEF StreamInv, StreamPlaces
      <3>5. PICK s, sz : s = Stream /\ sz = Sizes
        BY Zenon
      <3>6. /\ k = Len(sz)
            /\ \E at : Offsets(at, sz) /\ InStep(s, sz, d, at)
        BY <3>4, <3>5, Zenon DEF StreamInv, StreamInStep
      <3>7. PICK at : Offsets(at, sz) /\ InStep(s, sz, d, at)
        BY <3>6, Zenon
      <3>8. 1 \in 1..Len(s) /\ 1 \in Nat
        <4>1. PICK t \in Nat : Len(s) = (Len(g) + Len(x)) + t
          BY <3>5, <1>2, StreamShape, LenProperties, Zenon DEF StreamInv
        <4>2. QED
          BY <4>1, <1>3
      <3>9. d + 1 \in 1..k
        BY <3>6, <3>7, <3>8, StartInStep, Zenon
      <3>10. order[d + 1] \in DOMAIN Catalogue /\ Sizes[d + 1] = Len(Frame[order[d + 1]])
        BY <3>4, <3>9, SizesShape, Zenon DEF StreamInv, StreamPlaces
      <3>11. PICK z \in Nat : Sizes[d + 1] = z + 5
        BY <3>10, FrameShape, Zenon DEF FrameIs
      <3>12. Len(g) + n <= z + 5
        BY <3>3, <1>3
      <3>13. QED
        BY <3>4, <3>11, <3>12, <1>6, Zenon
    <2>3. QED
      BY <2>1, <2>2, Zenon
  <1>14. Sizes' = Sizes /\ delivered' = delivered
    BY Zenon DEF RecvSome, Sizes, SizesOf
  <1>15. QED
    BY <1>10, <1>12, <1>13, <1>14, Zenon DEF WithinFrame

(* Deliver: the frame read is taken off the front.                         *)
LEMMA DeliverKept ==
  ASSUME StreamInv, Deliver
  PROVE  /\ StreamPlaces' /\ ReadInOrder' /\ StreamInStep'
         /\ \E r \in Readings(Due) : delivered' = Append(delivered, r)
         /\ Due \in DOMAIN Catalogue /\ Len(delivered) + 1 \in 1..Len(order)
  <1>1. FrameRead
    BY Zenon DEF Deliver
  <1>2. /\ Len(delivered) + 1 \in 1..Len(order) /\ Due \in DOMAIN Catalogue
        /\ Len(got) = Sizes[Len(delivered) + 1] /\ Len(got) > 0
        /\ TypeIn(got) = Catalogue[Due].type
        /\ Body(got) = EncodePayload(Catalogue[Due])
    BY <1>1, FrameSeen, Zenon
  <1>3. PICK r \in Readings(Due) : delivered' = Append(delivered, r)
    BY <1>2, Zenon DEF Deliver, Readings
  <1> DEFINE R == UNION { Readings(m) : m \in DOMAIN Catalogue }
  <1>4. r \in R /\ delivered \in Seq(R)
    BY <1>2, Zenon DEF StreamInv, StreamPlaces
  <1> HIDE DEF R
  <1>5. delivered' \in Seq(R) /\ Longer(delivered, delivered', r)
    BY <1>3, <1>4, AppendShape, AppendProperties, Zenon
  <1>6. PICK d \in Nat : d = Len(delivered)
    BY <1>4, LenProperties, Zenon
  <1>7. /\ Len(delivered') = d + 1 /\ delivered'[d + 1] = r
        /\ \A i \in 1..d : delivered'[i] = delivered[i]
    BY <1>5, <1>6, Zenon DEF Longer
  <1>8. StreamPlaces'
    BY <1>5, EmptySeq, Zenon DEF Deliver, StreamInv, StreamPlaces, R
  <1>9. ReadInOrder'
    <2>1. Len(order) \in Nat /\ d + 1 \in 1..Len(order)
      BY <1>2, <1>6, LenProperties, Zenon DEF StreamInv, StreamPlaces
    <2>2. d + 1 <= Len(order)
      BY <2>1
    <2>3. \A i \in 1..(d + 1) : i \in 1..d \/ i = d + 1
      OBVIOUS
    <2>4. \A i \in 1..(d + 1) : delivered'[i] \in Readings(order[i])
      BY <2>3, <1>6, <1>7, Zenon DEF StreamInv, ReadInOrder, Due
    <2>5. QED
      BY <2>2, <2>4, <1>7, Zenon DEF ReadInOrder, Deliver
  <1>10. StreamInStep'
    <2>1. PICK at : /\ Offsets(at, Sizes) /\ InStep(Stream, Sizes, d, at)
                    /\ open => Complete(Stream, Sizes, d, at)
      BY <1>6, Zenon DEF StreamInv, StreamInStep
    <2>2. PICK g \in Seq(CellPairs), x \in Seq(CellPairs), u \in Seq(CellPairs) :
            g = got /\ x = wire /\ u = Unsent
      BY StreamShape, Zenon DEF StreamInv, StreamPlaces
    <2>3. got' = <<>> /\ wire' = x /\ Unsent' = u /\ Sizes' = Sizes /\ open' = open
      BY <2>2, Zenon DEF Deliver, Unsent, Sizes, SizesOf
    <2>4. Stream' = x \o u
      <3>1. <<>> \o x = x
        BY ConcatEmptySeq, Zenon
      <3>2. QED
        BY <3>1, <2>3, Zenon DEF Stream
    <2>5. (g \o x) \o u = g \o (x \o u)
      BY CellsAssociate, Zenon
    <2>6. PICK t \in Seq(CellPairs) : t = x \o u
      BY ConcatProperties, Zenon
    <2>7. Stream = g \o t
      BY <2>2, <2>5, <2>6, Zenon DEF Stream
    <2>8. PICK z \in Nat : z = Len(g)
      BY LenProperties, Zenon
    <2>9. PICK p \in Nat : p = Len(t)
      BY LenProperties, Zenon
    <2>10. Ends(g \o t, t, z)
      <3>1. /\ Len(g \o t) = z + p
            /\ \A i \in 1..(z + p) : (g \o t)[i] = IF i <= z THEN g[i] ELSE t[i - z]
        BY <2>8, <2>9, ConcatProperties, Zenon
      <3>2. \A i \in 1..p : z + i \in 1..(z + p) /\ ~ (z + i <= z) /\ (z + i) - z = i
        OBVIOUS
      <3>3. \A i \in 1..p : t[i] = (g \o t)[z + i]
        BY <3>1, <3>2, Zenon
      <3>4. QED
        BY <3>1, <3>3, <2>9, Zenon DEF Ends
    <2>11. PICK s, sz : s = Stream /\ sz = Sizes
      BY Zenon
    <2>12. PICK n \in Nat : n = Len(sz) /\ n = Len(order)
      BY <2>11, SizesShape, Zenon DEF StreamInv, StreamPlaces
    <2>13. d + 1 <= n /\ z = sz[d + 1] /\ n = Len(sz)
      <3>1. d + 1 \in 1..n
        BY <2>12, <1>2, <1>6, Zenon
      <3>2. d + 1 <= n
        BY <3>1
      <3>3. QED
        BY <3>2, <2>2, <2>8, <2>11, <2>12, <1>2, <1>6, Zenon
    <2>14. Offsets(at, sz) /\ InStep(s, sz, d, at) /\ Ends(s, t, z)
      BY <2>1, <2>7, <2>10, <2>11, Zenon
    <2>15. InStep(t, sz, d + 1, at) /\ (Complete(s, sz, d, at) => Complete(t, sz, d + 1, at))
      BY <2>9, <2>13, <2>14, DropsInStep, Zenon
    <2>16. Stream' = t /\ Sizes' = sz
      BY <2>3, <2>4, <2>6, <2>11, Zenon
    <2>17. QED
      BY <2>1, <2>3, <2>11, <2>14, <2>15, <2>16, <1>7, Zenon DEF StreamInStep
  <1>11. QED
    BY <1>2, <1>3, <1>8, <1>9, <1>10, Zenon

(* Break: what was under way is cut off somewhere.                         *)
LEMMA BreakInStep ==
  ASSUME StreamInv, Break
  PROVE  StreamInStep'
  <1>1. PICK at : Offsets(at, Sizes) /\ InStep(Stream, Sizes, Len(delivered), at)
    BY Zenon DEF StreamInv, StreamInStep
  <1>2. PICK g \in Seq(CellPairs), x \in Seq(CellPairs),
             u \in Seq(CellPairs), y \in Seq(CellPairs) :
          g = got /\ x = wire /\ u = Unsent /\ y = wire'
    BY StreamShape, BreakPlaces, Zenon DEF StreamInv, StreamPlaces
  <1>3. Len(y) <= Len(x) /\ \A i \in 1..Len(y) : y[i] = x[i]
    BY <1>2, BreakPlaces, Zenon DEF StreamInv
  <1>4. got' = g /\ Unsent' = <<>> /\ Sizes' = Sizes /\ open' = FALSE /\ delivered' = delivered
    BY <1>2, Zenon DEF Break, Unsent, Sizes, SizesOf
  <1>5. PICK t \in Seq(CellPairs), v \in Seq(CellPairs) : t = g \o y /\ v = g \o x
    BY ConcatProperties, Zenon
  <1>6. Stream' = t
    <2>1. t \o <<>> = t
      BY ConcatEmptySeq, Zenon
    <2>2. QED
      BY <2>1, <1>2, <1>4, <1>5, Zenon DEF Stream
  <1>7. Stream = v \o u
    BY <1>2, <1>5, Zenon DEF Stream
  <1>8. /\ Len(g) \in Nat /\ Len(x) \in Nat /\ Len(y) \in Nat /\ Len(u) \in Nat
    BY LenProperties, Zenon
  <1>9. /\ Len(t) = Len(g) + Len(y)
        /\ \A i \in 1..(Len(g) + Len(y)) : t[i] = IF i <= Len(g) THEN g[i] ELSE y[i - Len(g)]
    BY <1>5, ConcatProperties, Zenon
  <1>10. /\ Len(v) = Len(g) + Len(x)
         /\ \A i \in 1..(Len(g) + Len(x)) : v[i] = IF i <= Len(g) THEN g[i] ELSE x[i - Len(g)]
    BY <1>5, ConcatProperties, Zenon
  <1>11. /\ Len(v \o u) = Len(v) + Len(u)
         /\ \A i \in 1..(Len(v) + Len(u)) :
              (v \o u)[i] = IF i <= Len(v) THEN v[i] ELSE u[i - Len(v)]
    BY ConcatProperties, Zenon
  <1>12. Len(t) <= Len(v \o u) /\ Len(t) \in Nat /\ Len(v \o u) \in Nat /\ Len(v) \in Nat
    BY <1>3, <1>8, <1>9, <1>10, <1>11
  <1>13. ASSUME NEW i \in 1..Len(t)
         PROVE  t[i] = (v \o u)[i]
    <2>1. /\ i \in 1..(Len(g) + Len(y)) /\ i \in 1..(Len(g) + Len(x))
          /\ i \in 1..(Len(v) + Len(u)) /\ i <= Len(v)
      BY <1>3, <1>8, <1>9, <1>10
    <2>2. ~ (i <= Len(g)) => i - Len(g) \in 1..Len(y)
      BY <2>1, <1>8
    <2>3. (v \o u)[i] = v[i]
      BY <2>1, <1>11, Zenon
    <2>4. t[i] = v[i]
      BY <2>1, <2>2, <1>3, <1>9, <1>10, Zenon
    <2>5. QED
      BY <2>3, <2>4, Zenon
  <1>14. Begins(v \o u, t)
    BY <1>12, <1>13, Zenon DEF Begins
  <1>15. InStep(t, Sizes, Len(delivered), at)
    BY <1>1, <1>7, <1>12, <1>14, CutInStep, Zenon
  <1>16. QED
    BY <1>1, <1>4, <1>6, <1>15, Zenon DEF StreamInStep

(* A message that was sent keeps its place.                                *)
LEMMA OrderGrows ==
  ASSUME StreamPlaces, NEW w \in Writers, SendFrame(w)
  PROVE  /\ Len(order) \in Nat /\ Len(order') = Len(order) + 1
         /\ order' = Append(order, Head(script[w])) /\ Head(script[w]) \in DOMAIN Catalogue
         /\ \A j \in 1..Len(order) : /\ j \in 1..Len(order')
                                     /\ order'[j] = order[j]
                                     /\ Sizes'[j] = Sizes[j]
  <1>1. PICK m \in DOMAIN Catalogue : m = Head(script[w])
    BY ScriptShape, Zenon DEF SendFrame
  <1>2. PICK n \in Nat : n = Len(order)
    BY LenProperties, Zenon DEF StreamPlaces
  <1>3. order' = Append(order, m) /\ Longer(order, order', m)
    BY <1>1, AppendShape, Zenon DEF SendFrame, StreamPlaces
  <1>4. Len(order') = n + 1 /\ \A j \in 1..n : order'[j] = order[j]
    BY <1>2, <1>3, Zenon DEF Longer
  <1>5. \A j \in 1..n : j \in 1..(n + 1)
    OBVIOUS
  <1>6. \A j \in 1..n : Sizes'[j] = Sizes[j]
    BY <1>2, <1>4, <1>5, Zenon DEF Sizes, SizesOf
  <1>7. QED
    BY <1>1, <1>2, <1>3, <1>4, <1>5, <1>6, Zenon

(* send_frame takes the mutex: no other writer has cells left, and the     *)
(* frames read so far keep their places.                                   *)
LEMMA SendFrameKept ==
  ASSUME StreamInv, NEW w \in Writers, SendFrame(w)
  PROVE  StreamInv'
  <1>1. StreamPlaces' /\ StreamInStep'
    BY WritingPlaces, SendFrameInStep, Zenon DEF StreamInv, Writing
  <1>2. /\ Len(order) \in Nat /\ Len(order') = Len(order) + 1
        /\ \A j \in 1..Len(order) : /\ j \in 1..Len(order')
                                    /\ order'[j] = order[j]
                                    /\ Sizes'[j] = Sizes[j]
    BY OrderGrows, Zenon DEF StreamInv
  <1>3. got' = got /\ delivered' = delivered /\ reader' = reader /\ script' = script
    BY Zenon DEF SendFrame
  <1>4. WriterAlone'
    <2>1. \A v \in Writers : v # w => left'[v] = left[v]
      BY Zenon DEF SendFrame, StreamInv, StreamPlaces
    <2>2. \A v \in Writers : left[v] = <<>>
      BY StreamAssumption, Zenon DEF SendFrame, StreamInv, WriterAlone
    <2>3. QED
      BY <2>1, <2>2, Zenon DEF SendFrame, WriterAlone
  <1>5. ReadInOrder'
    <2>1. Len(delivered) \in Nat /\ Len(delivered) <= Len(order)
      BY GotCells, Zenon DEF StreamInv, ReadInOrder
    <2>2. Len(delivered) <= Len(order) + 1 /\ \A i \in 1..Len(delivered) : i \in 1..Len(order)
      BY <2>1, <1>2
    <2>3. QED
      BY <2>2, <1>2, <1>3, Zenon DEF StreamInv, ReadInOrder
  <1>6. WithinFrame'
    BY <1>2, <1>3, GotCells, Zenon DEF StreamInv, WithinFrame
  <1>7. FailsOnLong'
    BY <1>2, <1>3, Zenon DEF StreamInv, FailsOnLong, TooLong
  <1>8. QED
    BY <1>1, <1>4, <1>5, <1>6, <1>7, Zenon DEF StreamInv

(* The steps that send no frame and read none.                             *)
LEMMA SameOrder ==
  ASSUME StreamInv, order' = order, delivered' = delivered, reader' = reader
  PROVE  ReadInOrder' /\ FailsOnLong' /\ (got' = got => WithinFrame')
  BY Zenon DEF StreamInv, ReadInOrder, FailsOnLong, TooLong, WithinFrame, Sizes, SizesOf

(* The steps of a writer.                                                  *)
LEMMA WritingKept ==
  ASSUME StreamInv, NEW w \in Writers, Writing(w)
  PROVE  StreamInv'
  <1>1. CASE SendFrame(w)
    BY <1>1, SendFrameKept, Zenon
  <1>2. StreamPlaces'
    BY WritingPlaces, Zenon DEF StreamInv
  <1>3. CASE SendSome(w)
    <2>1. StreamInStep'
      BY <1>3, SendSomeInStep, Zenon
    <2>2. WriterAlone'
      BY <1>3, Zenon DEF SendSome, StreamInv, StreamPlaces, WriterAlone
    <2>3. QED
      BY <1>2, <1>3, <2>1, <2>2, SameOrder, Zenon DEF StreamInv, SendSome
  <1>4. CASE SendFails(w)
    <2>1. Stream' = Stream
      BY <1>4, Zenon DEF SendFails, Stream, Unsent
    <2>2. StreamInStep'
      BY <2>1, <1>4, SameStream, Zenon DEF SendFails, StreamInv
    <2>3. WriterAlone'
      BY <1>4, Zenon DEF SendFails, StreamInv, StreamPlaces, WriterAlone
    <2>4. QED
      BY <1>2, <1>4, <2>2, <2>3, SameOrder, Zenon DEF StreamInv, SendFails
  <1>5. CASE Unlock(w)
    <2>1. Unsent = <<>> /\ Unsent' = <<>>
      BY <1>5, StreamAssumption, Zenon DEF Unlock, Unsent
    <2>2. Stream' = Stream
      BY <2>1, <1>5, Zenon DEF Unlock, Stream
    <2>3. StreamInStep'
      BY <2>2, <1>5, SameStream, Zenon DEF Unlock, StreamInv
    <2>4. WriterAlone'
      BY <1>5, Zenon DEF Unlock, StreamInv, StreamPlaces, WriterAlone
    <2>5. QED
      BY <1>2, <1>5, <2>3, <2>4, SameOrder, Zenon DEF StreamInv, Unlock
  <1>6. QED
    BY <1>1, <1>3, <1>4, <1>5, Zenon DEF Writing

(* The steps of the reader: recv_frame throws only on a header whose       *)
(* length it does not accept.                                              *)
LEMMA ReadingKept ==
  ASSUME StreamInv, Reading
  PROVE  StreamInv'
  <1>1. WriterAlone'
    BY Zenon DEF StreamInv, WriterAlone, Reading, RecvSome, Deliver, RecvFails, StreamEnds
  <1>2. CASE RecvSome
    BY <1>1, <1>2, RecvSomeKept, SameOrder, Zenon DEF StreamInv, RecvSome
  <1>3. CASE Deliver
    <2>1. reader' # "failed" /\ Len(got') = 0
      BY <1>3, EmptySeq, Zenon DEF Deliver
    <2>2. WithinFrame' /\ FailsOnLong'
      <3>1. ~ (0 > 0)
        OBVIOUS
      <3>2. QED
        BY <2>1, <3>1, Zenon DEF WithinFrame, FailsOnLong
    <2>3. QED
      BY <1>1, <1>3, <2>2, DeliverKept, Zenon DEF StreamInv
  <1>4. CASE RecvFails \/ StreamEnds
    <2>1. /\ script' = script /\ write_mutex' = write_mutex /\ left' = left /\ order' = order
          /\ open' = open /\ wire' = wire /\ got' = got /\ delivered' = delivered
          /\ reader' \in {"ended", "failed"}
      BY <1>4, Zenon DEF RecvFails, StreamEnds
    <2>2. StreamPlaces'
      BY <2>1, Zenon DEF StreamInv, StreamPlaces
    <2>3. Stream' = Stream /\ StreamPlaces'
      BY <2>1, <2>2, Zenon DEF Stream, Unsent
    <2>4. StreamInStep'
      BY <2>3, <1>4, SameStream, Zenon DEF RecvFails, StreamEnds, StreamInv
    <2>5. ReadInOrder' /\ WithinFrame'
      BY <1>4, Zenon DEF RecvFails, StreamEnds, StreamInv, ReadInOrder, WithinFrame, Sizes, SizesOf
    <2>6. FailsOnLong'
      <3>1. CASE StreamEnds
        BY <3>1, Zenon DEF StreamEnds, FailsOnLong
      <3>2. CASE RecvFails
        <4>1. HeaderRead /\ ~ GoodHeader(got)
          BY <3>2, FrameSeen, Zenon DEF RecvFails, Misread
        <4>2. TooLong(Due) /\ Len(delivered) + 1 \in 1..Len(order)
          BY <4>1, HeaderSeen, Zenon
        <4>3. QED
          BY <3>2, <4>2, Zenon DEF RecvFails, FailsOnLong, TooLong, Due
      <3>3. QED
        BY <1>4, <3>1, <3>2, Zenon
    <2>7. QED
      BY <1>1, <2>3, <2>4, <2>5, <2>6, Zenon DEF StreamInv
  <1>5. QED
    BY <1>2, <1>3, <1>4, Zenon DEF Reading

(* The connection breaks.                                                  *)
LEMMA BreakKept ==
  ASSUME StreamInv, Break
  PROVE  StreamInv'
  <1>1. StreamPlaces' /\ StreamInStep'
    BY BreakPlaces, BreakInStep, Zenon DEF StreamInv
  <1>2. WriterAlone'
    BY Zenon DEF StreamInv, WriterAlone, Break
  <1>3. QED
    BY <1>1, <1>2, SameOrder, Zenon DEF StreamInv, Break

(* Nothing sent, nothing to read.                                          *)
LEMMA StreamStart ==
  ASSUME StreamInit
  PROVE  StreamInv
  <1>1. Len(<<>>) = 0 /\ 0 <= 0 /\ ~ (0 > 0) /\ 0 + 1 = 1 /\ (\A i \in 1..0 : FALSE) /\ 0 \in Nat
    OBVIOUS
  <1>2. StreamPlaces
    <2>1. script \in [Writers -> Seq(DOMAIN Catalogue)]
      BY StreamAssumption, Zenon DEF StreamInit
    <2>2. 0 <= SocketRoom
      BY StreamAssumption
    <2>3. QED
      BY <2>1, <2>2, <1>1, EmptySeq, Zenon DEF StreamInit, StreamPlaces
  <1>3. WriterAlone
    BY Zenon DEF StreamInit, WriterAlone
  <1>4. ReadInOrder /\ WithinFrame /\ FailsOnLong
    BY <1>1, Zenon DEF StreamInit, ReadInOrder, WithinFrame, FailsOnLong
  <1>5. Stream = <<>>
    <2>1. <<>> \o <<>> = <<>>
      BY EmptySeq, ConcatEmptySeq, Zenon
    <2>2. QED
      BY <2>1, Zenon DEF StreamInit, Stream, Unsent
  <1>6. StreamInStep
    <2>1. Len(Sizes) = 0
      BY <1>1, EmptySeq, SizesShape, Zenon DEF StreamInit
    <2> DEFINE at == [j \in 1..1 |-> 0]
    <2>2. at[1] = 0 /\ (\A j \in 1..1 : at[j] \in Nat) /\ \A j, k \in 1..1 : at[j] <= at[k]
      BY <1>1
    <2> HIDE DEF at
    <2>3. Offsets(at, Sizes)
      BY <1>1, <2>1, <2>2, Zenon DEF Offsets
    <2>4. InStep(Stream, Sizes, 0, at)
      BY <1>1, <1>5, Zenon DEF InStep
    <2>5. Complete(Stream, Sizes, 0, at)
      <3>1. 0 = 0 + 0
        OBVIOUS
      <3>2. QED
        BY <3>1, <1>1, <1>5, <2>1, <2>2, Zenon DEF Complete
    <2>6. QED
      BY <1>1, <2>3, <2>4, <2>5, Zenon DEF StreamInit, StreamInStep
  <1>7. QED
    BY <1>2, <1>3, <1>4, <1>6, Zenon DEF StreamInv

(* The reader and the writers of a connection stay in step.                *)
THEOREM StreamInOrder == StreamSpec => []StreamInv
  <1>1. StreamInit => StreamInv
    BY StreamStart
  <1>2. StreamInv /\ [StreamNext]_streamVars => StreamInv'
    <2> SUFFICES ASSUME StreamInv, [StreamNext]_streamVars
                 PROVE  StreamInv'
      OBVIOUS
    <2>1. CASE StreamNext
      BY <2>1, WritingKept, ReadingKept, BreakKept, Zenon DEF StreamNext
    <2>2. CASE UNCHANGED streamVars
      <3>1. Stream' = Stream
        BY <2>2, Zenon DEF streamVars, Stream, Unsent
      <3>2. StreamInStep'
        BY <3>1, <2>2, SameStream, Zenon DEF streamVars, StreamInv
      <3>3. StreamPlaces' /\ WriterAlone'
        BY <2>2, Zenon DEF streamVars, StreamInv, StreamPlaces, WriterAlone
      <3>4. QED
        BY <2>2, <3>2, <3>3, SameOrder, Zenon DEF streamVars, StreamInv
    <2>3. QED
      BY <2>1, <2>2, Zenon
  <1>3. QED
    BY <1>1, <1>2, PTL DEF StreamSpec

(* StreamTypeOK: a frame is only written under the mutex.                  *)
THEOREM StreamTyped == StreamSpec => []StreamTypeOK
  <1>1. StreamInv => StreamTypeOK
    BY Zenon DEF StreamInv, StreamPlaces, WriterAlone, StreamTypeOK
  <1>2. QED
    BY <1>1, StreamInOrder, PTL

(* Every message is read back by its codec as it was written.              *)
RoundTrip ==
  \A m \in DOMAIN Catalogue :
    LET reads == DecodePayload(Catalogue[m].type, EncodePayload(Catalogue[m]))
    IN  reads # {} /\ \A read \in reads : read.rec = Catalogue[m].body

(* NeverMisread: framing under the mutex keeps the reader in step whatever *)
(* the codecs, if each reads what it wrote.                                *)
THEOREM FramesAreRead ==
  ASSUME RoundTrip
  PROVE  StreamSpec => []NeverMisread
  <1>1. StreamInv => NeverMisread
    <2> SUFFICES ASSUME StreamInv
                 PROVE  NeverMisread
      OBVIOUS
    <2>1. Misread => TooLong(Due)
      BY FrameSeen, HeaderSeen, Zenon DEF Misread
    <2>2. reader = "failed" => TooLong(Due)
      BY Zenon DEF StreamInv, FailsOnLong, Due
    <2>3. FrameRead => DecodePayload(TypeIn(got), Body(got)) # {}
      BY FrameSeen, Zenon DEF RoundTrip
    <2>4. QED
      BY <2>1, <2>2, <2>3, Zenon DEF NeverMisread, Due
  <1>2. QED
    BY <1>1, StreamInOrder, PTL

-------------------------------------------------------------------------------
(* The stream implements the channel                                       *)

(* Messages d + 1 to k of those sent.                                      *)
QueueOf(sent, d, k) ==
  [i \in DOMAIN SubSeq(sent, d + 1, k) |-> Catalogue[SubSeq(sent, d + 1, k)[i]]]

(* They are messages of the catalogue, k - d of them.                      *)
LEMMA QueueShape ==
  ASSUME NEW sent \in Seq(DOMAIN Catalogue), NEW d \in Nat, NEW k \in Nat,
         d <= k, k <= Len(sent)
  PROVE  /\ QueueOf(sent, d, k) \in Seq(Range(Catalogue))
         /\ Len(QueueOf(sent, d, k)) = k - d
         /\ \A i \in 1..(k - d) : QueueOf(sent, d, k)[i] = Catalogue[sent[d + i]]
  <1>1. Len(sent) \in Nat /\ \A i \in 1..Len(sent) : sent[i] \in DOMAIN Catalogue
    BY LenProperties
  <1>2. \A i \in (d + 1)..k : sent[i] \in DOMAIN Catalogue
    BY <1>1
  <1>3. d + 1 \in Int /\ k \in Int
    OBVIOUS
  <1>4. PICK a : a = SubSeq(sent, d + 1, k)
    BY Zenon
  <1>5. /\ a \in Seq(DOMAIN Catalogue) /\ Len(a) = k - d
        /\ \A i \in 1..(k - d) : a[i] = sent[d + i]
    BY <1>2, <1>3, <1>4, SubSeqProperties
  <1>6. DOMAIN a = 1..(k - d) /\ \A i \in 1..(k - d) : a[i] \in DOMAIN Catalogue
    BY <1>5, LenProperties, Zenon
  <1>7. PICK q : q = QueueOf(sent, d, k)
    BY Zenon
  <1>8. q = [i \in 1..(k - d) |-> Catalogue[a[i]]]
    BY <1>4, <1>6, <1>7, Zenon DEF QueueOf
  <1>9. q \in [1..(k - d) -> Range(Catalogue)]
    BY <1>6, <1>8, Zenon DEF Range
  <1>10. k - d \in Nat
    OBVIOUS
  <1>11. q \in Seq(Range(Catalogue)) /\ Len(q) = k - d
    BY <1>9, <1>10
  <1>12. \A i \in 1..(k - d) : q[i] = Catalogue[sent[d + i]]
    BY <1>5, <1>8, Zenon
  <1>13. QED
    BY <1>7, <1>11, <1>12, Zenon

(* What is added, taken and lost when messages are sent, read and dropped. *)
LEMMA QueueGrows ==
  ASSUME NEW sent \in Seq(DOMAIN Catalogue), NEW m \in DOMAIN Catalogue, NEW d \in Nat,
         NEW k \in Nat, d <= k, k <= Len(sent)
  PROVE  /\ QueueOf(Append(sent, m), d, k) = QueueOf(sent, d, k)
         /\ k = Len(sent) =>
              QueueOf(Append(sent, m), d, k + 1) = Append(QueueOf(sent, d, k), Catalogue[m])
  <1>1. PICK more \in Seq(DOMAIN Catalogue) : more = Append(sent, m)
    BY AppendProperties, Zenon
  <1>2. /\ Len(more) = Len(sent) + 1 /\ more[Len(sent) + 1] = m
        /\ \A i \in 1..Len(sent) : more[i] = sent[i]
    BY <1>1, AppendShape, Zenon DEF Longer
  <1>3. Len(sent) \in Nat
    BY LenProperties, Zenon
  <1>4. PICK q \in Seq(Range(Catalogue)) :
          /\ q = QueueOf(sent, d, k) /\ Len(q) = k - d
          /\ \A i \in 1..(k - d) : q[i] = Catalogue[sent[d + i]]
    BY QueueShape, Zenon
  <1>5. /\ k <= Len(more) /\ k + 1 <= Len(sent) + 1 /\ d <= k + 1
        /\ k + 1 \in Nat /\ (k + 1) - d = (k - d) + 1
    BY <1>2, <1>3
  <1>6. \A i \in 1..(k - d) : d + i \in 1..Len(sent)
    BY <1>3
  <1>7. PICK r \in Seq(Range(Catalogue)) :
          /\ r = QueueOf(more, d, k) /\ Len(r) = k - d
          /\ \A i \in 1..(k - d) : r[i] = Catalogue[more[d + i]]
    BY <1>5, QueueShape, Zenon
  <1>8. r = q
    <2>1. \A i \in 1..(k - d) : more[d + i] = sent[d + i]
      BY <1>2, <1>6, Zenon
    <2>2. \A i \in 1..(k - d) : r[i] = q[i]
      BY <2>1, <1>4, <1>7, Zenon
    <2>3. QED
      BY <2>2, <1>4, <1>7, SeqEqual
  <1>9. ASSUME k = Len(sent)
        PROVE  QueueOf(more, d, k + 1) = Append(q, Catalogue[m])
    <2>1. k + 1 <= Len(more)
      BY <1>2, <1>5, <1>9
    <2>2. PICK t \in Seq(Range(Catalogue)) :
            /\ t = QueueOf(more, d, k + 1) /\ Len(t) = (k + 1) - d
            /\ \A i \in 1..((k + 1) - d) : t[i] = Catalogue[more[d + i]]
      BY <2>1, <1>5, QueueShape, Zenon
    <2>3. /\ t = QueueOf(more, d, k + 1) /\ Len(t) = (k - d) + 1
          /\ \A i \in 1..((k - d) + 1) : t[i] = Catalogue[more[d + i]]
      BY <2>2, <1>5, Zenon
    <2>4. PICK c \in Range(Catalogue) : c = Catalogue[m]
      BY Zenon DEF Range
    <2>5. PICK u \in Seq(Range(Catalogue)) : u = Append(q, c)
      BY AppendProperties, Zenon
    <2>6. Len(u) = (k - d) + 1 /\ u[(k - d) + 1] = c /\ \A i \in 1..(k - d) : u[i] = q[i]
      <3>1. Longer(q, u, c)
        BY <2>5, AppendShape, Zenon
      <3>2. QED
        BY <3>1, <1>4, Zenon DEF Longer
    <2>7. ASSUME NEW i \in 1..((k - d) + 1)
          PROVE  t[i] = u[i]
      <3>1. CASE i = (k - d) + 1
        <4>1. d + i = Len(sent) + 1
          BY <3>1, <1>9
        <4>2. QED
          BY <4>1, <3>1, <2>3, <2>4, <2>6, <1>2, Zenon
      <3>2. CASE i \in 1..(k - d)
        BY <3>2, <2>3, <2>6, <1>2, <1>4, <1>6, Zenon
      <3>3. QED
        BY <3>1, <3>2
    <2>8. t = u
      BY <2>3, <2>6, <2>7, SeqEqual
    <2>9. QED
      BY <2>3, <2>4, <2>5, <2>8, Zenon
  <1>10. QED
    BY <1>1, <1>4, <1>7, <1>8, <1>9, Zenon

(* A message that is read is the first of the queue.                       *)
LEMMA QueueDrops ==
  ASSUME NEW sent \in Seq(DOMAIN Catalogue), NEW d \in Nat, NEW k \in Nat,
         d < k, k <= Len(sent)
  PROVE  /\ QueueOf(sent, d, k) # <<>>
         /\ Head(QueueOf(sent, d, k)) = Catalogue[sent[d + 1]]
         /\ Tail(QueueOf(sent, d, k)) = QueueOf(sent, d + 1, k)
  <1>1. PICK q \in Seq(Range(Catalogue)) :
          /\ q = QueueOf(sent, d, k) /\ Len(q) = k - d
          /\ \A i \in 1..(k - d) : q[i] = Catalogue[sent[d + i]]
    <2>1. d <= k
      OBVIOUS
    <2>2. QED
      BY <2>1, QueueShape, Zenon
  <1>2. PICK r \in Seq(Range(Catalogue)) :
          /\ r = QueueOf(sent, d + 1, k) /\ Len(r) = k - (d + 1)
          /\ \A i \in 1..(k - (d + 1)) : r[i] = Catalogue[sent[(d + 1) + i]]
    <2>1. d + 1 <= k /\ d + 1 \in Nat
      OBVIOUS
    <2>2. QED
      BY <2>1, QueueShape, Zenon
  <1>3. Len(q) > 0 /\ 1 \in 1..(k - d)
    BY <1>1
  <1>4. q # <<>>
    BY <1>3
  <1>5. Head(q) = q[1]
    BY <1>4
  <1>6. Tail(q) \in Seq(Range(Catalogue)) /\ Len(Tail(q)) = k - (d + 1)
    BY <1>1, <1>4, HeadTailProperties
  <1>7. \A i \in 1..(k - (d + 1)) : Tail(q)[i] = q[i + 1]
    BY <1>4, <1>6, HeadTailProperties, Zenon
  <1>8. \A i \in 1..(k - (d + 1)) : i + 1 \in 1..(k - d) /\ d + (i + 1) = (d + 1) + i
    OBVIOUS
  <1>9. \A i \in 1..(k - (d + 1)) : Tail(q)[i] = r[i]
    BY <1>1, <1>2, <1>7, <1>8, Zenon
  <1>10. Tail(q) = r
    BY <1>2, <1>6, <1>9, SeqEqual
  <1>11. QED
    BY <1>1, <1>2, <1>3, <1>4, <1>5, <1>10, Zenon

(* What is left of a queue that was cut is how it began.                   *)
LEMMA QueueCut ==
  ASSUME NEW sent \in Seq(DOMAIN Catalogue), NEW d \in Nat, NEW j \in Nat, NEW k \in Nat,
         d <= j, j <= k, k <= Len(sent)
  PROVE  /\ j - d \in 0..Len(QueueOf(sent, d, k))
         /\ QueueOf(sent, d, j) = SubSeq(QueueOf(sent, d, k), 1, j - d)
  <1>1. Len(sent) \in Nat /\ j <= Len(sent) /\ d <= k
    BY LenProperties
  <1>2. PICK q \in Seq(Range(Catalogue)) :
          /\ q = QueueOf(sent, d, k) /\ Len(q) = k - d
          /\ \A i \in 1..(k - d) : q[i] = Catalogue[sent[d + i]]
    BY <1>1, QueueShape, Zenon
  <1>3. PICK r \in Seq(Range(Catalogue)) :
          /\ r = QueueOf(sent, d, j) /\ Len(r) = j - d
          /\ \A i \in 1..(j - d) : r[i] = Catalogue[sent[d + i]]
    BY <1>1, QueueShape, Zenon
  <1>4. j - d \in 0..Len(q)
    BY <1>2
  <1>5. PICK u \in Seq(Range(Catalogue)) : u = SubSeq(q, 1, j - d)
    BY <1>4, Cut, Zenon
  <1>6. Len(u) = j - d /\ \A i \in 1..(j - d) : u[i] = q[i]
    BY <1>4, <1>5, Cut, Zenon
  <1>7. \A i \in 1..(j - d) : i \in 1..(k - d)
    OBVIOUS
  <1>8. \A i \in 1..(j - d) : u[i] = r[i]
    BY <1>2, <1>3, <1>6, <1>7, Zenon
  <1>9. u = r
    BY <1>3, <1>6, <1>8, SeqEqual
  <1>10. QED
    BY <1>2, <1>3, <1>4, <1>5, <1>9, Zenon

(* The messages that reach the reader: all those sent, or those of which   *)
(* the last cell is under way.                                             *)
WholeOf(cells, sent, d) ==
  IF cells = <<>> THEN d
  ELSE IF cells[Len(cells)][2] = Len(Frame[sent[cells[Len(cells)][1]]])
       THEN cells[Len(cells)][1]
       ELSE cells[Len(cells)][1] - 1

Reaching == IF open THEN Len(order) ELSE WholeOf(got \o wire, order, Len(delivered))

Queue == [i \in DOMAIN Arriving |-> Catalogue[Arriving[i]]]

(* The queue that the channel sees is those after the ones delivered.      *)
LEMMA QueueIs == Queue = QueueOf(order, Len(delivered), Reaching)
  <1>1. Arriving = SubSeq(order, Len(delivered) + 1, Reaching)
    BY Zenon DEF Arriving, Reaching, WholeOf
  <1>2. QED
    BY <1>1, Zenon DEF Queue, QueueOf

(* The last cell under way belongs to a frame that was sent and not read;  *)
(* with a whole frame to read, there is a message to receive.              *)
LEMMA ReachingBounds ==
  ASSUME StreamInv
  PROVE  /\ Reaching \in Nat /\ Len(delivered) \in Nat /\ Len(order) \in Nat
         /\ Len(delivered) <= Reaching /\ Reaching <= Len(order)
         /\ FrameRead => Len(delivered) < Reaching
         /\ got \o wire # <<>> => (got \o wire)[Len(got \o wire)][1] \in 1..Len(order)
         /\ FrameRead /\ wire = <<>> /\ ~ open => Reaching = Len(delivered) + 1
  <1>1. PICK d \in Nat : d = Len(delivered)
    BY GotCells, Zenon
  <1>2. PICK n \in Nat : n = Len(Sizes) /\ n = Len(order)
    BY SizesShape, Zenon DEF StreamInv, StreamPlaces
  <1>3. d <= n
    BY <1>1, <1>2, Zenon DEF StreamInv, ReadInOrder
  <1>4. PICK g \in Seq(CellPairs), x \in Seq(CellPairs),
             c \in Seq(CellPairs), u \in Seq(CellPairs) :
          g = got /\ x = wire /\ c = got \o wire /\ u = Unsent
    BY StreamShape, Zenon DEF StreamInv, StreamPlaces
  <1>5. PICK p \in Nat : p = Len(c)
    BY LenProperties, Zenon
  <1>6. PICK s, sz : s = Stream /\ sz = Sizes
    BY Zenon
  <1>7. PICK at : Offsets(at, sz) /\ InStep(s, sz, d, at)
    BY <1>1, <1>6, Zenon DEF StreamInv, StreamInStep
  <1>8. PICK z \in Nat, y \in Nat, v \in Nat : z = Len(g) /\ y = Len(x) /\ v = Len(u)
    BY LenProperties, Zenon
  <1>9. p = z + y
    BY <1>4, <1>5, <1>8, ConcatProperties, Zenon
  <1>10. Len(s) = p + v /\ \A i \in 1..p : s[i] = c[i]
    <2>1. s = c \o u
      BY <1>4, <1>6, Zenon DEF Stream
    <2>2. /\ Len(c \o u) = p + v
          /\ \A i \in 1..(p + v) : (c \o u)[i] = IF i <= p THEN c[i] ELSE u[i - p]
      BY <1>5, <1>8, ConcatProperties, Zenon
    <2>3. \A i \in 1..p : i \in 1..(p + v) /\ i <= p
      OBVIOUS
    <2>4. QED
      BY <2>1, <2>2, <2>3, Zenon
  <1>11. p > 0 => p \in 1..Len(s) /\ p \in 1..p
    BY <1>10
  (* The frame of the last cell.                                           *)
  <1>12. p > 0 => c[p][1] \in (d + 1)..n
    BY <1>2, <1>6, <1>7, <1>10, <1>11, Zenon DEF InStep
  <1>13. c = <<>> <=> p = 0
    BY <1>5
  <1>14. ~ open => Reaching = IF p = 0 THEN d
                              ELSE IF c[p][2] = Len(Frame[order[c[p][1]]]) THEN c[p][1]
                              ELSE c[p][1] - 1
    BY <1>1, <1>4, <1>5, <1>13, Zenon DEF Reaching, WholeOf
  <1>15. open => Reaching = n
    BY <1>2, Zenon DEF Reaching
  <1>16. Reaching \in Nat /\ d <= Reaching /\ Reaching <= n
    <2>1. CASE open
      BY <2>1, <1>3, <1>15
    <2>2. CASE ~ open /\ p = 0
      BY <2>2, <1>3, <1>14
    <2>3. CASE ~ open /\ p > 0
      <3>1. PICK j \in (d + 1)..n : j = c[p][1]
        BY <2>3, <1>12, Zenon
      <3>2. Reaching = j \/ Reaching = j - 1
        <4>1. ~ (p = 0)
          BY <2>3
        <4>2. QED
          BY <4>1, <3>1, <2>3, <1>14, Zenon
      <3>3. QED
        BY <3>1, <3>2
    <2>4. QED
      BY <2>1, <2>2, <2>3
  <1>17. c # <<>> => c[p][1] \in 1..n
    <2>1. p > 0 => c[p][1] \in 1..n
      BY <1>12
    <2>2. p = 0 \/ p > 0
      OBVIOUS
    <2>3. QED
      BY <2>1, <2>2, <1>13, Zenon
  <1>18. ASSUME FrameRead
         PROVE  /\ d < Reaching
                /\ wire = <<>> /\ ~ open => Reaching = d + 1
    <2>1. /\ d + 1 \in 1..n /\ z = sz[d + 1] /\ z > 0
          /\ sz[d + 1] = Len(Frame[order[d + 1]])
      BY <1>1, <1>2, <1>4, <1>6, <1>8, <1>18, FrameSeen, SizesShape, Zenon
        DEF StreamInv, StreamPlaces
    <2>2. p > 0 /\ ~ (p = 0) /\ p >= z
      BY <2>1, <1>9
    <2>3. p <= z => c[p][1] = d + 1 /\ c[p][2] = p /\ p = z
      <3>1. p <= z => p = z
        BY <2>2
      <3>2. p \in 1..Len(s) /\ n = Len(sz)
        BY <2>2, <1>2, <1>6, <1>11, Zenon
      <3>3. p <= sz[d + 1] => IsCell(s[p], d + 1, p)
        BY <3>2, <1>7, StartInStep, Zenon
      <3>4. QED
        BY <3>1, <3>3, <2>1, <2>2, <1>10, <1>11, Zenon DEF IsCell
    <2>4. p > z => c[p][1] \in (d + 2)..n
      <3>1. p \in 1..Len(s) /\ n = Len(sz)
        BY <2>2, <1>2, <1>6, <1>11, Zenon
      <3>2. p > sz[d + 1] => s[p][1] \in (d + 2)..n
        BY <3>1, <1>7, StartInStep, Zenon
      <3>3. QED
        BY <3>2, <2>1, <2>2, <1>10, <1>11, Zenon
    <2>5. p <= z /\ ~ open => Reaching = d + 1
      BY <2>1, <2>2, <2>3, <1>14, Zenon
    <2>6. wire = <<>> => p <= z
      <3>1. wire = <<>> => y = 0
        BY <1>4, <1>8, EmptySeq, Zenon
      <3>2. QED
        BY <3>1, <1>9
    <2>7. d < Reaching
      <3>1. CASE open
        BY <3>1, <2>1, <1>15
      <3>2. CASE ~ open /\ p <= z
        BY <3>2, <2>5
      <3>3. CASE ~ open /\ p > z
        <4>1. PICK j \in (d + 2)..n : j = c[p][1]
          BY <3>3, <2>4, Zenon
        <4>2. Reaching = j \/ Reaching = j - 1
          BY <4>1, <3>3, <2>2, <1>14, Zenon
        <4>3. QED
          BY <4>1, <4>2
      <3>4. p <= z \/ p > z
        OBVIOUS
      <3>5. QED
        BY <3>1, <3>2, <3>3, <3>4, Zenon
    <2>8. QED
      BY <2>5, <2>6, <2>7, Zenon
  <1>19. QED
    BY <1>1, <1>2, <1>4, <1>5, <1>16, <1>17, <1>18, Zenon

(* The same after a step.                                                  *)
LEMMA QueueNextIs == Queue' = QueueOf(order', Len(delivered'), Reaching')
  <1>1. Arriving' = SubSeq(order', Len(delivered') + 1, Reaching')
    BY Zenon DEF Arriving, Reaching, WholeOf
  <1>2. QED
    BY <1>1, Zenon DEF Queue, QueueOf

(* A step that leaves the cells under way together as they are changes     *)
(* nothing that the channel sees.                                          *)
LEMMA QueueKept ==
  ASSUME got' \o wire' = got \o wire \/ open, order' = order, delivered' = delivered, open' = open
  PROVE  Queue' = Queue
  <1>1. Reaching' = Reaching
    BY Zenon DEF Reaching
  <1>2. QED
    BY <1>1, QueueIs, QueueNextIs, Zenon

(* SendFrame is a Send, or goes unseen when the connection has broken.     *)
LEMMA SendFrameMaps ==
  ASSUME StreamInv, NEW w \in Writers, SendFrame(w)
  PROVE  IF open THEN \E c \in Range(Catalogue) : Queue' = Append(Queue, c)
                 ELSE Queue' = Queue
  <1>1. PICK d \in Nat, k \in Nat : /\ d = Len(delivered) /\ k = Reaching
                                    /\ d <= k /\ k <= Len(order)
    BY ReachingBounds, Zenon
  <1>2. PICK m \in DOMAIN Catalogue : order' = Append(order, m)
    BY OrderGrows, Zenon DEF StreamInv
  <1>3. order \in Seq(DOMAIN Catalogue) /\ Len(order') = Len(order) + 1
    BY OrderGrows, Zenon DEF StreamInv, StreamPlaces
  <1>4. got' = got /\ wire' = wire /\ delivered' = delivered /\ open' = open
    BY Zenon DEF SendFrame
  <1>5. Queue = QueueOf(order, d, k) /\ Queue' = QueueOf(order', d, Reaching')
    BY <1>1, <1>4, QueueIs, QueueNextIs, Zenon
  <1>6. CASE open
    <2>1. k = Len(order) /\ Reaching' = k + 1
      BY <1>1, <1>3, <1>4, <1>6, Zenon DEF Reaching
    <2>2. QueueOf(Append(order, m), d, k + 1) = Append(QueueOf(order, d, k), Catalogue[m])
      BY <2>1, <1>1, <1>3, QueueGrows, Zenon
    <2>3. Queue' = Append(Queue, Catalogue[m])
      BY <2>1, <2>2, <1>2, <1>5, Zenon
    <2>4. QED
      BY <2>3, <1>6, Zenon DEF Range
  <1>7. CASE ~ open
    <2>1. Reaching' = Reaching
      <3>1. PICK c : c = got \o wire
        BY Zenon
      <3>2. c # <<>> => c[Len(c)][1] \in 1..Len(order)
        BY <3>1, ReachingBounds, Zenon
      <3>3. c # <<>> => order'[c[Len(c)][1]] = order[c[Len(c)][1]]
        BY <3>2, OrderGrows, Zenon DEF StreamInv
      <3>4. WholeOf(c, order', Len(delivered)) = WholeOf(c, order, Len(delivered))
        BY <3>3, Zenon DEF WholeOf
      <3>5. QED
        BY <3>1, <3>4, <1>4, <1>7, Zenon DEF Reaching
    <2>2. QueueOf(Append(order, m), d, k) = QueueOf(order, d, k)
      BY <1>1, <1>3, QueueGrows, Zenon
    <2>3. QED
      BY <2>1, <2>2, <1>1, <1>2, <1>5, <1>7, Zenon
  <1>8. QED
    BY <1>6, <1>7, Zenon

(* Deliver is a Receive.                                                   *)
LEMMA DeliverMaps ==
  ASSUME RoundTrip, StreamInv, Deliver
  PROVE  /\ Queue # <<>> /\ delivered' = Append(delivered, Head(Queue))
         /\ Queue' = Tail(Queue)
  <1>1. FrameRead /\ got' = <<>> /\ wire' = wire /\ order' = order /\ open' = open
    BY Zenon DEF Deliver
  <1>2. PICK d \in Nat, k \in Nat : /\ d = Len(delivered) /\ k = Reaching
                                    /\ d < k /\ k <= Len(order)
    BY <1>1, ReachingBounds, Zenon
  <1>3. order \in Seq(DOMAIN Catalogue)
    BY Zenon DEF StreamInv, StreamPlaces
  <1>4. PICK r \in Readings(Due) : delivered' = Append(delivered, r) /\ Due \in DOMAIN Catalogue
    BY DeliverKept, Zenon
  <1>5. r = Catalogue[Due] /\ Due = order[d + 1]
    <2>1. r = [type |-> Catalogue[Due].type, body |-> Catalogue[Due].body]
      BY <1>4, Zenon DEF Readings, RoundTrip
    <2>2. QED
      BY <2>1, <1>2, <1>4, CatalogueAssumption, Zenon DEF Due
  <1>6. /\ Queue # <<>> /\ Head(Queue) = Catalogue[order[d + 1]]
        /\ Tail(Queue) = QueueOf(order, d + 1, k)
    BY <1>2, <1>3, QueueIs, QueueDrops, Zenon
  <1>7. Len(delivered') = d + 1
    BY <1>2, <1>4, AppendProperties DEF StreamInv, StreamPlaces
  <1>8. Reaching' = k
    <2>1. CASE open
      BY <2>1, <1>1, <1>2, Zenon DEF Reaching
    <2>2. CASE ~ open /\ wire = <<>>
      <3>1. k = d + 1
        BY <2>2, <1>1, <1>2, ReachingBounds, Zenon
      <3>2. <<>> \o <<>> = <<>>
        BY EmptySeq, ConcatEmptySeq, Zenon
      <3>3. QED
        BY <3>1, <3>2, <2>2, <1>1, <1>7, Zenon DEF Reaching, WholeOf
    <2>3. CASE ~ open /\ wire # <<>>
      <3>1. PICK g \in Seq(CellPairs), x \in Seq(CellPairs), c \in Seq(CellPairs) :
              g = got /\ x = wire /\ c = got \o wire
        BY StreamShape, Zenon DEF StreamInv, StreamPlaces
      <3>2. got' \o wire' = x
        BY <3>1, <1>1, ConcatEmptySeq, Zenon
      <3>3. PICK a \in Nat, b \in Nat : a = Len(g) /\ b = Len(x)
        BY LenProperties, Zenon
      <3>4. /\ Len(c) = a + b
            /\ \A i \in 1..(a + b) : c[i] = IF i <= a THEN g[i] ELSE x[i - a]
        BY <3>1, <3>3, ConcatProperties, Zenon
      <3>5. b > 0
        <4>1. b \in Nat \ {0}
          BY <3>1, <3>3, <2>3, EmptySeq, Zenon
        <4>2. QED
          BY <4>1
      <3>6. a + b \in 1..(a + b) /\ ~ (a + b <= a) /\ (a + b) - a = b /\ a + b > 0
        BY <3>5
      <3>7. c[Len(c)] = x[Len(x)]
        BY <3>3, <3>4, <3>6, Zenon
      <3>8. c # <<>>
        BY <3>4, <3>6
      <3>9. Reaching = WholeOf(c, order, d) /\ Reaching' = WholeOf(x, order, d + 1)
        BY <3>1, <3>2, <2>3, <1>1, <1>2, <1>7, Zenon DEF Reaching
      <3>10. WholeOf(x, order, d + 1) = WholeOf(c, order, d)
        BY <3>1, <3>7, <3>8, <2>3, Zenon DEF WholeOf
      <3>11. QED
        BY <3>9, <3>10, <1>2, Zenon
    <2>4. QED
      BY <2>1, <2>2, <2>3, Zenon
  <1>9. Queue' = QueueOf(order, d + 1, k)
    BY <1>1, <1>7, <1>8, QueueNextIs, Zenon
  <1>10. QED
    BY <1>4, <1>5, <1>6, <1>9, Zenon

(* The bounds hold in the next state, too.                                 *)
ReachingOK == Reaching \in Nat /\ Len(delivered) <= Reaching /\ Reaching <= Len(order)

(* It follows from the invariant, so a step leads to it again.             *)
LEMMA ReachingStays == StreamInv => ReachingOK
  BY ReachingBounds, Zenon DEF ReachingOK

(* Break loses the messages that were not wholly under way.                *)
LEMMA BreakMaps ==
  ASSUME StreamInv, Break, StreamInv'
  PROVE  \E n \in 0..Len(Queue) : Queue' = SubSeq(Queue, 1, n)
  <1>1. open /\ order' = order /\ delivered' = delivered
    BY Zenon DEF Break
  <1>2. PICK d \in Nat, k \in Nat : /\ d = Len(delivered) /\ k = Reaching
                                    /\ d <= k /\ k <= Len(order)
    BY ReachingBounds, Zenon
  <1>3. PICK j \in Nat : j = Reaching' /\ d <= j /\ j <= k
    <2>1. k = Len(order)
      BY <1>1, <1>2, Zenon DEF Reaching
    <2>2. ReachingOK'
      BY ReachingStays, PTL
    <2>3. QED
      BY <2>1, <2>2, <1>1, <1>2, Zenon DEF ReachingOK
  <1>4. order \in Seq(DOMAIN Catalogue)
    BY Zenon DEF StreamInv, StreamPlaces
  <1>5. /\ j - d \in 0..Len(QueueOf(order, d, k))
        /\ QueueOf(order, d, j) = SubSeq(QueueOf(order, d, k), 1, j - d)
    BY <1>2, <1>3, <1>4, QueueCut, Zenon
  <1>6. Queue = QueueOf(order, d, k) /\ Queue' = QueueOf(order, d, j)
    BY <1>1, <1>2, <1>3, QueueIs, QueueNextIs, Zenon
  <1>7. QED
    BY <1>5, <1>6, Zenon

(* ChannelImplemented: whatever the pieces that send() and recv() move,    *)
(* the connection is a channel of whole messages, as sent and in order.    *)
THEOREM ChannelIsImplemented ==
  ASSUME RoundTrip
  PROVE  StreamSpec => ChannelImplemented
  <1>1. StreamInit => Channel!Init
    <2> SUFFICES ASSUME StreamInit
                 PROVE  Channel!Init
      OBVIOUS
    <2>1. Queue = <<>>
      <3>1. Arriving = SubSeq(<<>>, 0 + 1, 0)
        <4>1. Len(<<>>) = 0
          OBVIOUS
        <4>2. QED
          BY <4>1, Zenon DEF StreamInit, Arriving
      <3>2. 0 + 1 \in Int /\ 0 \in Int /\ 0 < 0 + 1
        OBVIOUS
      <3>3. Arriving = <<>>
        BY <3>1, <3>2, SubSeqEmpty, Zenon
      <3>4. DOMAIN <<>> = {}
        OBVIOUS
      <3>5. Queue \in [{} -> {}]
        BY <3>3, <3>4, Zenon DEF Queue
      <3>6. QED
        BY <3>5
    <2>2. QED
      BY <2>1, Zenon DEF StreamInit, Channel!Init, Queue
  <1>2. StreamInv /\ StreamInv' /\ [StreamNext]_streamVars => [Channel!Next]_(Channel!channelVars)
    <2> SUFFICES ASSUME StreamInv, StreamInv', [StreamNext]_streamVars
                 PROVE  [Channel!Next]_(Channel!channelVars)
      OBVIOUS
    <2>1. ASSUME Queue' = Queue, delivered' = delivered, open' = open
          PROVE  UNCHANGED Channel!channelVars
      BY <2>1, Zenon DEF Channel!channelVars, Queue
    <2>2. CASE UNCHANGED streamVars
      <3>1. got' \o wire' = got \o wire /\ order' = order /\ delivered' = delivered /\ open' = open
        BY <2>2, Zenon DEF streamVars
      <3>2. QED
        BY <3>1, <2>1, QueueKept, Zenon
    <2>3. ASSUME NEW w \in Writers, SendFrame(w)
          PROVE  [Channel!Next]_(Channel!channelVars)
      <3>1. delivered' = delivered /\ open' = open
        BY <2>3, Zenon DEF SendFrame
      <3>2. CASE ~ open
        BY <3>1, <3>2, <2>1, <2>3, SendFrameMaps, Zenon
      <3>3. CASE open
        <4>1. PICK c \in Range(Catalogue) : Queue' = Append(Queue, c)
          BY <3>3, <2>3, SendFrameMaps, Zenon
        <4>2. Channel!Send(c)
          BY <3>1, <3>3, <4>1, Zenon DEF Channel!Send, Queue
        <4>3. QED
          BY <4>2, Zenon DEF Channel!Next
      <3>4. QED
        BY <3>2, <3>3, Zenon
    <2>4. ASSUME NEW w \in Writers, SendSome(w) \/ SendFails(w) \/ Unlock(w)
          PROVE  UNCHANGED Channel!channelVars
      <3>1. got' \o wire' = got \o wire \/ open
        BY <2>4, Zenon DEF SendSome, SendFails, Unlock
      <3>2. order' = order /\ delivered' = delivered /\ open' = open
        BY <2>4, Zenon DEF SendSome, SendFails, Unlock
      <3>3. QED
        BY <3>1, <3>2, <2>1, QueueKept, Zenon
    <2>5. CASE RecvSome
      <3>1. order' = order /\ delivered' = delivered /\ open' = open
        BY <2>5, Zenon DEF RecvSome
      <3>2. PICK n \in 1..Len(wire) : /\ got' = got \o SubSeq(wire, 1, n)
                                      /\ wire' = SubSeq(wire, n + 1, Len(wire))
        BY <2>5, Zenon DEF RecvSome
      <3>3. got' \o wire' = got \o wire
        BY <3>2, Moved, Zenon DEF StreamInv, StreamPlaces
      <3>4. QED
        BY <3>1, <3>3, <2>1, QueueKept, Zenon
    <2>6. CASE Deliver
      <3>1. open' = open
        BY <2>6, Zenon DEF Deliver
      <3>2. Channel!Receive
        BY <2>6, <3>1, DeliverMaps, Zenon DEF Channel!Receive, Queue
      <3>3. QED
        BY <3>2, Zenon DEF Channel!Next
    <2>7. CASE RecvFails \/ StreamEnds
      <3>1. got' \o wire' = got \o wire /\ order' = order /\ delivered' = delivered /\ open' = open
        BY <2>7, Zenon DEF RecvFails, StreamEnds
      <3>2. QED
        BY <3>1, <2>1, QueueKept, Zenon
    <2>8. CASE Break
      <3>1. open /\ open' = FALSE /\ delivered' = delivered
        BY <2>8, Zenon DEF Break
      <3>2. \E n \in 0..Len(Queue) : Queue' = SubSeq(Queue, 1, n)
        BY <2>8, BreakMaps, Zenon
      <3>3. Channel!Break
        BY <3>1, <3>2, Zenon DEF Channel!Break, Queue
      <3>4. QED
        BY <3>3, Zenon DEF Channel!Next
    <2>9. QED
      BY <2>2, <2>3, <2>4, <2>5, <2>6, <2>7, <2>8, Zenon DEF StreamNext, Writing, Reading
  <1>3. QED
    BY <1>1, <1>2, StreamInOrder, PTL DEF StreamSpec, ChannelImplemented, Channel!Spec
===============================================================================
