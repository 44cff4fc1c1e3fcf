# Bandwidth Governor: a TLA+ verification project

TLA+ modules that model the coordinator of Bandwidth Governor, its server, its
workers, their connections, its allocator and its saved state; TLC configurations
that check them on small instances; and TLAPS proofs, for every instance, of the
properties of reservations, authority, accounts, rates, the allocator, the saved file,
the server's threads, the byte streams of its connections and the system of coordinator
and workers. File names below
are relative to the repository; `governor.cpp:NNN` is `src/governor.cpp`.

## 1. The system and its parts

| Part | Source | Modelled by |
|---|---|---|
| Coordinator core: resources, paths, flows, reservations, workers, scheduler | `src/governor.cpp`, `include/bg/governor.hpp` | `Governor` |
| Flow lifecycle table, spec validation | `src/flow.cpp` | `Lifecycle`, `Governor!ValidSpec` |
| Reservation lifecycle table | `src/reservation.cpp` | `Lifecycle` |
| Paths and resources | `src/path.cpp`, `src/resource.cpp` | constants and state of `Governor` |
| Policy engine (weighted water-fill) | `src/policy.cpp` | `WaterFill`; in `Governor` its contract, `Shares` |
| Coordinator server: what its threads do to the governor | `src/transport.cpp:302-492` | `Coordinator` |
| Coordinator server: who waits for whom, start and stop | `src/transport.cpp:242-492` | `Server` |
| Frames on a connection | `src/transport.cpp:166-229`, `src/wire.cpp:36-60` | `FrameStream` |
| Wire format: payloads | `src/wire.cpp`, sinks and sources of `src/persist.cpp` | `Wire` |
| Worker process, synthetic backend | `workers/bgworker.cpp`, `src/backend.cpp` | `Coordinator`; in `Governor` alone, arbitrary reports |
| Persistence: the file | `src/persist.cpp`, `governor.cpp:1456-1498` | `StateFile` |
| Persistence: snapshot and restore | `governor.cpp:1347-1454` | `Recovery` |
| Identities and generations | `include/bg/ids.hpp` | unique numbers and counters |
| Explanations, command line, CUDA backend | `src/explain.cpp`, `cli/main.cpp`, `src/backend_cuda.cpp` | not modelled |

How they interact. Clients call `Governor` directly or through a connection
thread of `CoordinatorServer`. Workers register an inventory of resources,
receive dispatches and grants, and report progress and completion. A scheduler
thread calls `tick()` every 5 ms, then sends dispatches and grants from a copy
of the flow table. Every public method of `Governor` holds one mutex for its
whole body, so the coordinator core is a sequential object called in an
arbitrary order; what is concurrent is the order of the calls, and what is
stale is what a caller (a worker above all) learned from an earlier one.

## 2. Modules

* `Lifecycle`: the two transition tables as relations.
* `Governor`: the coordinator core. One action per method; a call that returns
  early without changing anything is a stuttering step.
* `Coordinator`: `Governor` composed with the server's threads and the worker
  processes.
* `Recovery`: `Governor` with its saved state, loads and restarts.
* `StateFile`: `save_file` and `load_file` step by step over a file system.
* `ReservationAuthority`: what the coordinator promises of authority, abstractly;
  `Governor` implements it.
* `WaterFill`: `allocate_weighted` turn by turn.
* `Totals`: the sum of a function over a set, which `Governor` and `WaterFill` share.
* `Wire`: the fields of every payload, in the order its writer puts them and in
  the order its reader takes them.
* `FrameStream`: `send_frame` and `recv_frame` over a socket that moves any part of
  a frame and may break anywhere. The codecs of the payloads are its parameters
  `EncodePayload` and `DecodePayload`, which `MCFrameStream` takes from `Wire`.
  `FifoChannel`: the channel of whole messages it
  implements, which `Coordinator` is written over.
* `Server`: the threads of `CoordinatorServer` and what they block on.
* `MCGovernor`, `MCCoordinator`, `MCRecovery`, `MCStateFile`, `MCWaterFill`,
  `MCFrameStream`, `MCServer`: topologies, flow specifications, messages and sizes
  for TLC.
* `GovernorSteps`, `GovernorAuthority`, `RateProofs`, `RecoveryProofs`,
  `ServerProofs` (of `Server`, `StateFile` and `FrameStream`), `CoordinatorProofs`,
  `TotalProofs`, `WaterFillProofs`: the proofs (section 4). `StateFile` and
  `FrameStream` have their own names for what every specification has (`FileInit`,
  `StreamInit`, ...), so that one module can extend all three.

### State

| Variables | Code |
|---|---|
| `known`, `enabled`, `measured`, `age`, `governed`, `reserved`, `allocated`, `saturated` | `ResRT`; `age` is `now() - last_ms`; the last four are the cached figures |
| `paths`, `capGen`, `epoch` | `Impl::paths`, `capacity_generation`, `epoch` |
| `fstate`, `spec`, `granted`, `attempt`, `fgen`, `bytes`, `rsvOf`, `assigned`, `assignedBoot` | `FlowRT` |
| `minted`, `reservations`, `rsvRate` | `Impl::reservations`, grouped by flow and numbered in the order they were minted |
| `alive`, `wboot` | `WorkerRT` |
| `submitted`, `completed` | `TenantAcc` |

The cached figures are kept apart from the operators that compute them
(`GovernedOf`, `ReservedOf`, `AllocatedOf`, `SaturatedOf`), because the
handlers refresh different subsets of them: `submit_flow` all but saturation
before its test, `cancel_flow` everything but governed rates, `resume_flow`
nothing, `release_reservation` only reserved rates. `tick()` admits queued
flows by figures cached earlier and only then refreshes them.

### Actions

`AddResource`, `UpdateCapacity`, `SetResourceEnabled`,
`InvalidateResourceCapacity`, `AddPath`, `SubmitFlow` (with its two outcomes
`SubmitDeferred` and `SubmitAdmitted`), `CancelFlow`, `ResumeFlow`,
`ReleaseReservation`, `Tick`, `RegisterWorker`, `DeregisterWorker`,
`ReportProgress` and `ReportCompletion` are the methods of the same names.
`Elapse` is the passing of time, which changes no cached figure by itself.

`Coordinator` adds one variable per table or program counter: `proc` and `jobs`
(a worker process and its `jobs`, `grants`, `accum` maps with the backend's
count), `toWorker` and `toCoord` (the two directions of a socket), `thread` (where
`handle_connection` is), `slot` (`workers_`), `turn`, `table`, `todo` and
`dispatched` (`scheduler_loop` and its copied flow table). A registration is three
steps (`HandleRegister`, `TakeSlot`, `SendRegisterAck`) and a scheduler turn is
`SchedulerTick`, `SchedulerList`, one `SchedulerSend` per flow and
`SchedulerClean`, because other threads run between them. A worker process
starts, joins, receives, steps and dies; what a dead process sent may still
arrive, up to any point.

`Recovery` adds `file` and `starts`; `SaveFile`, `LoadFile` (the whole of
`restore`) and `Restart`. `StateFile` forgets the tables: a state is a version,
its encoding a sequence of blocks, a file an inode with a name. `Save`,
`OpenTemporary`, `WriteBlock`, `Close`, `CheckSize`, `Rename` are the steps of
`save_file`, with `SaveFails` and `Crash` between any two.

`WaterFill` keeps the entries, the capacity, what was granted and remains and
which flows are still below their target; `NothingToShare`, `ScaleMinima`,
`HonourMinima`, one `Fill` per turn of the loop and `Clamp` are the parts of
`allocate_weighted`.

`FrameStream` has a writer per thread (`SendFrame` takes the mutex, `SendSome`
hands over a part, `SendFails`, `Unlock`) and one reader (`RecvSome`, `Deliver`,
`RecvFails`, `StreamEnds`); `Break` ends the socket. A cell under way is named by its
frame and its place in it; the reader looks only at what the cell holds (`Held`):
length, type and checksum are read from where they should be.

`Server` has a program counter for the accept thread, for each connection's thread,
for the scheduler and for `stop()`, the owner of each `write_mutex`, the map
`workers_`, and peers that send, read and hang up as they please. Each place where
a thread blocks (accept, recv, a full buffer, a mutex, a join) is a guard. The scheduler's
look-up is two steps (`LockWorkers`, then `Pick` or `Miss`) with `workersMutex` held
between them; it sends (`LockTarget`, `SendToTarget`) after it has let go of it.

### What is abstracted

* Rates are naturals and one unit is the grain; `kEps` has no counterpart.
* `Shares(S, cap)` is the set of allocations `allocate_weighted` may return for
  *some* weights: all zero when nothing is left; minima scaled to the capacity
  when they do not fit; otherwise each flow between its minimum and preference
  with the capacity used up or all preferences met. The composite weight
  (`flow_weight`, priorities, deadlines, starvation, fairness) only selects one
  of them, so a property of all of them holds for the code's choice. A grant of
  zero for a flow with a minimum is allowed only when the grain cannot show a
  positive one.
* Reports are arbitrary: any attempt, generation, boot and byte count, at any
  time. This covers late, duplicated, reordered and lost reports.
* `unordered_map` order matters in one place, `pick_worker_for_path`; any
  candidate may be picked.
* A path's hops are a constant set (`validate_path` refuses duplicates, and
  re-adding a path with other hops is left out). Per-resource and per-path
  generations are not modelled: nothing reads them. Health is never changed by
  the code. A tenant stands for a workload, which is counted the same way.
* The branch of `resume_flow` that mints a reservation for a flow without one
  is not taken: `ReservationHistory` shows that a preempted or throttled flow
  always names one. The guard `rsvOf[f] # 0` therefore removes no behaviour.
* In `Coordinator` capacity is constant and clients only submit and cancel. The
  Acks to reports are left out (a worker ignores them), every flow has `MaxBytes`
  bytes, and a positive grant moves at least one: `bgworker.cpp:182` truncates
  the budget of a pace and would move nothing at tiny rates. A process connects
  once, so its boot names its connection. Looking a connection up and writing to
  it is one step, since only the connection that was found matters.
* In `StateFile` a state decodes only if it is whole, which stands for the magic,
  length, checksum and end of its envelope; the sections inside are blocks without a
  structure. In `Recovery` identities minted by different processes
  differ, as they do with the entropy seed of the server; a capacity generation is named by
  the epoch of its process and a number, so a restart, which draws both anew, starts
  again at number 0 of a new epoch. The file gives back the tables that were saved: the
  codecs refuse a path or reservation of more than 256 hops, and values no table holds.
* In `WaterFill` rates are multiples of a grain for which minima that do not fit are
  scaled exactly (`GrainAssumption`) and, in the instance, so is every division of the
  loop: it is the algorithm over the rationals, without the rounding of doubles.
* A reader of `Wire` refuses a payload that lacks a field. That it also refuses values no
  writer puts there (a double that is not finite, a negative rate, a string or list beyond
  its bound) is left out.
* A send on a connection that has ended fails and nobody looks at the result, as on
  Windows, which `docs/BUILDING.md` names. On POSIX it would raise SIGPIPE, which
  nothing handles or turns off (`transport.cpp:169`), and end the coordinator.
* In `Wire` and `FrameStream` one cell is one field, whatever its width, and a checksum
  is the frame's contents: what differs is told apart. `decode_frame` is left out, as only
  tests call it.
* In `Server` a frame is a Register or not, and a socket holds `Room` frames. Whether
  closing the listening socket wakes a thread that is already in accept is the
  platform's choice.
* The clock is the automatic one, and a resource is added at a nonzero time.

## 3. Runs

| Run | Instance | Shows |
|---|---|---|
| `authority` | 2 flows, 1 link, 1 worker, 2 boots, 2 reservations per flow, 2 capacity generations | the history of authority, accounting, fencing, retry and progress under restarts, losses and arbitrary reports; the abstract authority is implemented |
| `freshness` | 2 flows, 1 link that goes stale, is measured, disabled, enabled; a fair scheduler | under throttling, preemption and resumption no tick serves more than the link has left, or anything on a stale link; nothing leaked, no lifecycle edge broken; a parked flow for which there is room does not stay parked for ever |
| `dispatch` | 1 flow that no tick interrupts, 1 worker, 2 processes, 2 frames each way, 2 bytes, fair threads | what is completed was moved whole, by the live process, attempts dispatched in order and once; a flow at work on a live process settles |
| `restore` | 1 flow, guaranteed or best effort, over 2 links, 1 worker, 2 boots, 2 capacity generations, 2 restarts | a loaded state is consistent, whenever it was saved, and the reports of its flows are accepted; no tick serves more than the narrower link has left |
| `single` | 1 saving thread, 4 versions of different sizes | the file is replaced atomically, whatever fails or crashes |
| `waterfill` | 3 flows of every mixture of 5 envelopes and the weights, links of 0 to 8 units | the loop ends, keeps the contract and is max-min fair |
| `frames` | 2 writers, 1 reader, 12 messages of every kind and one that is too long, a socket of 2 cells | whole messages arrive in order, field by field as sent, or not at all |
| `waiting` | 2 connections, of one worker that comes back or of two | a peer that stops reading holds up only whom it must; `stop()` waits in three known ways only |
| `overcommit` | 2 guaranteed flows, 1 link | **violated**: see below |
| `redispatch` | 1 flow, 1 worker, 2 processes, fair threads | **violated**: see below |
| `concurrent` | 2 saving threads | **violated**: see below |
| `resurrect` | 1 flow, 1 process that saves and loads | **violated**: see below |

The properties:

* `TypeOK` (`FileTypeOK`, `StreamTypeOK`), `RatesInRange`: types; grants and reserved rates between zero and
  the flow's maximum, governed rates never negative.
* `SingleAuthority`, `NoLeakedReservation`, `ReservationHistory`: at most one
  live reservation per flow, with the flow's attempt and generation; none for a
  settled or parked flow; the whole history in order.
* `AuthorityImplemented`: under the mapping of reservation numbers, live
  reservations and flow outcomes, `Governor` implements `ReservationAuthority`.
* `SettledAccountsAreZero`: `accounting_at_zero()` holds, by the cached
  figures, whenever every flow has settled.
* `AccountsMatchFlows`: submissions and completions are counted once.
* `LifecycleRespected`: `set_flow_state` never throws; no terminal state is left.
* `CompletionFenced`, `RetryReplacesAuthority`, `ProgressMonotone`: what a
  completion, a retry and a report may never do.
* `TickWithinCapacity`: after a tick, what is served on a link fits in its
  governed rate less what preempted flows hold.
* `StaleNeverFresh`: "stale measurements are never silently treated as fresh": the rate
  of a link rises only when the link is measured or switched on, and a tick serves nothing
  on one whose measurement is past the threshold.
* `QueuedFlowsAdmitted`: liveness of admission.
* `SysTypeOK`; `CompletedMeansTransferred`: the governor takes a worker's word for
  a completion, and the word is good; `CreditedToLiveProcess`: once a process is
  up, nothing another process of its worker sent counts; `DispatchedOnce`: a job
  is never replaced by an earlier attempt, and by the same attempt only for a flow that
  `tick()` may throttle or preempt; `ServedFlowsSettle`: a flow whose
  process has the job of its current attempt does not run there for ever. (One whose
  process was never given the job may: see `redispatch`.)
* `ReportsAccepted`: what the worker of a running flow reports under the flow's active
  reservation is let in, whichever process minted the reservation and however often it
  was saved and restored. The invariants of `Governor` listed for `restore` hold across loads as well;
  `ReservationHistory` does not, since an older state names an older reservation.
* `AtomicReplace`: `path` holds the state of the last save that returned;
  `SizeCheckPasses`: a leftover `path.tmp` does not make a later save fail.
* `MeetsContract`: the water-fill returns a member of what `Governor!Shares` allows;
  `MaxMinFair`: beyond the minima, a flow short of its target got at least as much
  per weight as any other; `Terminates`.
* `NeverMisread`: the reader never takes payload for a header and fails only on a
  message longer than it accepts; `TruncationRefused`:
  no reader accepts a payload that was cut short; `ChannelImplemented`: `FrameStream`
  implements `FifoChannel`; `AllDelivered`: liveness of delivery.
* `SlotsKept`: a connection that ends takes no slot but its own, and leaves none
  behind; `RegistrationServed`: a Register that has arrived takes its slot although
  the scheduler may be blocked for ever; `StopHeldUp`: `stop()` can be kept waiting
  only by an accept that closing did not wake, by a peer that does not read what
  the scheduler sends, or by a connection that never registered or was replaced;
  otherwise a thread is `Ready`, and one that is has a step to take (`ReadyEnables`,
  a conjunct of it).

Every property of a passing run is accompanied by a faulty variant of a
definition (the operators marked "Faulty variant") under which TLC finds it
violated.

### Bounds

`MaxMint` (reservations per flow), `MaxCapGen` and `MaxBytes` cap the counters
and appear in guards; two of each are enough for "old against new", the only
comparison the code makes. Two flows are enough for contention, for two
admissions of one tick and for accounts that mix settled and live flows; a link
of rate 4 with minima 2 and 3 can serve both kinds, only one, or, measured at 2,
neither in full. A second worker would add only another arbitrary choice of
`pick_worker_for_path`. Flows are interchangeable, so `authority`
and `overcommit` use symmetry. The least share of a flow's hops matters from two hops on:
`restore` has a path whose second link is the narrower. Flows with different paths that
meet on a link are left to the proof (`NoOvercommit`), and so are rates of flows with
minimum zero whose worker restarts (`RatesStayInRange`).

`MaxRate` is `kMaxRate`, here the nominal rate of a link. `age` counts up to `MaxAge`,
one step past the threshold `Window`, since nothing tells later times apart; a freshness
that went negative there would show.

`MaxFrames` is the room in a socket's buffer; a sender waits. Two frames are enough
for a dispatch behind an acknowledgement and a completion behind a progress
report, two bytes for an attempt that is half done when its process dies. Two
processes give one restart; the properties of `dispatch` were also checked once
with three (9 million states). `MaxStarts` is 2, so that a state saved by one
process is loaded by the next and by the one after it. `MaxVersion` 3 with sizes that
grow and shrink lets a shorter state follow a longer one in the same temporary file.

`waterfill` enumerates its inputs: three flows are enough for one to reach its
target while another is still rising and a third is cut. The capacities go from
nothing, past the sum of the minima, to more than all targets. In `frames` a `SocketRoom`
of 2 cells splits every frame many times; scripts of two messages per writer are
enough for frames of two threads to meet. `MaxLength` is 70 fields, more than any message
of the catalogue but the last, which the reader must refuse. In `waiting` two connections are enough
for one to be replaced, blocked or left out of the map while the other goes on, and
`Room` 1 fills a buffer at once. `frames` and `waiting` do not check deadlock:
scripts end, connections are used up and a stopped server does nothing.

### Fairness

`FairSpec` adds weak fairness of `Tick` only: the scheduler thread loops over
`tick()` with a 5 ms sleep and swallows exceptions (`transport.cpp:421-428`).
Clients, workers and operators promise nothing. `FairSysSpec` adds weak fairness of
each step of the scheduler thread, of each connection's thread, and of a worker
process's loop while it lives; nobody is obliged to start a process or to call.
`WaterFill` is a loop that nothing interrupts. `FrameStream` is fair to each writer
and to the reader: they loop over send and recv. `Server` is weakly fair to the scheduler
and to the threads of connections, which go on unless they are blocked, and strongly fair
to `TakeSlot`: a thread that waits for `workers_mutex_` gets it if it is free again and
again. The code justifies it by the scheduler's sleep of 5 ms per turn without the mutex.
Nothing is asked of peers, so the scheduler may stay in a send for ever.

### Where the code and the documents disagree

* `overcommit`: "admission defers or rejects when guarantees cannot be honored"
  (`docs/ARCHITECTURE.md:55`). A flow admitted since the last tick is `Reserved`;
  `recompute_reserved` skips it as "accounted via allocated" and
  `recompute_allocated` counts only `Running` and `Throttled` flows. A second
  flow is therefore admitted against the same capacity: minima 2 and 3 on a link
  of rate 4. The scheduler then scales both down, so `TickWithinCapacity` holds
  and it is the guarantee that is lost.
* `redispatch`: the comment at `governor.cpp:1112` says that the flow of a
  restarted worker "is re-queued for dispatch". The connection thread registers
  the worker in the governor (`transport.cpp:324`) before it takes the worker's
  slot (`transport.cpp:329`). A scheduler turn in between sends the new attempt to
  the dead connection, ignores that the send failed and marks the attempt
  dispatched (`transport.cpp:465`); the new process only ever gets grants.
* `concurrent`: "atomic replace on the same volume" (`governor.cpp:1478`). Two
  connections that ask for a save share `path.tmp`: one truncates it between the
  other's size check and its rename.

* `resurrect`: "recovery cannot resurrect obsolete authority" (`README.md:101`).
  `restore` replaces the reservation table by the saved one (`governor.cpp:1426`), and a
  running coordinator serves Load (`transport.cpp:397`): a reservation that was released
  after the save is live again, under the epoch that is in force. What `restore` does
  guarantee is what the run of that name checks.

One more disagreement is visible in the modules, without a run of its own. The comment
at `governor.cpp:1162` says that running flows of a lost worker are re-dispatched "by the
next tick"; `DeregisterWorker` leaves them `Running` and `Tick` assigns workers to
`Reserved` flows only. `deregister_worker` has no caller, in the programs or the tests.

## 4. Proofs

All theorems hold for any sets of resources, paths, workers, boots and tenants, any
finite or infinite number of them, and any bounds, under `ConstantsAssumption` (types
of the constants, every path has a hop, the null values are outside their sets) and
the like assumptions of `Recovery`, `StateFile`, `Coordinator`, `WaterFill`, `Server` and
`FrameStream`. The flows
are arbitrary too; where they are counted or their rates summed (`AccountsAgree`,
`RecoveredBooks`, the theorems of `RateProofs`) they are finite (`FlowsAssumption`), as
a table in memory is.

| Theorem | Module | States |
|---|---|---|
| `HistoryInvariant` | `GovernorAuthority` | `Spec => [](TypeOK /\ ReservationHistory)` |
| `TypeCorrect`, `AtMostOneAuthority`, `NothingLeaks` | `GovernorAuthority` | `[]TypeOK`, `[]SingleAuthority`, `[]NoLeakedReservation` |
| `LifecyclesHold` | `GovernorAuthority` | `Spec => LifecycleRespected` |
| `CompletionsAreFenced`, `RetriesReplace`, `ProgressIsMonotone` | `GovernorAuthority` | the three action properties |
| `AuthorityRefined` | `GovernorAuthority` | `Spec` implements `ReservationAuthority` |
| `AccountsReturnToZero`, `AccountsAgree` | `RecoveryProofs` | `[]SettledAccountsAreZero`, `[]AccountsMatchFlows` |
| `RatesStayInRange`, `NoOvercommit` | `RateProofs` | `[]RatesInRange`, `TickWithinCapacity` |
| `StaleStaysStale` | `RateProofs` | `Spec => StaleNeverFresh` |
| `AttemptsInOrder` | `RateProofs` | `SysSpec => DispatchedOnce` |
| `TypesHold`, `ContractMet`, `Fair` | `WaterFillProofs` | `[]TypeOK`, `[]MeetsContract`, `[]MaxMinFair` |
| `ReportsStayAccepted`, `RecoveredAuthority`, `RecoveredAccounts`, `RecoveredBooks` | `RecoveryProofs` | `[]ReportsAccepted`, and three invariants of the governor, across saves, loads and restarts |
| `ReplaceIsAtomic`, `SizeChecksPass`, `FilesTyped` | `ServerProofs` | `[]AtomicReplace`, `[]SizeCheckPasses`, `[]FileTypeOK`, for one saving thread |
| `ServerInOrder`, `MutexProtects`, `SlotsAreKept` | `ServerProofs` | `[]ServerInv`, `[]TypeOK`, `SlotsKept`, of `Server` |
| `StopIsAccountedFor` | `ServerProofs` | `[](ReadyEnables => StopHeldUp)` |
| `StreamInOrder`, `StreamTyped` | `ServerProofs` | `[]StreamInv`, `[]StreamTypeOK`, for any codecs |
| `FramesAreRead`, `ChannelIsImplemented` | `ServerProofs` | `[]NeverMisread`, `StreamSpec` implements `FifoChannel`, for codecs with `RoundTrip` |
| `SystemImplementsGovernor` | `CoordinatorProofs` | `SysSpec => Spec` |
| `SystemTyped`, `CompletionIsWhole` | `CoordinatorProofs` | `[]SysTypeOK`, `[]CompletedMeansTransferred` |
| `CreditInvariant`, `CreditGoesToLive` | `CoordinatorProofs` | `[]CreditInOrder`, `SysSpec => CreditedToLiveProcess` |

The arguments.

*Reservations.* Neither `SingleAuthority` nor `NoLeakedReservation` is inductive: a
release touches only the reservation the flow *names*, so one must know that no
other is live, and a roll mints reservation `minted + 1`, so one must know that
the named one is the last. `ReservationHistory` says both: the flow names the last
reservation minted, all earlier ones are released, the last carries the flow's
attempt and generation, and it is released once the flow has settled. `TypeOK` is
not inductive alone either: `Tick` picks a worker for `spec[f].path`, and a
completion credits `spec[f].tenant`, so a submitted flow must have a specification
on a known path; the two are proved together. Three lemmas carry the history
proof: a step that leaves a flow's reservations alone (`HistoryFrame`), releases
one (`HistoryRelease`) or mints one (`HistoryMint`). `LifecyclesHold` also uses
what `Tick` does to a flow that was just admitted (`TickFacts`): it runs, because
`Reserved` to `Throttled` is not an edge. The refinement of `ReservationAuthority`
follows flow by flow: the history says that the live numbers are none or the newest.

*Accounts.* The cached figures are sums. When every flow has settled no reservation is live (`HistoryInvariant`), the
sums are over empty sets, and a sum over an empty set is zero; a handler that settles
the last flow is one that refreshes both figures. The tenants' counters are compared
with cardinalities of sets of flows, and a step adds at most one flow to such a set.

*Sums.* `TotalProofs` has the facts about sums that the next two arguments need: a sum of
naturals is a natural, is monotone, is at least each of its terms, and grows by what one
term grows. Its induction over finite sets (`SubsetInduction`) speaks of a set of good
subsets rather than of a predicate, and so needs no operator as a parameter; it rests on
`LeastNatural`.

*Rates.* `RatesInRange` is not inductive. A grant is the least share over the hops of a
flow, so one must know that a scheduled flow has hops in the table and a valid
specification; a reserved rate is copied from a grant, a minimum or an older reservation,
also of a flow that is not served now. `RatesInv` says this of every flow, next to the
history. `NoOvercommit`: each share of a resource sums to at most what is left of it
(`SharesFit`), a grant is no more than the share on any one of the hops
(`TickOutcome`), the flows served over a resource are among those that shared it, and
what is held by flows outside the schedule is the same before and after (`HeldKept`).

*Stale measurements.* A step that computes rates anew could raise one that was cached
when its measurement was older than it is now, so `StaleNeverFresh` needs to know that
this cannot be: no cached rate is below what would be computed afresh (`FreshInv`),
because the clock only lowers a rate (`RateFades`; the product of rate and freshness is
never more than the rate, so that the fallback to the nominal rate is not taken). Every
operation leaves a resource alone, ages it, measures it, switches it or computes its rate
anew (`ResourceMoves`). What a tick serves is bounded by the rate it computed (`TickFits`),
which is zero past the threshold.

*The allocator.* The loop invariant of `allocate_weighted` (`Filling`): what was granted
and what remains add up to the capacity, the active flows are those below their target,
and there is one water level, the minimum plus level times weight, at which every active
flow stands and which no other has passed. A turn raises the level by a step
that passes neither anybody's target nor what remains (`StepBounds`). When the loop ends the level gives `MaxMinFair` and the sum gives
`MeetsContract`. Minima that do not fit are scaled, and the scaled minima sum to the
capacity because the divisions are exact (`ScalingExact`, from `GrainAssumption`). The
theorems are about what is returned: that the loop ends is liveness and stays with TLC (with
a grain too coarse for a turn's division the model's loop would stand still).

*Recovery.* `ReservationHistory` does not survive a load: an older state names an older
reservation. `TablesInOrder` is weaker and does: a live reservation is the one its flow
names and carries its attempt and generation, every minted one carries the epoch beside
it, and the same is true of the saved table. The books are balanced in the file too
(`BooksInOrder`). `ReportsStayAccepted` reads the fences of the reports off the same
invariant, with the boot of the flow's worker for the last of them.

*The file.* `FilesInOrder`: `path` and `path.tmp` are different files, and what a saver
wrote is a prefix of its encoding, the whole of it once it is closed. It needs
`OneSaver`; with two it is false, as `concurrent` shows.

*The server's threads.* `ServerInv` says who is where: the owner of a `write_mutex` is the
thread that is inside a send on that connection; the scheduler holds `workers_mutex_`
exactly while it looks up the map (`MutexHeld`); a slot of the map belongs to a
connection whose thread has not ended; how far `stop()` has come says which threads have
ended. `SlotsKept` needs the second. `StopHeldUp` needs all of it and one thing more: a
connection that is in the map after `stop()` shut down the sockets it found there
registered too late, and must still be unable to block. It cannot, because a peer
registers first (`RegistersFirst`): the answer to its Register is the first frame in an
empty buffer, and by then the scheduler, the only other sender, has been joined
(`LateInMap`). That a thread which is `Ready` has a step to take is about `ENABLED`; it
is the hypothesis of `StopIsAccountedFor`, and TLC checks it as part of `StopHeldUp`.

*The byte stream.* None of the stream's properties is inductive: that the next cell
is a magic number depends on every cell before it. `StreamInv` looks at the reader's
cells, those in the socket and those that the owner of the mutex has left, one after the
other. They are the cells that follow the frames already read, each in its place and
none left out (`InStep`), up to the end of the last frame sent while the connection
stands (`Complete`). "In its place" is an equation between a cell's position in the
stream and its offset in the concatenation of all frames; that there are such offsets is
carried in the invariant (`Offsets`), since what a sum over a sequence computes would take
an induction over it. A frame is added behind a complete stream (`ExtendsInStep`), a
break cuts it (`CutInStep`), a delivery takes the first frame off (`DropsInStep`). So
the header the reader sees is that of the next frame (`HeaderSeen`), and what it takes
for a frame is that frame (`FrameSeen`). For the refinement, the messages that will
arrive are a function of the last cell under way; `ReachingBounds` places it among the
frames not yet read. TLC checked the invariant on the instance of `frames` first.

The codecs come in as a hypothesis, `RoundTrip`: every message of the catalogue is read
back as it was written. Whether the writers and readers of `Wire` satisfy it takes an
induction over the lists they hold and stays with TLC, and so does `TruncationRefused`,
which is about the readers alone: `frames` sends every message of its catalogue.

*The system.* `SystemInOrder` adds to the governor's invariant the types of the threads,
sockets and copies, that a job's own count is that of its backend and less than the
whole, and that a completion under way carries the whole. The last two need each other:
a dispatch of a job already there must reset both counts. Every step of the system is
one of the governor's operations with arguments in its domain, or leaves it alone
(`Driven`), because what a report carries was once in the flow table; so `SysSpec`
implements `Spec`, and what is proved of the governor holds of it behind the server.

*Dispatches.* The scheduler sends from a copy of the flow table that the governor may
have left behind, and a dispatch may wait in the socket behind older ones. `Sequenced`
relates the five places an attempt is at: the flow table, the scheduler's copy,
`dispatched_`, the socket and the process's job. The job and the dispatches in the socket
come in the order of their attempts; none is later than the copy, which is no later than
the table; and if the newest is the copy's own, then `dispatched_` has it or the flow
has settled. `Steady` is what this needs of the governor: attempts never decrease, and a
flow that is running and that no tick interrupts stays so, settles, or is retried. It is
shown of every step of the governor (`FlowMoves`) from the rates: a flow without a
minimum is not throttled. The attempt at this proof showed that without the exception for
flows that `tick()` interrupts `DispatchedOnce` is false: the scheduler drops such a flow
from `dispatched_` to "allow re-dispatch later" (`transport.cpp:486`), and a process that
still has the job starts its transfer over.

*Credit.* A job and its reports carry the boot that stood in the scheduler's copy of the
flow table, not the boot of the process that does the work, and it is the carried boot
that the governor compares with the one registered. A process can in fact hold work that
names its predecessor: it has registered and owns the slot while the copy is older. So
`CreditedToLiveProcess` needs to know for which boots a process can be at work, and
`CreditInOrder` says it: every boot that the governor, a slot, the copy, a frame or a job
names is one whose registration the coordinator has read, of that worker (`WorkersKnown`,
`FlowsKnown`, `WorkKnown`); a process sends its registration first, once, and is sent
nothing before it is read (`RegistersOnce`); a worker has one live process
(`OneProcess`); and once that one has registered, no other process of the worker is at
work for the boot now registered (`Superseded`). The last is kept because a dispatch
reaches live processes only (`CarriedOn`: work is carried on or sent to one that lives),
and a registration brings a boot nobody can be at work for yet. A report that is let in
carries the registered boot, so its sender is not superseded. The argument covers flows
that `tick()` interrupts as well.

Only model-checked:

* liveness (`QueuedFlowsAdmitted`, `ServedFlowsSettle`, `Terminates`, `AllDelivered`,
  `RegistrationServed`), and `ReadyEnables`, which is about what is `ENABLED`: out of
  the prover's reach;
* that the codecs of `Wire` read back what they write and refuse what is cut short: an
  induction over the lists they hold;
* that the properties of the four runs marked **violated** fail: TLC gives the behaviour.

## 5. Not modelled

* The worker's mutex between its receiving thread and its loop (`bgworker.cpp:204`),
  with the Acks that would fill the socket while a report is sent under it. `Server`
  has the coordinator's half of such a wait.
* Changing capacity in `Coordinator`: a throttled flow whose worker restarts
  (`governor.cpp:1116`) is modelled in `Governor`, where reports are arbitrary.
* `set_policy`, the weight setters and `flow_weight`: they choose among the allocations
  `Shares` allows. The virtual clock, and health, which nothing changes.
* The order of fields in a saved snapshot (`encode_snapshot`), the carry of a 128-bit
  generation, rounding of doubles and of byte budgets (`bgworker.cpp:182`).
* `CoordinatorServer::join` and `decode_frame`, which the programs do not call.
* Explanations (text for people, no state), the command line (argument parsing and
  printing around the parts above), the CUDA backend (device I/O), and the platform's
  socket calls.
