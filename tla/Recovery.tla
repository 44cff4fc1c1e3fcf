------------------------------- MODULE Recovery -------------------------------
(***************************************************************************)
(* The coordinator with its saved state: save_file, load_file and restore  *)
(* (src/governor.cpp), and the death and restart of the process.  Saving   *)
(* is one step here; StateFile takes it apart.                             *)
(*                                                                         *)
(* A process started anew draws a fresh epoch and capacity generation from *)
(* a generator seeded with entropy, so neither they nor the identities it  *)
(* mints meet those of an earlier process: `minted' keeps counting across  *)
(* restarts and restores, and the n-th process has epoch n.  A capacity    *)
(* generation is named by that epoch and a number within the process: the  *)
(* two are drawn, saved, restored and compared together, so number 0 of a  *)
(* new epoch is a fresh generation.                                        *)
(*                                                                         *)
(* The file holds the tables as they were, which is what the codecs of     *)
(* persist.cpp give back for the tables of a governor whose reservations   *)
(* and paths have at most 256 hops.  A longer one is written and then      *)
(* refused; no instance here has so many hops.                             *)
(***************************************************************************)
EXTENDS Governor

CONSTANTS
  MaxStarts,   \* bound: processes started
  NoSnapshot

ASSUME RecoveryAssumption == MaxStarts \in Nat

VARIABLES
  file,        \* the saved snapshot
  starts       \* processes started before this one

recoveryVars == <<file, starts>>

allVars == <<vars, recoveryVars>>

(* What is written of the tables and read back: of a flow neither the      *)
(* worker nor the boot, of a resource only its specification.              *)
SavedFlows ==
  [ fstate |-> fstate, spec |-> spec, granted |-> granted, attempt |-> attempt,
    fgen |-> fgen, bytes |-> bytes, rsvOf |-> rsvOf ]

SavedReservations == [ reservations |-> reservations, rsvRate |-> rsvRate ]

SavedTenants == [ submitted |-> submitted, completed |-> completed ]

(* build_snapshot_locked                                                   *)
Snapshot ==
  [ known |-> known, paths |-> paths, capGen |-> capGen, epoch |-> epoch,
    flows |-> SavedFlows, rsvs |-> SavedReservations, tenants |-> SavedTenants ]

RecoveryInit ==
  /\ Init
  /\ file = NoSnapshot
  /\ starts = 0

GovernorStep == Next /\ UNCHANGED recoveryVars

SaveFile ==
  /\ file' = Snapshot
  /\ UNCHANGED <<vars, starts>>

(* Faulty variants of the parts of restore: each leaves its part alone.    *)
KeepEpoch(snap) == capGen' = snap.capGen /\ UNCHANGED epoch

KeepAttempts(snap) == UNCHANGED <<attempt, fgen>>

KeepTenants(snap) == UNCHANGED tenantVars

KeepLoad == RecomputeGoverned /\ UNCHANGED <<loadVars, saturated>>

RestoreEpoch(snap) == capGen' = snap.capGen /\ epoch' = snap.epoch

(* Resources come back enabled and with nothing measured.                  *)
RestoreTopology(snap) ==
  /\ known' = snap.known
  /\ paths' = snap.paths
  /\ enabled' = [r \in Resources |-> TRUE]
  /\ measured' = [r \in Resources |-> 0]
  /\ age' = [r \in Resources |-> 0]

RestoreAttempts(snap) == attempt' = snap.flows.attempt /\ fgen' = snap.flows.fgen

(* Flows come back without a worker.                                       *)
RestoreFlows(snap) ==
  /\ fstate' = snap.flows.fstate
  /\ spec' = snap.flows.spec
  /\ granted' = snap.flows.granted
  /\ RestoreAttempts(snap)
  /\ bytes' = snap.flows.bytes
  /\ rsvOf' = snap.flows.rsvOf
  /\ assigned' = [f \in Flows |-> NoWorker]
  /\ assignedBoot' = [f \in Flows |-> NoBoot]

RestoreReservations(snap) ==
  /\ reservations' = snap.rsvs.reservations
  /\ rsvRate' = snap.rsvs.rsvRate

RestoreTenants(snap) ==
  /\ submitted' = snap.tenants.submitted
  /\ completed' = snap.tenants.completed

RefreshAll ==
  /\ RecomputeGoverned
  /\ RecomputeLoad
  /\ saturated' = [r \in Resources |->
                     r \in known' /\ allocated'[r] + reserved'[r] >= governed'[r]]

(* restore: every table but the workers' is replaced, then every cached    *)
(* figure is recomputed.                                                   *)
Restore(snap) ==
  /\ RestoreEpoch(snap)
  /\ RestoreTopology(snap)
  /\ RestoreFlows(snap)
  /\ RestoreReservations(snap)
  /\ RestoreTenants(snap)
  /\ RefreshAll
  /\ UNCHANGED <<minted, workerVars>>

(* load_file, in the process that saved the file or in a later one.        *)
LoadFile ==
  /\ file # NoSnapshot
  /\ Restore(file)
  /\ UNCHANGED recoveryVars

(* The process dies and another is started.  Its governor is empty, under  *)
(* a fresh epoch; the workers it knew are not registered.                  *)
Restart ==
  /\ starts < MaxStarts
  /\ starts' = starts + 1
  /\ epoch' = starts + 1
  /\ known' = {}
  /\ paths' = {}
  /\ capGen' = 0
  /\ enabled' = [r \in Resources |-> TRUE]
  /\ measured' = [r \in Resources |-> 0]
  /\ age' = [r \in Resources |-> 0]
  /\ governed' = [r \in Resources |-> 0]
  /\ reserved' = [r \in Resources |-> 0]
  /\ allocated' = [r \in Resources |-> 0]
  /\ saturated' = [r \in Resources |-> FALSE]
  /\ fstate' = [f \in Flows |-> "Absent"]
  /\ spec' = [f \in Flows |-> NoSpec]
  /\ granted' = [f \in Flows |-> 0]
  /\ attempt' = [f \in Flows |-> 0]
  /\ fgen' = [f \in Flows |-> 0]
  /\ bytes' = [f \in Flows |-> 0]
  /\ rsvOf' = [f \in Flows |-> 0]
  /\ assigned' = [f \in Flows |-> NoWorker]
  /\ assignedBoot' = [f \in Flows |-> NoBoot]
  /\ reservations' = [f \in Flows |-> [n \in RsvNums |-> Unminted]]
  /\ rsvRate' = [f \in Flows |-> [n \in RsvNums |-> 0]]
  /\ alive' = [w \in Workers |-> FALSE]
  /\ wboot' = [w \in Workers |-> NoBoot]
  /\ submitted' = [t \in Tenants |-> 0]
  /\ completed' = [t \in Tenants |-> 0]
  /\ UNCHANGED <<minted, file>>

RecoveryNext == GovernorStep \/ SaveFile \/ LoadFile \/ Restart

RecoverySpec == RecoveryInit /\ [][RecoveryNext]_allVars

-------------------------------------------------------------------------------
(* What the worker of a restored flow reports is accepted: while a flow    *)
(* runs, a report that names its active reservation's attempt and          *)
(* generation and comes from the flow's worker, alive, is authorised by    *)
(* the governor that has the reservation, whichever process minted it,     *)
(* unless the topology changed in between.  (The tests finish a restored   *)
(* flow: "complete in recovered instance and verify accounting reaches     *)
(* zero".)                                                                 *)
ReportsAccepted ==
  \A f \in Flows, n \in RsvNums :
    LET rsv == reservations[f][n]
        w == assigned[f]
    IN  /\ rsv.state = "Active"
        /\ rsv.capGen = capGen
        /\ fstate[f] = "Running"
        /\ w # NoWorker => alive[w]
        => Authorised(f, rsv.attempt, rsv.fgen, IF w = NoWorker THEN NoBoot ELSE wboot[w])

(* "Recovery cannot resurrect obsolete authority" (README): a reservation  *)
(* the governor has released, expired or revoked is never active again in  *)
(* the same process.  Loading a file that was saved before the release     *)
(* brings it back.                                                         *)
NoResurrection ==
  [][ \A f \in Flows, n \in RsvNums :
        reservations[f][n].state \in TerminalReservation
          => reservations'[f][n].state # "Active" ]_allVars
===============================================================================
