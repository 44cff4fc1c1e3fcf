------------------------- MODULE ReservationAuthority -------------------------
(***************************************************************************)
(* What the coordinator promises of its reservations, whatever it does     *)
(* inside: the authority to move a flow's bytes is issued under numbers    *)
(* that only grow, issuing a number kills the one before it in the same    *)
(* step, a dead number never lives again, and a flow that was completed or *)
(* cancelled is issued no other.  Governor implements this specification.  *)
(***************************************************************************)
EXTENDS Naturals

CONSTANT Flows

VARIABLES
  issued,    \* issued[f]: numbers issued for flow f so far
  live,      \* live[f]: the numbers that carry authority now
  outcome    \* outcome[f]: "open", "completed" or "cancelled"

authorityVars == <<issued, live, outcome>>

Init ==
  /\ issued = [f \in Flows |-> 0]
  /\ live = [f \in Flows |-> {}]
  /\ outcome = [f \in Flows |-> "open"]

Keep(f) ==
  /\ issued'[f] = issued[f]
  /\ live'[f] = live[f]
  /\ outcome'[f] = outcome[f]

Issue(f) ==
  /\ outcome[f] = "open"
  /\ issued'[f] = issued[f] + 1
  /\ live'[f] = {issued[f] + 1}
  /\ outcome'[f] = outcome[f]

Revoke(f) ==
  /\ issued'[f] = issued[f]
  /\ live'[f] = {}
  /\ outcome'[f] = outcome[f]

(* Work completes only where authority for it was issued.                  *)
Complete(f) ==
  /\ outcome[f] = "open"
  /\ issued[f] # 0
  /\ issued'[f] = issued[f]
  /\ live'[f] = {}
  /\ outcome'[f] = "completed"

Cancel(f) ==
  /\ outcome[f] = "open"
  /\ issued'[f] = issued[f]
  /\ live'[f] = {}
  /\ outcome'[f] = "cancelled"

FlowStep(f) == Keep(f) \/ Issue(f) \/ Revoke(f) \/ Complete(f) \/ Cancel(f)

(* One step of the coordinator may admit or retry several flows.           *)
Next == \A f \in Flows : FlowStep(f)

Spec == Init /\ [][Next]_authorityVars
===============================================================================
