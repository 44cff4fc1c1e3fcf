---------------------------- MODULE MCCoordinator ----------------------------
(***************************************************************************)
(* Instances of Coordinator for TLC: one link backed by one worker.        *)
(***************************************************************************)
EXTENDS Coordinator, TLC

CONSTANTS r1, p1, w1, t1

OneHop == p1 :> {r1}
OneBacker == w1 :> {r1}
OneNominal == r1 :> 4
OneWorker == [b \in Boots |-> w1]

(* Neither throttled nor preempted, whatever its share.                    *)
SteadyOnly ==
  { [ path |-> p1, tenant |-> t1, min |-> 0, pref |-> 3, max |-> 4,
      preemptible |-> FALSE ] }

GuaranteedOnly ==
  { [ path |-> p1, tenant |-> t1, min |-> 2, pref |-> 3, max |-> 4,
      preemptible |-> TRUE ] }
===============================================================================
