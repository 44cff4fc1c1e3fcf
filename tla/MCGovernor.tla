------------------------------ MODULE MCGovernor ------------------------------
(***************************************************************************)
(* Instances of Governor for TLC: one link and the path over it.           *)
(***************************************************************************)
EXTENDS Governor, TLC

CONSTANTS r1, p1, w1, t1

OneHop == p1 :> {r1}
OneBacker == w1 :> {r1}
NoBackers == <<>>
OneNominal == r1 :> 4

Guaranteed(p) ==
  [ path |-> p, tenant |-> t1, min |-> 2, pref |-> 3, max |-> 4,
    preemptible |-> TRUE ]

Pinned(p) ==
  [ path |-> p, tenant |-> t1, min |-> 3, pref |-> 3, max |-> 3,
    preemptible |-> FALSE ]

MixedSpecs == { Guaranteed(p1), Pinned(p1) }
GuaranteedOnly == { Guaranteed(p1) }

FlowSymmetry == Permutations(Flows)
===============================================================================
