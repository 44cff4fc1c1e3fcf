------------------------------ MODULE MCRecovery ------------------------------
(***************************************************************************)
(* An instance of Recovery for TLC: a path over two links of which the     *)
(* second is the narrower, and one flow, guaranteed or best effort, that   *)
(* could use all of the first.                                             *)
(***************************************************************************)
EXTENDS Recovery, TLC

CONSTANTS r1, r2, p1, w1, t1

TwoHops == p1 :> {r1, r2}
OneBacker == w1 :> {r1}
TwoNominals == r1 :> 4 @@ r2 :> 3

Guaranteed ==
  [ path |-> p1, tenant |-> t1, min |-> 2, pref |-> 4, max |-> 4,
    preemptible |-> TRUE ]

BestEffort == [ Guaranteed EXCEPT !.min = 0 ]

BothSpecs == { Guaranteed, BestEffort }
===============================================================================
