------------------------------- MODULE MCServer -------------------------------
(* Instances of Server for TLC.                                            *)
EXTENDS Server, TLC

CONSTANTS c1, c2, w1, w2

(* A worker that comes back under its identity, and two workers.           *)
MCIdentities == { c1 :> w1 @@ c2 :> w1, c1 :> w1 @@ c2 :> w2 }
===============================================================================
