----------------------------- MODULE MCWaterFill -----------------------------
(***************************************************************************)
(* Instances of WaterFill for TLC.  A rate of n units is n * Grain: water  *)
(* levels are multiples of 1/2 for weights 1 and 2, and three such weights *)
(* add up to at most 6, so 1/120 is fine enough.                           *)
(***************************************************************************)
EXTENDS WaterFill

Grain == 120

Envelope(min, want, max) == [min |-> min * Grain, want |-> want * Grain, max |-> max * Grain]

MCEnvelopes == { Envelope(0, 1, 1), Envelope(0, 3, 3), Envelope(1, 1, 2),
                 Envelope(1, 2, 3), Envelope(2, 4, 4) }

MCCapacities == { n * Grain : n \in 0..8 }
===============================================================================
