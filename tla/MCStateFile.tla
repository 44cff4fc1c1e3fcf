----------------------------- MODULE MCStateFile -----------------------------
(***************************************************************************)
(* Instances of StateFile for TLC: states whose encodings grow and shrink. *)
(***************************************************************************)
EXTENDS StateFile

MCSize == [v \in 0..MaxVersion |-> IF v = 1 THEN 3 ELSE IF v = 2 THEN 1 ELSE 2]
===============================================================================
