-------------------------------- MODULE Totals --------------------------------
(***************************************************************************)
(* The sum of a function over a finite set, as the code's accumulating     *)
(* loops over flows and reservations compute it.                           *)
(***************************************************************************)
EXTENDS Integers, FiniteSetsExt

Total(g, S) == MapThenSumSet(LAMBDA x : g[x], S)
===============================================================================
