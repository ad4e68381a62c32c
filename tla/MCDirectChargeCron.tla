---- MODULE MCDirectChargeCron ----
(***************************************************************************)
(* DirectChargeCron for TLC.  One unit of time is 5 s: lease 25 s = 5,     *)
(* period 30 s = 6, API timeout 30 s = 6, budget 18 s rounded to 4.  The   *)
(* calls differ in nothing: any permutation of them is a symmetry of the   *)
(* safety properties.                                                      *)
(***************************************************************************)
EXTENDS DirectChargeCron, TLC

CallSymmetry == Permutations(Calls)
====
