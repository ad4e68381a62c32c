---- MODULE MCDistributedLock ----
(***************************************************************************)
(* DistributedLock for TLC: a lease of two units asked for, clocks that    *)
(* differ by one unit.                                                     *)
(***************************************************************************)
EXTENDS DistributedLock
====
