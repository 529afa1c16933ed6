------------------------------ MODULE MCSched ------------------------------
(***************************************************************************)
(* Instances of Sched for TLC.  Threads and goroutines are model values;   *)
(* Main and M0 are distinguished, the rest of the goroutines are           *)
(* interchangeable.                                                        *)
(***************************************************************************)
EXTENDS SchedInv, TLC
=============================================================================
