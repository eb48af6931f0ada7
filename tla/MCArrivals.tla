---------------------------- MODULE MCArrivals ----------------------------
(* Small instances of Arrivals. *)
EXTENDS Arrivals, TLC
=============================================================================
