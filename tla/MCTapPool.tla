----------------------------- MODULE MCTapPool -----------------------------
(* Five test threads and five jobs, with the devices of one pair missing. *)
EXTENDS TapPool
=============================================================================
